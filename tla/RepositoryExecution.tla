------------------------- MODULE RepositoryExecution -------------------------
(***************************************************************************)
(* The execution runs of one user: work units leased to agents in the order *)
(* of their prerequisites, outputs, reviews, retries, recovery.             *)
(* MemoryRepositoryExecutionStore is the store the repository's tests       *)
(* exercise (Durable = FALSE); the procedures of migration 20260808000000   *)
(* are the store the program runs on (Durable = TRUE), and the guards that  *)
(* one of them lacks name Durable.  A unit's claim token is its attempt: a  *)
(* lease increments it.  A request repeated under its idempotency key       *)
(* answers what it answered and changes nothing.  Every run has the policy  *)
(* agent_assisted; review-only and dry runs are never leased.               *)
(***************************************************************************)
EXTENDS Naturals, FiniteSets

CONSTANTS
  Runs,
  Units,
  Needs,        \* the prerequisites of each unit
  Durable,      \* TRUE for the procedures, FALSE for the memory store
  MaxAttempts,  \* retryPolicy.maxAttempts
  MaxActive,    \* activeRunsPerUser
  MaxLeases,    \* concurrentLeasesPerUser
  Calls,        \* calls for a unit that may overlap: one in the memory store
  AttemptBound  \* bound of the model: leases of one unit

NeedsAssumption == Needs \in [Units -> SUBSET Units]
DurableAssumption == Durable \in BOOLEAN
AttemptsAssumption == AttemptBound \in Nat /\ MaxAttempts \in 1..AttemptBound
LeasesAssumption == MaxLeases \in Nat /\ Calls \in Nat \ {0}

VARIABLES
  run,
  counted  \* calls that have counted the user's leases, and have not leased a unit yet

vars == <<run, counted>>

TerminalRuns == {"succeeded", "failed", "cancelled", "superseded"}
TerminalUnits == {"succeeded", "failed", "cancelled", "skipped"}
Done == {"succeeded", "skipped"}

Run ==
  [status: TerminalRuns \union {"none", "awaiting_approval", "approved", "running"},
   approvalState: {"pending", "partial", "approved", "rejected"},
   approved: SUBSET Units,
   unit: [Units -> TerminalUnits \union
            {"blocked", "ready", "leased", "running", "awaiting_review"}],
   attempt: [Units -> 0..AttemptBound],
   lease: [Units -> {"none", "live", "expired"}],
   outputVersion: [Units -> 0..AttemptBound],
   author: [Units -> 0..AttemptBound],  \* the claim that published the latest output
   overdue: BOOLEAN]                    \* the run's duration is used up

TypeOK == run \in [Runs -> Run] /\ counted \in 0..Calls

ScheduleReviewed(unit) ==  \* mutant: an output under review counts as done
  [u \in Units |->
     IF unit[u] \notin {"blocked", "ready"} THEN unit[u]
     ELSE IF \A p \in Needs[u]: unit[p] \in Done \union {"awaiting_review"}
          THEN "ready" ELSE "blocked"]

\* scheduleWorkUnits: what waits for prerequisites becomes ready with the last of them.
Schedule(unit) ==
  [u \in Units |->
     IF unit[u] \notin {"blocked", "ready"} THEN unit[u]
     ELSE IF \A p \in Needs[u]: unit[p] \in Done THEN "ready" ELSE "blocked"]

RefreshedRunning(x) ==  \* mutant: a unit still out comes before a failed one
  LET unit == Schedule(x.unit)
      has(S) == \E u \in Units: unit[u] \in S
  IN [x EXCEPT !.unit = unit,
       !.status = IF has({"leased", "running", "awaiting_review"}) THEN "running"
                  ELSE IF has({"failed"}) THEN "failed"
                  ELSE IF \A u \in Units: unit[u] \in Done THEN "succeeded" ELSE @]

\* refresh: units scheduled anew, and the run's status from theirs.  (The procedure reads
\* the other units unlocked: where two calls overlap, each as the other found them.)
Refreshed(x) ==
  LET unit == Schedule(x.unit)
      has(S) == \E u \in Units: unit[u] \in S
      new == IF has({"failed"}) THEN "failed"
             ELSE IF \A u \in Units: unit[u] \in Done THEN "succeeded"
             ELSE IF has({"leased", "running", "awaiting_review"}) THEN "running"
             ELSE IF x.approvalState = "approved" /\ ~Durable THEN "approved"
             ELSE x.status
  IN [x EXCEPT !.unit = unit,
               !.status = IF Durable /\ @ \in {"cancelled", "superseded"} THEN @ ELSE new]

NoRun ==
  [status |-> "none", approvalState |-> "pending", approved |-> {},
   unit |-> Schedule([u \in Units |-> "blocked"]), attempt |-> [u \in Units |-> 0],
   lease |-> [u \in Units |-> "none"], outputVersion |-> [u \in Units |-> 0],
   author |-> [u \in Units |-> 0], overdue |-> FALSE]

Init == run = [r \in Runs |-> NoRun] /\ counted = 0

Exists(r) == run[r].status # "none"
Terminal(r) == run[r].status \in TerminalRuns
Active == {r \in Runs: Exists(r) /\ ~Terminal(r)}
LiveLeases == {l \in Runs \X Units: run[l[1]].lease[l[2]] = "live"}

\* (The procedure's count refuses none of the creations that overlap.)
Create(r) ==
  /\ ~Exists(r)
  /\ Cardinality(Active) < MaxActive
  /\ run' = [run EXCEPT ![r].status = "awaiting_approval"]

\* decide_repository_execution does not ask whether the run has ended.
Approve(r, units) ==
  /\ Exists(r)
  /\ Durable \/ ~Terminal(r)
  /\ LET approved == run[r].approved \union units
     IN run' = [run EXCEPT
          ![r].approved = approved,
          ![r].approvalState = IF approved = Units THEN "approved" ELSE "partial",
          ![r].status = "approved"]

StoppedKeepingLeases(x, status) ==  \* mutant: the leases stay
  [x EXCEPT
     !.status = status,
     !.unit = [u \in Units |-> IF @[u] \in TerminalUnits THEN @[u] ELSE "cancelled"]]

\* Every unit that has not ended is cancelled and every lease is taken away.
Stopped(x, status) ==
  [x EXCEPT
     !.status = status,
     !.unit = [u \in Units |-> IF @[u] \in TerminalUnits THEN @[u] ELSE "cancelled"],
     !.lease = [u \in Units |-> "none"]]

Reject(r) ==
  /\ Exists(r)
  /\ Durable \/ ~Terminal(r)
  /\ run' = [run EXCEPT ![r] = [Stopped(@, "cancelled") EXCEPT !.approvalState = "rejected"]]

\* cancel and supersede; their procedures do not ask whether the run has ended.
Stop(r, status) ==
  /\ Exists(r)
  /\ Durable \/ ~Terminal(r)
  /\ run' = [run EXCEPT ![r] = Stopped(@, status)]

Leasable(r) ==
  /\ run[r].status \in {"approved", "running"}
  /\ run[r].approvalState = "approved" \/ (~Durable /\ run[r].approvalState = "partial")

\* The memory store looks at the run's duration when a unit is asked for, and only then.
LeaseOverdue(r) ==
  /\ Leasable(r) /\ ~Durable
  /\ run[r].overdue
  /\ run' = [run EXCEPT ![r].status = "failed"]

\* lease_repository_execution_work_unit counts the user's leases before it locks anything.
CountLeases ==
  /\ Durable
  /\ counted < Calls
  /\ Cardinality(LiveLeases) < MaxLeases
  /\ counted' = counted + 1
  /\ UNCHANGED run

\* There is no approved run, or no unit of it that is ready.
LeaseNone ==
  /\ counted > 0
  /\ counted' = counted - 1
  /\ UNCHANGED run

\* The memory store counts and leases in one step.
Counted ==
  IF Durable THEN counted > 0 /\ counted' = counted - 1
  ELSE Cardinality(LiveLeases) < MaxLeases /\ UNCHANGED counted

LeaseNext(r, u) ==
  /\ Leasable(r)
  /\ ~run[r].overdue
  /\ Counted
  /\ LET unit == IF Durable THEN run[r].unit ELSE Schedule(run[r].unit)
     IN /\ unit[u] = "ready"
        /\ u \in run[r].approved
        /\ IF run[r].attempt[u] >= MaxAttempts /\ ~Durable
           THEN run' = [run EXCEPT ![r] = Refreshed([@ EXCEPT !.unit[u] = "failed"])]
           ELSE /\ run[r].attempt[u] < AttemptBound
                /\ run' = [run EXCEPT
                     ![r].unit = [unit EXCEPT ![u] = "leased"],
                     ![r].attempt[u] = @ + 1,
                     ![r].lease[u] = "live",
                     ![r].status = "running"]

FencedByWorker(r, u, claim) ==  \* mutant: any claim that was ever given
  /\ run[r].lease[u] = "live"
  /\ claim <= run[r].attempt[u]

FencedAnyTime(r, u, claim) ==  \* mutant: an expired lease is as good
  /\ run[r].lease[u] # "none"
  /\ claim = run[r].attempt[u]

\* fenced: the claim is the one the lease was given for, and the lease still runs.
Fenced(r, u, claim) ==
  /\ run[r].lease[u] = "live"
  /\ claim = run[r].attempt[u]

Heartbeat(r, u, claim) ==
  /\ Fenced(r, u, claim)
  /\ run' = [run EXCEPT ![r].unit[u] = "running", ![r].lease[u] = "live"]

PublishHolding(r, u, claim) ==  \* mutant: the lease stays
  /\ Fenced(r, u, claim)
  /\ run' = [run EXCEPT ![r] = Refreshed([@ EXCEPT
       !.outputVersion[u] = run[r].outputVersion[u] + 1,
       !.author[u] = claim,
       !.unit[u] = "awaiting_review"])]

\* Under this policy an output of any completion status waits for its review.
PublishOutput(r, u, claim) ==
  /\ Fenced(r, u, claim)
  /\ run' = [run EXCEPT ![r] = Refreshed([@ EXCEPT
       !.outputVersion[u] = run[r].outputVersion[u] + 1,
       !.author[u] = claim,
       !.unit[u] = "awaiting_review",
       !.lease[u] = "none"])]

\* The verdict is about the output its reviewer has read.
SubmitReview(r, u, verdict, version) ==
  /\ run[r].unit[u] = "awaiting_review"
  /\ run[r].outputVersion[u] = version
  /\ run' = [run EXCEPT ![r] = Refreshed([@ EXCEPT !.unit[u] =
       IF verdict = "approved" THEN "succeeded"
       ELSE IF verdict = "skipped" THEN "skipped"
       ELSE IF verdict = "changes_requested"
               /\ (Durable \/ run[r].attempt[u] < MaxAttempts) THEN "ready"
       ELSE "failed"])]

GivenUpUncounted(x, u, retryable) ==  \* mutant: retried whatever its attempts
  [x EXCEPT !.unit[u] = IF retryable THEN "ready" ELSE "failed", !.lease[u] = "none"]

\* A unit whose lease is given up is tried again while it has attempts.
GivenUp(x, u, retryable) ==
  [x EXCEPT !.unit[u] = IF retryable /\ x.attempt[u] < MaxAttempts THEN "ready" ELSE "failed",
            !.lease[u] = "none"]

FailUnit(r, u, claim, retryable) ==
  /\ Fenced(r, u, claim)
  /\ run' = [run EXCEPT ![r] = Refreshed(GivenUp(@, u, retryable))]

\* recover, when the backend starts.  The memory store leaves ended runs as they are.
Recover(r, u) ==
  /\ run[r].lease[u] = "expired"
  /\ Durable \/ ~Terminal(r)
  /\ run' = [run EXCEPT ![r] = Refreshed(GivenUp(@, u, TRUE))]

\* Time: an agent has not renewed its lease, or the run has lasted too long.
Expire(r, u) ==
  /\ run[r].lease[u] = "live"
  /\ run' = [run EXCEPT ![r].lease[u] = "expired"]

BecomeOverdue(r) ==
  /\ Exists(r) /\ ~Durable
  /\ ~run[r].overdue
  /\ run' = [run EXCEPT ![r].overdue = TRUE]

Next ==
  \/ /\ \E r \in Runs:
          \/ Create(r)
          \/ \E units \in SUBSET Units \ {{}}: Approve(r, units)
          \/ Reject(r)
          \/ \E status \in {"cancelled", "superseded"}: Stop(r, status)
          \/ LeaseOverdue(r)
          \/ BecomeOverdue(r)
          \/ \E u \in Units:
               \/ Expire(r, u)
               \/ Recover(r, u)
               \/ \E claim \in 1..AttemptBound:
                    \/ Heartbeat(r, u, claim)
                    \/ PublishOutput(r, u, claim)
                    \/ \E retryable \in BOOLEAN: FailUnit(r, u, claim, retryable)
               \/ \E version \in 0..AttemptBound,
                     verdict \in {"approved", "skipped", "changes_requested", "rejected"}:
                    SubmitReview(r, u, verdict, version)
     /\ UNCHANGED counted
  \/ CountLeases \/ LeaseNone
  \/ \E r \in Runs, u \in Units: LeaseNext(r, u)

Spec == Init /\ [][Next]_vars

(***************************************************************************)
(* Properties                                                              *)
(***************************************************************************)
\* No agent has been given a unit before all its prerequisites have succeeded or been
\* skipped, whatever was retried, recovered or reviewed since (scheduleWorkUnits, leaseNext).
PrerequisitesFirst ==
  \A r \in Runs, u \in Units:
    run[r].attempt[u] > 0 => \A p \in Needs[u]: run[r].unit[p] \in Done

\* A unit is out with an agent exactly while its lease is there: none is lost without a
\* lease that recovery could find, and no ended unit keeps one.
LeasedUnitsHaveLeases ==
  \A r \in Runs, u \in Units:
    run[r].unit[u] \in {"leased", "running"} <=> run[r].lease[u] # "none"

\* The output that is judged, or was judged last, was published by the last agent that had
\* the unit, never by one whose lease had been given to another (fenced).
OutputOfTheHolder ==
  \A r \in Runs, u \in Units:
    run[r].unit[u] \in {"awaiting_review"} \union Done =>
      run[r].author[u] = run[r].attempt[u] /\ run[r].author[u] > 0

\* A unit that waits to be leased has an attempt left, however it came back.  The procedures
\* let a reviewer who asks for changes go beyond the limit: there, what has none left waits
\* after its last attempt was published, never after one that failed or was recovered.
ReadyUnitsHaveAttempts ==
  \A r \in Runs, u \in Units:
    run[r].unit[u] = "ready" =>
      \/ run[r].attempt[u] < MaxAttempts
      \/ Durable /\ run[r].author[u] = run[r].attempt[u]

\* A unit that has ended stays so, whatever its run is decided to be, and whoever answers,
\* expires or is recovered late.
EndedUnitsStay ==
  \A r \in Runs, u \in Units:
    run[r].unit[u] \in TerminalUnits => run'[r].unit[u] = run[r].unit[u]

\* How a run ended is changed by no agent, review, expiry or recovery, in the memory store;
\* only one failed for its duration goes on when an agent that still holds a unit answers.
\* (In the procedures the user may approve, reject, cancel or supersede an ended run, and
\* two calls on its units that overlap may each miss what the other did.)
EndedRunsStay ==
  \A r \in Runs:
    /\ ~Durable /\ Terminal(r)
    /\ run[r].status = "failed" => \E u \in Units: run[r].unit[u] = "failed"
    => run'[r].status = run[r].status

\* The user's agents hold no more leases than the quota, and one more for every call that
\* overlaps another: the procedure's count is not kept until the lease is made.
LeasesWithinQuota == Cardinality(LiveLeases) + counted < MaxLeases + Calls
=============================================================================
