---------------------------- MODULE AgentRuntime ----------------------------
(***************************************************************************)
(* The agent runtimes of one tenant in the Postgres store (the procedures   *)
(* of migration 20260809000000) and the executors that lease them           *)
(* (AgentRuntimeExecutor).                                                  *)
(*                                                                         *)
(* A procedure first asks - the fence, the count of leases, the candidates  *)
(* of a recovery - and holds no lock on what it read; then it writes.  The  *)
(* two are steps of their own here, with any other call's between them.     *)
(* What it writes under its row locks is one step; a lease or an output     *)
(* that another call inserts between two of its statements is left by it.   *)
(*                                                                         *)
(* A lease's claim token is the attempt it was given for.  The count of     *)
(* active runtimes that create asks refuses none of the creations that      *)
(* overlap, and is left out.  Runtimes are leased in any order.             *)
(***************************************************************************)
EXTENDS Naturals, FiniteSets

CONSTANTS
  Runtimes,
  Executors,
  None,         \* no runtime
  Retries,      \* quotas.retries
  MaxLeases,    \* the smaller of quotas.leasedWorkUnits and quotas.concurrentAgents
  AttemptBound  \* bound of the model: leases of one runtime

AttemptsAssumption == {Retries, MaxLeases, AttemptBound} \subseteq Nat
NoneAssumption == None \notin Runtimes

VARIABLES
  runtime,
  executor,
  candidate  \* what a recovery under way has found

vars == <<runtime, executor, candidate>>

\* A runtime that is unhealthy has not ended.
Ended == {"completed", "failed", "cancelled"}

Output == [version: Nat, claim: 1..AttemptBound, published: BOOLEAN]

Runtime ==
  [status: Ended \union {"none", "ready", "leased", "running", "waiting", "unhealthy"},
   attempt: 0..AttemptBound,
   lease: {"none", "live", "expired"},  \* the row of the last attempt's lease
   outputs: SUBSET Output,
   outputVersion: Nat,
   superseded: BOOLEAN,
   overdue: BOOLEAN]                    \* the runtime's duration is used up

Executor ==
  [at: {"idle", "counted", "leased", "starting", "reasoning", "pausing", "resuming",
        "publishing", "failing", "returning"},
   of: Runtimes \union {None}, claim: 0..AttemptBound,
   version: Nat,                        \* the output version its fence read
   code: {"none", "transient", "timeout"}]

TypeOK ==
  /\ runtime \in [Runtimes -> Runtime]
  /\ executor \in [Executors -> Executor]
  /\ \A e \in Executors: executor[e].at \notin {"idle", "counted"} => executor[e].of \in Runtimes
  /\ candidate \in [Runtimes -> {"no", "leased", "overdue"}]

NoRuntime ==
  [status |-> "none", attempt |-> 0, lease |-> "none", outputs |-> {}, outputVersion |-> 0,
   superseded |-> FALSE, overdue |-> FALSE]
Idle == [at |-> "idle", of |-> None, claim |-> 0, version |-> 0, code |-> "none"]

Init ==
  /\ runtime = [r \in Runtimes |-> NoRuntime]
  /\ executor = [e \in Executors |-> Idle]
  /\ candidate = [r \in Runtimes |-> "no"]

LiveLeases == {r \in Runtimes: runtime[r].lease = "live"}
Unended(r) == runtime[r].status \notin Ended \union {"none"}

Become(r, x) == runtime' = [runtime EXCEPT ![r] = x] /\ UNCHANGED candidate
Go(e, where) == executor' = [executor EXCEPT ![e].at = where]
Failing(e, code) == executor' = [executor EXCEPT ![e].at = "failing", ![e].code = code]
Leave(e) == executor' = [executor EXCEPT ![e] = Idle]

Create(r) ==
  /\ runtime[r].status = "none"
  /\ Become(r, [runtime[r] EXCEPT !.status = "ready"])
  /\ UNCHANGED executor

-----------------------------------------------------------------------------
(* Leasing *)

\* lease_agent_runtime counts the tenant's leases before it locks a runtime.
CountLeases(e) ==
  /\ executor[e].at = "idle"
  /\ Cardinality(LiveLeases) < MaxLeases
  /\ Go(e, "counted")
  /\ UNCHANGED <<runtime, candidate>>

Lease(e, r) ==
  /\ Become(r, [runtime[r] EXCEPT !.attempt = @ + 1, !.lease = "live", !.status = "leased"])
  /\ executor' = [executor EXCEPT ![e] =
       [at |-> "leased", of |-> r, claim |-> runtime[r].attempt + 1, version |-> 0,
        code |-> "none"]]

Leasable(r) ==
  /\ runtime[r].status = "ready" /\ ~runtime[r].overdue
  /\ runtime[r].lease = "none"
  /\ runtime[r].attempt < AttemptBound

LeaseNextAnyway(e, r) ==  \* mutant: the successor is not looked for
  executor[e].at = "counted" /\ Leasable(r) /\ Lease(e, r)

\* Overdue runtimes are passed over; where there still is a lease, the insertion fails.
LeaseNext(e, r) ==
  executor[e].at = "counted" /\ Leasable(r) /\ ~runtime[r].superseded /\ Lease(e, r)

LeaseNone(e) ==
  /\ executor[e].at = "counted"
  /\ Leave(e)
  /\ UNCHANGED <<runtime, candidate>>

-----------------------------------------------------------------------------
(* What a claim allows: the fence is asked in one step, the call writes in another *)

\* assert_agent_runtime_fence: the lease is the executor's and runs, the runtime not superseded.
Fenced(e) ==
  /\ runtime[executor[e].of].lease = "live"
  /\ runtime[executor[e].of].attempt = executor[e].claim
  /\ ~runtime[executor[e].of].superseded

FencedIn(e, statuses) == Fenced(e) /\ runtime[executor[e].of].status \in statuses

\* execute: a refused transition ends the execution.
AskStart(e) ==
  /\ executor[e].at = "leased"
  /\ IF FencedIn(e, {"leased", "waiting", "running"}) THEN Go(e, "starting") ELSE Leave(e)
  /\ UNCHANGED <<runtime, candidate>>

\* transition: a reasoner that waits for something, and goes on.
AskPause(e) ==
  /\ executor[e].at = "reasoning"
  /\ \/ FencedIn(e, {"running"}) /\ Go(e, "pausing")
     \/ FencedIn(e, {"leased", "waiting", "running"}) /\ Go(e, "resuming")
  /\ UNCHANGED <<runtime, candidate>>

\* The status is written whatever it is by now.
Transition(e) ==
  /\ executor[e].at \in {"starting", "pausing", "resuming"}
  /\ LET r == executor[e].of
     IN Become(r, [runtime[r] EXCEPT !.status =
          IF executor[e].at = "pausing" THEN "waiting" ELSE "running"])
  /\ Go(e, "reasoning")

\* The fence was asked before, while the lease of some claim ran: renewed is the lease that
\* is there by now, expired or another claim's.
Heartbeat(r) ==
  /\ runtime[r].lease # "none"
  /\ Become(r, [runtime[r] EXCEPT !.lease = "live"])
  /\ UNCHANGED executor

\* The next output's version is made from the row the fence read.
AskPublish(e) ==
  /\ executor[e].at = "reasoning"
  /\ IF FencedIn(e, {"running", "waiting"})
     THEN executor' = [executor EXCEPT ![e].at = "publishing",
                         ![e].version = runtime[executor[e].of].outputVersion]
     ELSE Failing(e, "transient")
  /\ UNCHANGED <<runtime, candidate>>

Published(x, claim, next) ==
  [x EXCEPT
     !.outputs = @ \union {[version |-> next, claim |-> claim, published |-> TRUE]},
     !.outputVersion = next,
     !.status = "completed",
     !.lease = IF x.attempt = claim THEN "none" ELSE @]

PublishUnkeyed(e) ==  \* mutant: the version is made when it is written
  /\ executor[e].at = "publishing"
  /\ LET r == executor[e].of
     IN Become(r, Published(runtime[r], executor[e].claim, runtime[r].outputVersion + 1))
  /\ Leave(e)

PublishOver(e) ==  \* mutant: a version that there is is replaced
  /\ executor[e].at = "publishing"
  /\ LET r == executor[e].of
         next == executor[e].version + 1
         x == [runtime[r] EXCEPT !.outputs = {o \in @: o.version # next}]
     IN Become(r, Published(x, executor[e].claim, next))
  /\ Leave(e)

\* publish: the primary key refuses a version that there is; everything else is written
\* whatever the runtime is by now.  A refused call has failed.
Publish(e) ==
  /\ executor[e].at = "publishing"
  /\ LET r == executor[e].of
         next == executor[e].version + 1
     IN IF \E o \in runtime[r].outputs: o.version = next
        THEN Failing(e, "transient") /\ UNCHANGED <<runtime, candidate>>
        ELSE Become(r, Published(runtime[r], executor[e].claim, next)) /\ Leave(e)

ReasonerFails(e, code) ==
  /\ executor[e].at = "reasoning"
  /\ Failing(e, code)
  /\ UNCHANGED <<runtime, candidate>>

AskFail(e) ==
  /\ executor[e].at = "failing"
  /\ IF Fenced(e) THEN Go(e, "returning") ELSE Leave(e)
  /\ UNCHANGED <<runtime, candidate>>

\* The attempt that is compared is the one the fence read.  Any lease of the runtime is
\* deleted, except one of another claim inserted after that.
Fail(e, deleted) ==
  /\ executor[e].at = "returning"
  /\ LET r == executor[e].of
         x == runtime[r]
     IN /\ x.attempt = executor[e].claim => deleted
        /\ Become(r, [x EXCEPT
             !.status = IF executor[e].claim <= Retries THEN "ready"
                        ELSE IF executor[e].code = "transient" THEN "unhealthy" ELSE "failed",
             !.lease = IF deleted THEN "none" ELSE @])
  /\ Leave(e)

-----------------------------------------------------------------------------
(* Cancellation, supersession and recovery *)

\* The lease is deleted before the runtime is looked at.
Cancel(r, deleted) ==
  /\ runtime[r].status # "none"
  /\ Become(r, [runtime[r] EXCEPT
       !.status = IF Unended(r) THEN "cancelled" ELSE @,
       !.lease = IF deleted THEN "none" ELSE @])
  /\ UNCHANGED executor

Orphaned(x, seen) ==
  [x EXCEPT !.outputs = {[o EXCEPT !.published = @ /\ o.version > seen] : o \in x.outputs}]

\* The lease goes first, then the outputs there are, then the runtime is cancelled, also
\* one that has ended.
Supersede(r, deleted, seen) ==
  /\ runtime[r].status # "none"
  /\ Become(r, [Orphaned(runtime[r], seen) EXCEPT
       !.status = "cancelled", !.superseded = TRUE,
       !.lease = IF deleted THEN "none" ELSE @])
  /\ UNCHANGED executor

\* recover, when a backend starts: what it selects, by the backend's clock, which may be
\* ahead of the database's.
FindCandidates ==
  /\ \A r \in Runtimes: candidate[r] = "no"
  /\ candidate' = [r \in Runtimes |->
       IF ~Unended(r) THEN "no"
       ELSE IF runtime[r].lease # "none" THEN "leased"
       ELSE IF runtime[r].overdue THEN "overdue" ELSE "no"]
  /\ UNCHANGED <<runtime, executor>>

\* Each is locked in its turn, and looked at again unless it has ended; whether it had a
\* lease is known from before.
Recover(r) ==
  /\ candidate[r] # "no"
  /\ candidate' = [candidate EXCEPT ![r] = "no"]
  /\ Unended(r)
  /\ runtime' = [runtime EXCEPT ![r] = [Orphaned(@, @.outputVersion) EXCEPT
       !.status = IF candidate[r] = "leased" /\ runtime[r].attempt <= Retries
                  THEN "ready" ELSE "failed",
       !.lease = "none"]]
  /\ UNCHANGED executor

\* One that has ended or is locked is skipped, or its lease has not expired.
SkipCandidate(r) ==
  /\ candidate[r] # "no"
  /\ candidate' = [candidate EXCEPT ![r] = "no"]
  /\ UNCHANGED <<runtime, executor>>

-----------------------------------------------------------------------------
\* The executor's process ends.
Crash(e) ==
  /\ executor[e].at # "idle"
  /\ Leave(e)
  /\ UNCHANGED <<runtime, candidate>>

\* Time.
Expire(r) ==
  /\ runtime[r].lease = "live"
  /\ Become(r, [runtime[r] EXCEPT !.lease = "expired"])
  /\ UNCHANGED executor

BecomeOverdue(r) ==
  /\ runtime[r].status # "none" /\ ~runtime[r].overdue
  /\ Become(r, [runtime[r] EXCEPT !.overdue = TRUE])
  /\ UNCHANGED executor

Next ==
  \/ \E r \in Runtimes:
       \/ Create(r) \/ Heartbeat(r)
       \/ \E deleted \in BOOLEAN:
            \/ Cancel(r, deleted)
            \/ \E seen \in 0..runtime[r].outputVersion: Supersede(r, deleted, seen)
       \/ Recover(r) \/ SkipCandidate(r)
       \/ Expire(r) \/ BecomeOverdue(r)
  \/ \E e \in Executors:
       \/ CountLeases(e) \/ \E r \in Runtimes: LeaseNext(e, r)
       \/ LeaseNone(e)
       \/ AskStart(e) \/ AskPause(e) \/ Transition(e)
       \/ AskPublish(e) \/ Publish(e)
       \/ \E code \in {"transient", "timeout"}: ReasonerFails(e, code)
       \/ AskFail(e) \/ \E deleted \in BOOLEAN: Fail(e, deleted)
       \/ Crash(e)
  \/ FindCandidates

Spec == Init /\ [][Next]_vars

(***************************************************************************)
(* Properties                                                              *)
(***************************************************************************)
\* The outputs of a runtime are versions 1, 2, ... up to its output version, and each was
\* published by a later claim than the one before: no claim publishes twice, and none after
\* a claim that was given later, however long its call was under way (publish, the key of
\* agent_runtime_outputs).
OutputsInOrder ==
  \A r \in Runtimes:
    /\ {o.version: o \in runtime[r].outputs} = 1..runtime[r].outputVersion
    /\ \A o, p \in runtime[r].outputs:
         /\ o.claim <= runtime[r].attempt
         /\ o.version = p.version => o = p
         /\ o.version < p.version => o.claim < p.claim

\* An output that was published stays, as its claim's, and one that was taken back is not
\* published again, whatever is recovered, superseded or published late.
OutputsStand ==
  \A r \in Runtimes: \A o \in runtime[r].outputs:
    o \in runtime'[r].outputs \/ [o EXCEPT !.published = FALSE] \in runtime'[r].outputs

\* A superseded runtime stays so and is leased to nobody: what it does yet is what calls
\* under way write (publish and transition do not look again).
SupersededForGood ==
  \A r \in Runtimes: runtime[r].superseded =>
    runtime'[r].superseded /\ runtime'[r].attempt = runtime[r].attempt
=============================================================================
