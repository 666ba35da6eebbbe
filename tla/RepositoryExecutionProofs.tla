---------------------- MODULE RepositoryExecutionProofs ----------------------
(***************************************************************************)
(* For any runs, units, prerequisites and limits, in the memory store and   *)
(* in the procedures: units are begun in the order of their prerequisites,  *)
(* are out exactly with their leases, are judged by their last holder's     *)
(* output and wait with attempts left; what has ended is left so by every   *)
(* agent, review and recovery; and the leases exceed the quota by no more   *)
(* than the calls that overlap.                                             *)
(*                                                                          *)
(* The argument: the invariant is one of a single run (RunInv).  A step     *)
(* that refreshes the run is proved in two parts, what it does to the unit  *)
(* (UnitsInv) and what scheduling then adds (RefreshedKeeps): scheduling    *)
(* leaves what is done as it is, so what was prepared for a unit that has   *)
(* begun is never taken back.                                               *)
(***************************************************************************)
EXTENDS RepositoryExecution, FiniteSetTheorems, TLAPS

ExecutionAssumption ==
  NeedsAssumption /\ DurableAssumption /\ AttemptsAssumption /\ LeasesAssumption

UnitStates ==
  TerminalUnits \union {"blocked", "ready", "leased", "running", "awaiting_review"}
Statuses == TerminalRuns \union {"none", "awaiting_approval", "approved", "running"}

-----------------------------------------------------------------------------
(* The invariant, of one run.                                               *)

\* A unit is out with its lease.
Out(x) == \A u \in Units : x.unit[u] \in {"leased", "running"} <=> x.lease[u] # "none"

\* A lease publishes one output.
Versions(x) ==
  \A u \in Units :
    /\ x.outputVersion[u] <= x.attempt[u]
    /\ x.unit[u] \in {"leased", "running"} => x.outputVersion[u] < x.attempt[u]

\* An output is its holder's.
Authored(x) ==
  \A u \in Units :
    x.unit[u] \in {"awaiting_review"} \union Done => x.author[u] = x.attempt[u] /\ x.author[u] > 0

Prepared(x, u) == \A p \in Needs[u] : x.unit[p] \in Done
Begun(x) == \A u \in Units : x.attempt[u] > 0 => Prepared(x, u)
Ordered(x) == \A u \in Units : x.unit[u] = "ready" => Prepared(x, u)

\* What waits has attempts, or changes were asked of what it published.
Attempts(x) ==
  \A u \in Units : x.unit[u] \in {"blocked", "ready"} =>
    x.attempt[u] < MaxAttempts \/ (Durable /\ x.author[u] = x.attempt[u])

\* What has ended is at rest.
AtRest(x) ==
  /\ x.status \in {"cancelled", "superseded"} => \A u \in Units : x.unit[u] \in TerminalUnits
  /\ x.status = "succeeded" => \A u \in Units : x.unit[u] \in Done

\* All but what scheduling and the run's status bring about.
UnitsInv(x) ==
  x \in Run /\ Out(x) /\ Versions(x) /\ Authored(x) /\ Begun(x) /\ Attempts(x)
RunInv(x) == UnitsInv(x) /\ Ordered(x) /\ AtRest(x)

RunsInv == run \in [Runs -> Run] /\ \A r \in Runs : RunInv(run[r])

\* An ended unit stays, and an ended run's status but for what the user decides.
UnitsStay(x, y) == \A u \in Units : x.unit[u] \in TerminalUnits => y.unit[u] = x.unit[u]
StatusStays(x, y) ==
  x.status \in TerminalRuns /\ (x.status = "failed" => \E u \in Units : x.unit[u] = "failed")
    => y.status = x.status \/ (Durable /\ y.status \in {"approved", "cancelled", "superseded"})
Stays(x, y) == UnitsStay(x, y) /\ StatusStays(x, y)

-----------------------------------------------------------------------------
(* The operators.                                                           *)

LEMMA RunFields ==
  ASSUME NEW x \in Run
  PROVE  /\ x.status \in Statuses
         /\ x.approvalState \in {"pending", "partial", "approved", "rejected"}
         /\ x.approved \in SUBSET Units
         /\ x.unit \in [Units -> UnitStates]
         /\ x.attempt \in [Units -> 0..AttemptBound]
         /\ x.lease \in [Units -> {"none", "live", "expired"}]
         /\ x.outputVersion \in [Units -> 0..AttemptBound]
         /\ x.author \in [Units -> 0..AttemptBound]
         /\ x.overdue \in BOOLEAN
BY DEF Run, Statuses, UnitStates

\* Scheduling moves units between waiting and ready only.
LEMMA ScheduleMoves ==
  ASSUME NEW unit \in [Units -> UnitStates]
  PROVE  /\ Schedule(unit) \in [Units -> UnitStates]
         /\ \A u \in Units :
              IF unit[u] \in {"blocked", "ready"}
              THEN /\ Schedule(unit)[u] \in {"blocked", "ready"}
                   /\ Schedule(unit)[u] = "ready" <=> \A p \in Needs[u] : unit[p] \in Done
              ELSE Schedule(unit)[u] = unit[u]
BY DEF Schedule, UnitStates

\* What scheduling leaves of the invariant.
LEMMA ScheduleKeeps ==
  ASSUME ExecutionAssumption, NEW x, UnitsInv(x), NEW y \in Run,
         y.unit = Schedule(x.unit), y.attempt = x.attempt, y.lease = x.lease,
         y.outputVersion = x.outputVersion, y.author = x.author
  PROVE  UnitsInv(y) /\ Ordered(y)
<1>1. x.unit \in [Units -> UnitStates]
  BY RunFields DEF UnitsInv
<1>2. \A u \in Units :
              IF x.unit[u] \in {"blocked", "ready"}
              THEN /\ y.unit[u] \in {"blocked", "ready"}
                   /\ y.unit[u] = "ready" <=> Prepared(x, u)
              ELSE y.unit[u] = x.unit[u]
  BY <1>1, ScheduleMoves DEF Prepared
<1>3. \A u \in Units : y.unit[u] \in Done <=> x.unit[u] \in Done
  BY <1>2 DEF Done
<1>4. \A u \in Units : Needs[u] \subseteq Units
  BY DEF ExecutionAssumption, NeedsAssumption
<1>5. \A u \in Units : Prepared(y, u) <=> Prepared(x, u)
  BY <1>3, <1>4 DEF Prepared
<1>6. Out(y) /\ Versions(y) /\ Attempts(y)
  BY <1>2 DEF UnitsInv, Out, Versions, Attempts
<1>7. Authored(y)
  BY <1>2, <1>3 DEF UnitsInv, Authored, Done
<1>8. Begun(y)
  BY <1>5 DEF UnitsInv, Begun
<1>9. Ordered(y)
  BY <1>1, <1>2, <1>5 DEF Ordered, UnitsInv, Prepared
<1> QED
  BY <1>6, <1>7, <1>8, <1>9 DEF UnitsInv

\* A refreshed run, which was not at its end.
LEMMA RefreshedKeeps ==
  ASSUME ExecutionAssumption, NEW x, UnitsInv(x),
         x.status \notin {"cancelled", "superseded", "succeeded"}
  PROVE  /\ RunInv(Refreshed(x))
         /\ Refreshed(x).lease = x.lease
         /\ UnitsStay(x, Refreshed(x))
         /\ (\E u \in Units : x.unit[u] = "failed") => Refreshed(x).status = "failed"
<1> DEFINE unit == Schedule(x.unit)
           has(S) == \E u \in Units: unit[u] \in S
           new == IF has({"failed"}) THEN "failed"
             ELSE IF \A u \in Units: unit[u] \in Done THEN "succeeded"
             ELSE IF has({"leased", "running", "awaiting_review"}) THEN "running"
             ELSE IF x.approvalState = "approved" /\ ~Durable THEN "approved"
             ELSE x.status
           status == IF Durable /\ x.status \in {"cancelled", "superseded"} THEN x.status ELSE new
           y == Refreshed(x)
<1>1. x \in Run /\ x.status \in Statuses /\ x.unit \in [Units -> UnitStates]
  BY RunFields DEF UnitsInv
<1>2. unit \in [Units -> UnitStates]
  BY <1>1, ScheduleMoves
<1>3. new \in {"failed", "succeeded", "running", "approved", x.status}
  OBVIOUS
<1>4. status \in Statuses
  BY <1>1, <1>3 DEF Statuses, TerminalRuns
<1>5. y = [x EXCEPT !.unit = unit, !.status = status]
  BY <1>1 DEF Refreshed, Run
<1>6. /\ status = new
      /\ new = "succeeded" => \A u \in Units : unit[u] \in Done
      /\ new \in {"cancelled", "superseded"} => new = x.status
  OBVIOUS
<1>7. (\E u \in Units : x.unit[u] = "failed") => new = "failed"
  BY <1>1, ScheduleMoves
<1> HIDE DEF y, unit, status, new, has
<1>8. /\ y \in Run /\ y.status = status /\ y.unit = unit
      /\ y.attempt = x.attempt /\ y.lease = x.lease
      /\ y.outputVersion = x.outputVersion /\ y.author = x.author
  BY <1>1, <1>2, <1>4, <1>5 DEF Run, Statuses, UnitStates
<1>9. UnitsInv(y) /\ Ordered(y)
  BY <1>8, ScheduleKeeps DEF unit
<1>10. AtRest(y)
  BY <1>6, <1>8 DEF AtRest
<1>11. RunInv(y)
  BY <1>9, <1>10 DEF RunInv
<1>12. (\E u \in Units : x.unit[u] = "failed") => y.status = "failed"
  BY <1>6, <1>7, <1>8
<1>13. UnitsStay(x, y)
  BY <1>1, <1>8, ScheduleMoves DEF UnitsStay, unit, TerminalUnits
<1> QED
  BY <1>8, <1>11, <1>12, <1>13 DEF y

\* A stopped run is at rest.
LEMMA StoppedKeeps ==
  ASSUME ExecutionAssumption, NEW x, RunInv(x), NEW status \in {"cancelled", "superseded"}
  PROVE  /\ RunInv(Stopped(x, status))
         /\ Stopped(x, status) \in Run
         /\ \A u \in Units : Stopped(x, status).lease[u] = "none"
         /\ \A u \in Units : Stopped(x, status).unit[u] \in TerminalUnits
         /\ UnitsStay(x, Stopped(x, status))
<1> DEFINE y == Stopped(x, status)
<1>1. x \in Run /\ x.unit \in [Units -> UnitStates]
  BY RunFields DEF RunInv, UnitsInv
<1>2. /\ y.status = status
      /\ y.unit = [u \in Units |-> IF x.unit[u] \in TerminalUnits THEN x.unit[u] ELSE "cancelled"]
      /\ y.lease = [u \in Units |-> "none"]
      /\ y.attempt = x.attempt /\ y.outputVersion = x.outputVersion /\ y.author = x.author
  BY <1>1 DEF Stopped, Run
<1>3. y \in Run
  BY <1>1 DEF Stopped, Run, TerminalRuns, TerminalUnits
<1> HIDE DEF y
<1>4. \A u \in Units : /\ y.unit[u] = IF x.unit[u] \in TerminalUnits THEN x.unit[u] ELSE "cancelled"
                       /\ y.unit[u] \in TerminalUnits /\ y.lease[u] = "none"
  BY <1>2 DEF TerminalUnits
<1>5. \A u \in Units : y.unit[u] \in Done <=> x.unit[u] \in Done
  BY <1>4 DEF Done, TerminalUnits
<1>6. \A u \in Units : Needs[u] \subseteq Units
  BY DEF ExecutionAssumption, NeedsAssumption
<1>7. Out(y) /\ Versions(y) /\ Attempts(y) /\ Ordered(y)
  BY <1>2, <1>4 DEF RunInv, UnitsInv, Out, Versions, Attempts, Ordered, TerminalUnits
<1>8. Authored(y)
  BY <1>2, <1>4, <1>5 DEF RunInv, UnitsInv, Authored, TerminalUnits
<1>9. Begun(y)
  BY <1>2, <1>5, <1>6 DEF RunInv, UnitsInv, Begun, Prepared
<1>10. AtRest(y)
  BY <1>2, <1>4 DEF AtRest
<1>11. UnitsStay(x, y)
  BY <1>4 DEF UnitsStay
<1> QED
  BY <1>3, <1>4, <1>7, <1>8, <1>9, <1>10, <1>11 DEF RunInv, UnitsInv, y

\* A unit whose lease is given up.
LEMMA GivenUpKeeps ==
  ASSUME ExecutionAssumption, NEW x, RunInv(x), NEW u \in Units, NEW retryable \in BOOLEAN,
         x.lease[u] # "none"
  PROVE  /\ UnitsInv(GivenUp(x, u, retryable))
         /\ GivenUp(x, u, retryable).status = x.status
         /\ \A w \in Units : GivenUp(x, u, retryable).lease[w] \in {"none", x.lease[w]}
         /\ UnitsStay(x, GivenUp(x, u, retryable))
<1> DEFINE y == GivenUp(x, u, retryable)
           next == IF retryable /\ x.attempt[u] < MaxAttempts THEN "ready" ELSE "failed"
<1>1. /\ x \in Run /\ x.unit \in [Units -> UnitStates] /\ x.lease \in [Units -> {"none", "live", "expired"}]
      /\ x.unit[u] \in {"leased", "running"}
  BY RunFields DEF RunInv, UnitsInv, Out
<1>2. /\ y.unit = [x.unit EXCEPT ![u] = next]
      /\ y.lease = [x.lease EXCEPT ![u] = "none"]
      /\ y.attempt = x.attempt /\ y.outputVersion = x.outputVersion /\ y.author = x.author
      /\ y.status = x.status
  BY <1>1 DEF GivenUp, Run
<1>3. y \in Run
  <2>1. next \in UnitStates
    BY DEF UnitStates, TerminalUnits
  <2>2. y = [[x EXCEPT !.unit = [x.unit EXCEPT ![u] = next]] EXCEPT !.lease = [x.lease EXCEPT ![u] = "none"]]
    BY <1>1 DEF GivenUp, Run
  <2> HIDE DEF y, next
  <2> QED
    BY <1>1, <2>1, <2>2 DEF Run, UnitStates
<1> HIDE DEF y
<1>4. \A w \in Units : /\ y.unit[w] = IF w = u THEN next ELSE x.unit[w]
                       /\ y.lease[w] = IF w = u THEN "none" ELSE x.lease[w]
  BY <1>1, <1>2
<1>5. \A w \in Units : y.unit[w] \in Done <=> x.unit[w] \in Done
  BY <1>1, <1>4 DEF Done
<1>6. \A w \in Units : Needs[w] \subseteq Units
  BY DEF ExecutionAssumption, NeedsAssumption
<1>7. Out(y) /\ Versions(y) /\ Attempts(y)
  BY <1>1, <1>2, <1>4 DEF RunInv, UnitsInv, Out, Versions, Attempts
<1>8. Authored(y)
  BY <1>1, <1>2, <1>4, <1>5 DEF RunInv, UnitsInv, Authored, Done
<1>9. Begun(y)
  BY <1>2, <1>5, <1>6 DEF RunInv, UnitsInv, Begun, Prepared
<1>10. UnitsInv(y)
  BY <1>3, <1>7, <1>8, <1>9 DEF UnitsInv
<1>11. \A w \in Units : y.lease[w] \in {"none", x.lease[w]}
  BY <1>4
<1>12. UnitsStay(x, y)
  BY <1>1, <1>4 DEF UnitsStay, TerminalUnits
<1> QED
  BY <1>2, <1>10, <1>11, <1>12 DEF y

-----------------------------------------------------------------------------
(* The steps.                                                               *)

\* One run is replaced by one that satisfies the invariant.
Step(r) ==
  /\ run' \in [Runs -> Run]
  /\ \A s \in Runs : s # r => run'[s] = run[s]
  /\ RunInv(run'[r])
  /\ Stays(run[r], run'[r])

\* No lease is given.
KeepsLeases(r) ==
  \A u \in Units : run'[r].lease[u] = "live" => run[r].lease[u] = "live"

LEMMA Replaced ==
  ASSUME RunsInv, NEW r \in Runs, NEW y, run' = [run EXCEPT ![r] = y], RunInv(y), Stays(run[r], y)
  PROVE  Step(r) /\ run'[r] = y
<1>1. y \in Run
  BY DEF RunInv, UnitsInv
<1> QED
  BY <1>1 DEF RunsInv, Step

\* A run whose units are as they were.
LEMMA SameUnits ==
  ASSUME NEW x, RunInv(x), NEW y \in Run,
         y.unit = x.unit, y.attempt = x.attempt, y.lease = x.lease,
         y.outputVersion = x.outputVersion, y.author = x.author,
         \/ y.status = x.status
         \/ y.status \notin {"cancelled", "superseded", "succeeded"}
  PROVE  RunInv(y) /\ UnitsStay(x, y)
<1>1. UnitsInv(y)
  BY DEF RunInv, UnitsInv, Out, Versions, Authored, Begun, Prepared, Attempts
<1>2. Ordered(y)
  BY DEF RunInv, Ordered, Prepared
<1>3. AtRest(y)
  BY DEF RunInv, AtRest
<1> QED
  BY <1>1, <1>2, <1>3 DEF RunInv, UnitsStay

LEMMA CreateStep ==
  ASSUME RunsInv, NEW r \in Runs, Create(r)
  PROVE  Step(r) /\ KeepsLeases(r)
<1> DEFINE x == run[r]
           y == [x EXCEPT !.status = "awaiting_approval"]
<1>1. run' = [run EXCEPT ![r] = y] /\ x.status = "none" /\ RunInv(x) /\ x \in Run
  BY DEF Create, Exists, RunsInv
<1>2. /\ y \in Run /\ y.status = "awaiting_approval"
      /\ y.unit = x.unit /\ y.attempt = x.attempt /\ y.lease = x.lease
      /\ y.outputVersion = x.outputVersion /\ y.author = x.author
  BY <1>1 DEF Run
<1> HIDE DEF y
<1>3. RunInv(y) /\ Stays(x, y)
  BY <1>1, <1>2, SameUnits DEF Stays, StatusStays, TerminalRuns
<1> QED
  BY <1>1, <1>2, <1>3, Replaced DEF KeepsLeases

LEMMA ApproveStep ==
  ASSUME RunsInv, NEW r \in Runs, NEW units \in SUBSET Units, Approve(r, units)
  PROVE  Step(r) /\ KeepsLeases(r)
<1> DEFINE x == run[r]
           all == x.approved \union units
           state == IF all = Units THEN "approved" ELSE "partial"
           y == [x EXCEPT !.approved = all, !.approvalState = state, !.status = "approved"]
<1>1. /\ run' = [run EXCEPT ![r] = y] /\ RunInv(x) /\ x \in Run
      /\ Durable \/ x.status \notin TerminalRuns
  BY DEF Approve, Terminal, RunsInv
<1>2. all \in SUBSET Units
  BY <1>1, RunFields
<1>3. /\ y \in Run /\ y.status = "approved"
      /\ y.unit = x.unit /\ y.attempt = x.attempt /\ y.lease = x.lease
      /\ y.outputVersion = x.outputVersion /\ y.author = x.author
  BY <1>1, <1>2 DEF Run
<1> HIDE DEF y
<1>4. RunInv(y) /\ Stays(x, y)
  BY <1>1, <1>3, SameUnits DEF Stays, StatusStays, TerminalRuns
<1> QED
  BY <1>1, <1>3, <1>4, Replaced DEF KeepsLeases

LEMMA OverdueSteps ==
  ASSUME RunsInv, NEW r \in Runs, LeaseOverdue(r) \/ BecomeOverdue(r)
  PROVE  Step(r) /\ KeepsLeases(r)
<1> DEFINE x == run[r]
<1>1. RunInv(x) /\ x \in Run
  BY DEF RunsInv
<1>2. CASE LeaseOverdue(r)
  <2> DEFINE y == [x EXCEPT !.status = "failed"]
  <2>1. run' = [run EXCEPT ![r] = y] /\ x.status \in {"approved", "running"}
    BY <1>2 DEF LeaseOverdue, Leasable
  <2>2. /\ y \in Run /\ y.status = "failed"
        /\ y.unit = x.unit /\ y.attempt = x.attempt /\ y.lease = x.lease
        /\ y.outputVersion = x.outputVersion /\ y.author = x.author
    BY <1>1 DEF Run, TerminalRuns
  <2> HIDE DEF y
  <2>3. RunInv(y) /\ Stays(x, y)
    BY <1>1, <2>1, <2>2, SameUnits DEF Stays, StatusStays, TerminalRuns
  <2> QED
    BY <2>1, <2>2, <2>3, Replaced DEF KeepsLeases
<1>3. CASE BecomeOverdue(r)
  <2> DEFINE y == [x EXCEPT !.overdue = TRUE]
  <2>1. run' = [run EXCEPT ![r] = y]
    BY <1>3 DEF BecomeOverdue
  <2>2. /\ y \in Run /\ y.status = x.status
        /\ y.unit = x.unit /\ y.attempt = x.attempt /\ y.lease = x.lease
        /\ y.outputVersion = x.outputVersion /\ y.author = x.author
    BY <1>1 DEF Run
  <2> HIDE DEF y
  <2>3. RunInv(y) /\ Stays(x, y)
    BY <1>1, <2>2, SameUnits DEF Stays, StatusStays
  <2> QED
    BY <2>1, <2>2, <2>3, Replaced DEF KeepsLeases
<1> QED
  BY <1>2, <1>3

LEMMA StopSteps ==
  ASSUME ExecutionAssumption, RunsInv, NEW r \in Runs,
         Reject(r) \/ \E status \in {"cancelled", "superseded"} : Stop(r, status)
  PROVE  Step(r) /\ KeepsLeases(r)
<1> DEFINE x == run[r]
<1>1. RunInv(x) /\ x \in Run
  BY DEF RunsInv
<1>2. CASE Reject(r)
  <2> DEFINE z == Stopped(x, "cancelled")
             y == [z EXCEPT !.approvalState = "rejected"]
  <2>1. /\ run' = [run EXCEPT ![r] = y]
        /\ Durable \/ x.status \notin TerminalRuns
    BY <1>2 DEF Reject, Terminal
  <2>2. RunInv(z) /\ z \in Run /\ UnitsStay(x, z) /\ \A u \in Units : z.lease[u] = "none"
    BY <1>1, StoppedKeeps
  <2>6. z.status = "cancelled"
    BY <1>1 DEF Stopped, Run
  <2> HIDE DEF z
  <2>3. /\ y \in Run /\ y.status = z.status
        /\ y.unit = z.unit /\ y.attempt = z.attempt /\ y.lease = z.lease
        /\ y.outputVersion = z.outputVersion /\ y.author = z.author
    BY <2>2 DEF Run
  <2> HIDE DEF y
  <2>4. RunInv(y) /\ Stays(x, y)
    BY <2>1, <2>2, <2>3, <2>6, SameUnits DEF Stays, StatusStays, UnitsStay
  <2>5. Step(r) /\ run'[r] = y
    BY <2>1, <2>4, Replaced
  <2> QED
    BY <2>2, <2>3, <2>5 DEF KeepsLeases
<1>3. ASSUME NEW status \in {"cancelled", "superseded"}, Stop(r, status)
      PROVE  Step(r) /\ KeepsLeases(r)
  <2> DEFINE y == Stopped(x, status)
  <2>1. /\ run' = [run EXCEPT ![r] = y]
        /\ Durable \/ x.status \notin TerminalRuns
    BY <1>3 DEF Stop, Terminal
  <2>2. RunInv(y) /\ UnitsStay(x, y) /\ \A u \in Units : y.lease[u] = "none"
    BY <1>1, StoppedKeeps
  <2>5. y.status = status
    BY <1>1 DEF Stopped, Run
  <2>3. Stays(x, y)
    BY <2>1, <2>2, <2>5 DEF Stays, StatusStays
  <2> HIDE DEF y
  <2>4. Step(r) /\ run'[r] = y
    BY <2>1, <2>2, <2>3, Replaced
  <2> QED
    BY <2>2, <2>4 DEF KeepsLeases
<1> QED
  BY <1>2, <1>3

LEMMA NeedsTyped == ASSUME ExecutionAssumption, NEW u \in Units PROVE Needs[u] \subseteq Units
BY DEF ExecutionAssumption, NeedsAssumption

\* A lease runs out, or is renewed: the unit stays out with it.
LEMMA LeaseSteps ==
  ASSUME ExecutionAssumption, RunsInv, NEW r \in Runs, NEW u \in Units,
         Expire(r, u) \/ \E claim \in 1..AttemptBound : Heartbeat(r, u, claim)
  PROVE  Step(r) /\ KeepsLeases(r)
<1> DEFINE x == run[r]
           y == run'[r]
<1>1. /\ RunInv(x) /\ x \in Run /\ run \in [Runs -> Run]
      /\ x.unit \in [Units -> UnitStates] /\ x.lease \in [Units -> {"none", "live", "expired"}]
  BY RunFields DEF RunsInv
<1>2. x.lease[u] = "live" /\ x.unit[u] \in {"leased", "running"}
  BY <1>1 DEF Expire, Heartbeat, Fenced, RunInv, UnitsInv, Out
<1>3. /\ run' = [run EXCEPT ![r] = y]
      /\ y \in Run /\ y.status = x.status
      /\ y.attempt = x.attempt /\ y.outputVersion = x.outputVersion /\ y.author = x.author
      /\ \A w \in Units : w # u => y.unit[w] = x.unit[w] /\ y.lease[w] = x.lease[w]
      /\ y.unit[u] \in {"leased", "running"} /\ y.lease[u] \in {"live", "expired"}
  <2>1. CASE Expire(r, u)
    <3> DEFINE z == [x EXCEPT !.lease = [@ EXCEPT ![u] = "expired"]]
    <3>1. run' = [run EXCEPT ![r] = z]
      BY <2>1 DEF Expire
    <3>2. /\ z \in Run /\ z.status = x.status /\ z.unit = x.unit
          /\ z.attempt = x.attempt /\ z.outputVersion = x.outputVersion /\ z.author = x.author
          /\ \A w \in Units : w # u => z.lease[w] = x.lease[w]
          /\ z.lease[u] = "expired"
      BY <1>1 DEF Run
    <3> HIDE DEF z
    <3> QED
      BY <1>1, <1>2, <3>1, <3>2
  <2>2. CASE \E claim \in 1..AttemptBound : Heartbeat(r, u, claim)
    <3> DEFINE z == [x EXCEPT !.unit = [@ EXCEPT ![u] = "running"],
                              !.lease = [@ EXCEPT ![u] = "live"]]
    <3>1. run' = [run EXCEPT ![r] = z]
      BY <2>2 DEF Heartbeat
    <3>2. /\ z \in Run /\ z.status = x.status
          /\ z.attempt = x.attempt /\ z.outputVersion = x.outputVersion /\ z.author = x.author
          /\ \A w \in Units : w # u => z.lease[w] = x.lease[w] /\ z.unit[w] = x.unit[w]
          /\ z.lease[u] = "live" /\ z.unit[u] = "running"
      BY <1>1 DEF Run
    <3> HIDE DEF z
    <3> QED
      BY <1>1, <1>2, <3>1, <3>2
  <2> QED
    BY <2>1, <2>2
<1> HIDE DEF y
<1>4. \A w \in Units : y.unit[w] \in Done <=> x.unit[w] \in Done
  BY <1>2, <1>3 DEF Done
<1>5. Out(y) /\ Versions(y) /\ Attempts(y) /\ Authored(y)
  BY <1>1, <1>2, <1>3, <1>4 DEF RunInv, UnitsInv, Out, Versions, Attempts, Authored, Done
<1>6. \A w \in Units : Prepared(x, w) => Prepared(y, w)
  BY <1>4, NeedsTyped DEF Prepared
<1>7. Begun(y) /\ Ordered(y)
  BY <1>1, <1>2, <1>3, <1>6 DEF RunInv, UnitsInv, Begun, Ordered
<1>8. AtRest(y)
  BY <1>1, <1>2, <1>3, <1>4 DEF RunInv, AtRest, TerminalUnits
<1>9. RunInv(y) /\ Stays(x, y)
  BY <1>2, <1>3, <1>5, <1>7, <1>8
     DEF RunInv, UnitsInv, Stays, StatusStays, UnitsStay, TerminalUnits
<1>10. Step(r)
  BY <1>3, <1>9, Replaced
<1>11. \A w \in Units : y.lease[w] = "live" => x.lease[w] = "live"
  BY <1>2, <1>3
<1> QED
  BY <1>10, <1>11 DEF KeepsLeases, y

LEMMA LeaseNextStep ==
  ASSUME ExecutionAssumption, RunsInv, NEW r \in Runs, NEW u \in Units, LeaseNext(r, u)
  PROVE  /\ Step(r)
         /\ \A w \in Units : w # u /\ run'[r].lease[w] = "live" => run[r].lease[w] = "live"
<1> DEFINE x == run[r]
           unit == IF Durable THEN x.unit ELSE Schedule(x.unit)
<1>1. /\ RunInv(x) /\ x \in Run /\ run \in [Runs -> Run]
      /\ x.unit \in [Units -> UnitStates] /\ x.lease \in [Units -> {"none", "live", "expired"}]
      /\ x.attempt \in [Units -> 0..AttemptBound]
      /\ x.outputVersion \in [Units -> 0..AttemptBound]
      /\ AttemptBound \in Nat
  BY RunFields DEF RunsInv, ExecutionAssumption, AttemptsAssumption
<1>2. /\ unit[u] = "ready" /\ x.status \in {"approved", "running"}
      /\ \/ /\ x.attempt[u] >= MaxAttempts /\ ~Durable
         \/ /\ x.attempt[u] < AttemptBound
            /\ run' = [run EXCEPT
                     ![r].unit = [unit EXCEPT ![u] = "leased"],
                     ![r].attempt[u] = @ + 1,
                     ![r].lease[u] = "live",
                     ![r].status = "running"]
  BY DEF LeaseNext, Leasable
<1>3. /\ unit \in [Units -> UnitStates]
      /\ \A w \in Units :
              IF x.unit[w] \in {"blocked", "ready"}
              THEN /\ unit[w] \in {"blocked", "ready"}
                   /\ unit[w] = "ready" => Prepared(x, w)
              ELSE unit[w] = x.unit[w]
  BY <1>1, ScheduleMoves DEF RunInv, Ordered, Prepared
<1> HIDE DEF unit
<1>4. /\ x.unit[u] \in {"blocked", "ready"} /\ Prepared(x, u) /\ x.lease[u] = "none"
      /\ \A w \in Units : unit[w] \in Done <=> x.unit[w] \in Done
  BY <1>1, <1>2, <1>3 DEF RunInv, UnitsInv, Out, Done, UnitStates, TerminalUnits
<1>5. ~(x.attempt[u] >= MaxAttempts /\ ~Durable)
  <2>1. MaxAttempts \in Nat /\ x.attempt[u] \in Nat
    BY <1>1 DEF ExecutionAssumption, AttemptsAssumption
  <2> QED
    BY <1>1, <1>4, <2>1 DEF RunInv, UnitsInv, Attempts
<1> DEFINE y == [x EXCEPT !.unit = [unit EXCEPT ![u] = "leased"],
                          !.attempt = [x.attempt EXCEPT ![u] = x.attempt[u] + 1],
                          !.lease = [x.lease EXCEPT ![u] = "live"], !.status = "running"]
<1>6. x.attempt[u] < AttemptBound
  BY <1>2, <1>5
<1>7. run' = [run EXCEPT ![r].unit = [unit EXCEPT ![u] = "leased"],
                     ![r].attempt[u] = @ + 1,
                     ![r].lease[u] = "live",
                     ![r].status = "running"]
  BY <1>2, <1>5
<1>8. run' = [run EXCEPT ![r] = y]
  BY <1>7
<1>9. /\ y.status = "running"
      /\ y.unit = [unit EXCEPT ![u] = "leased"]
      /\ y.attempt = [x.attempt EXCEPT ![u] = x.attempt[u] + 1]
      /\ y.lease = [x.lease EXCEPT ![u] = "live"]
      /\ y.outputVersion = x.outputVersion /\ y.author = x.author
      /\ y.approvalState = x.approvalState /\ y.approved = x.approved /\ y.overdue = x.overdue
  BY <1>1 DEF Run
<1>10. /\ y.unit \in [Units -> UnitStates] /\ y.attempt \in [Units -> 0..AttemptBound]
      /\ y.lease \in [Units -> {"none", "live", "expired"}]
  <2>1. "leased" \in UnitStates /\ x.attempt[u] + 1 \in 0..AttemptBound
    BY <1>1, <1>6 DEF UnitStates
  <2> QED
    BY <1>1, <1>3, <1>9, <2>1
<1>11. y \in Run
  BY <1>1, <1>9, <1>10 DEF Run, UnitStates, TerminalRuns
<1> HIDE DEF y
<1>12. \A w \in Units : y.unit[w] \in Done <=> x.unit[w] \in Done
  BY <1>4, <1>9 DEF Done
<1>13. Out(y)
  BY <1>1, <1>3, <1>9 DEF RunInv, UnitsInv, Out
<1>14. Versions(y)
  BY <1>1, <1>3, <1>9 DEF RunInv, UnitsInv, Versions
<1>15. Authored(y)
  BY <1>1, <1>3, <1>9, <1>12 DEF RunInv, UnitsInv, Authored, Done
<1>16. Attempts(y)
  BY <1>1, <1>3, <1>9 DEF RunInv, UnitsInv, Attempts
<1>17. \A w \in Units : Prepared(x, w) => Prepared(y, w)
  BY <1>12, NeedsTyped DEF Prepared
<1>18. Begun(y) /\ Ordered(y)
  BY <1>1, <1>3, <1>4, <1>9, <1>17 DEF RunInv, UnitsInv, Begun, Ordered
<1>19. AtRest(y)
  BY <1>9 DEF AtRest
<1>22. UnitsStay(x, y)
  BY <1>1, <1>3, <1>4, <1>9 DEF UnitsStay, TerminalUnits
<1>20. RunInv(y) /\ Stays(x, y)
  BY <1>2, <1>9, <1>11, <1>13, <1>14, <1>15, <1>16, <1>18, <1>19, <1>22
     DEF RunInv, UnitsInv, Stays, StatusStays, TerminalRuns
<1>21. Step(r) /\ run'[r] = y
  BY <1>8, <1>20, Replaced
<1> QED
  BY <1>1, <1>9, <1>21

\* A step of an agent that has the unit, or of a reviewer: the run has not been
\* stopped and has not succeeded.
LEMMA NotAtRest ==
  ASSUME ExecutionAssumption, NEW x, RunInv(x), NEW u \in Units,
         x.unit[u] \in {"leased", "running", "awaiting_review"}
  PROVE  x.status \notin {"cancelled", "superseded", "succeeded"}
BY DEF RunInv, AtRest, TerminalUnits, Done

\* What an agent's or a reviewer's step makes of a run, before it is refreshed.
Revises(x, u, z) ==
  /\ x.unit[u] \in {"leased", "running", "awaiting_review"}
  /\ UnitsInv(z) /\ z.status = x.status
  /\ \A w \in Units : z.lease[w] \in {"none", x.lease[w]}
  /\ UnitsStay(x, z)

LEMMA RefreshSteps ==
  ASSUME ExecutionAssumption, RunsInv, NEW r \in Runs, NEW u \in Units, NEW z,
         Revises(run[r], u, z), run' = [run EXCEPT ![r] = Refreshed(z)]
  PROVE  Step(r) /\ KeepsLeases(r)
<1> DEFINE x == run[r]
           y == Refreshed(z)
<1>1. /\ RunInv(x) /\ x.unit[u] \in {"leased", "running", "awaiting_review"}
      /\ UnitsInv(z) /\ z.status = x.status
      /\ \A w \in Units : z.lease[w] \in {"none", x.lease[w]}
      /\ UnitsStay(x, z)
  BY DEF RunsInv, Revises
<1>2. x.status \notin {"cancelled", "superseded", "succeeded"}
  BY <1>1, NotAtRest
<1>3. /\ RunInv(y) /\ y.lease = z.lease /\ UnitsStay(z, y)
      /\ (\E w \in Units : z.unit[w] = "failed") => y.status = "failed"
  BY <1>1, <1>2, RefreshedKeeps
<1>7. UnitsStay(x, y)
  BY <1>1, <1>3 DEF UnitsStay
<1>4. Stays(x, y)
  BY <1>1, <1>2, <1>3, <1>7 DEF Stays, StatusStays, UnitsStay, TerminalRuns, TerminalUnits
<1> HIDE DEF y
<1>5. run' = [run EXCEPT ![r] = y]
  BY DEF y
<1>6. Step(r) /\ run'[r] = y
  BY <1>3, <1>4, <1>5, Replaced
<1> QED
  BY <1>1, <1>3, <1>6 DEF KeepsLeases

LEMMA FailSteps ==
  ASSUME ExecutionAssumption, RunsInv, NEW r \in Runs, NEW u \in Units,
         \/ \E claim \in 1..AttemptBound, retryable \in BOOLEAN : FailUnit(r, u, claim, retryable)
         \/ Recover(r, u)
  PROVE  Step(r) /\ KeepsLeases(r)
<1> DEFINE x == run[r]
<1>1. PICK retryable \in BOOLEAN :
        /\ x.lease[u] # "none"
        /\ run' = [run EXCEPT ![r] = Refreshed(GivenUp(x, u, retryable))]
  BY DEF FailUnit, Fenced, Recover
<1>2. RunInv(x) /\ x.unit[u] \in {"leased", "running"}
  BY <1>1 DEF RunsInv, RunInv, UnitsInv, Out
<1> DEFINE z == GivenUp(x, u, retryable)
<1>3. /\ UnitsInv(z)
      /\ z.status = x.status
      /\ \A w \in Units : z.lease[w] \in {"none", x.lease[w]}
      /\ UnitsStay(x, z)
  BY <1>1, <1>2, GivenUpKeeps
<1> HIDE DEF z
<1>4. run' = [run EXCEPT ![r] = Refreshed(z)]
  BY <1>1 DEF z
<1>5. Revises(x, u, z)
  BY <1>2, <1>3 DEF Revises
<1> QED
  BY <1>4, <1>5, RefreshSteps

LEMMA PublishStep ==
  ASSUME ExecutionAssumption, RunsInv, NEW r \in Runs, NEW u \in Units,
         NEW claim \in 1..AttemptBound, PublishOutput(r, u, claim)
  PROVE  Step(r) /\ KeepsLeases(r)
<1> DEFINE x == run[r]
           z == [x EXCEPT !.outputVersion = [x.outputVersion EXCEPT ![u] = x.outputVersion[u] + 1],
                          !.author = [x.author EXCEPT ![u] = claim],
                          !.unit = [x.unit EXCEPT ![u] = "awaiting_review"],
                          !.lease = [x.lease EXCEPT ![u] = "none"]]
<1>1. /\ RunInv(x) /\ x \in Run
      /\ x.unit \in [Units -> UnitStates] /\ x.lease \in [Units -> {"none", "live", "expired"}]
      /\ x.attempt \in [Units -> 0..AttemptBound]
      /\ x.outputVersion \in [Units -> 0..AttemptBound]
      /\ x.author \in [Units -> 0..AttemptBound]
      /\ AttemptBound \in Nat
  BY RunFields DEF RunsInv, ExecutionAssumption, AttemptsAssumption
<1>2. x.lease[u] = "live" /\ claim = x.attempt[u] /\ x.unit[u] \in {"leased", "running"}
  BY <1>1 DEF PublishOutput, Fenced, RunInv, UnitsInv, Out
<1>3. z = [x EXCEPT !.outputVersion[u] = x.outputVersion[u] + 1, !.author[u] = claim,
                    !.unit[u] = "awaiting_review", !.lease[u] = "none"]
  OBVIOUS
<1>4. run' = [run EXCEPT ![r] = Refreshed(z)]
  BY <1>3 DEF PublishOutput
<1>5. /\ z.outputVersion = [x.outputVersion EXCEPT ![u] = x.outputVersion[u] + 1]
      /\ z.author = [x.author EXCEPT ![u] = claim]
      /\ z.unit = [x.unit EXCEPT ![u] = "awaiting_review"]
      /\ z.lease = [x.lease EXCEPT ![u] = "none"]
      /\ z.attempt = x.attempt /\ z.status = x.status
      /\ z.approvalState = x.approvalState /\ z.approved = x.approved /\ z.overdue = x.overdue
  BY <1>1 DEF Run
<1>6. x.outputVersion[u] + 1 \in 0..AttemptBound
  BY <1>1, <1>2 DEF RunInv, UnitsInv, Versions
<1>7. /\ z.outputVersion \in [Units -> 0..AttemptBound] /\ z.author \in [Units -> 0..AttemptBound]
      /\ z.unit \in [Units -> UnitStates] /\ z.lease \in [Units -> {"none", "live", "expired"}]
  <2>1. "awaiting_review" \in UnitStates /\ claim \in 0..AttemptBound
    BY <1>1 DEF UnitStates
  <2> QED
    BY <1>1, <1>5, <1>6, <2>1
<1>8. z \in Run
  BY <1>1, <1>5, <1>7 DEF Run, UnitStates
<1> HIDE DEF z
<1>9. \A w \in Units : z.unit[w] \in Done <=> x.unit[w] \in Done
  BY <1>1, <1>2, <1>5 DEF Done
<1>10. Out(z)
  BY <1>1, <1>2, <1>5 DEF RunInv, UnitsInv, Out
<1>11. Versions(z)
  BY <1>1, <1>2, <1>5, <1>6 DEF RunInv, UnitsInv, Versions
<1>12. Authored(z)
  BY <1>1, <1>2, <1>5, <1>9 DEF RunInv, UnitsInv, Authored, Done
<1>13. Attempts(z)
  BY <1>1, <1>2, <1>5 DEF RunInv, UnitsInv, Attempts
<1>14. Begun(z)
  BY <1>1, <1>5, <1>9, NeedsTyped DEF RunInv, UnitsInv, Begun, Prepared
<1>15. UnitsInv(z)
  BY <1>8, <1>10, <1>11, <1>12, <1>13, <1>14 DEF UnitsInv
<1>16. \A w \in Units : /\ z.lease[w] \in {"none", x.lease[w]}
                        /\ x.unit[w] \in TerminalUnits => z.unit[w] = x.unit[w]
  BY <1>1, <1>2, <1>5 DEF TerminalUnits
<1>17. Revises(x, u, z)
  BY <1>2, <1>5, <1>15, <1>16 DEF Revises, UnitsStay
<1> QED
  BY <1>4, <1>17, RefreshSteps

LEMMA ReviewStep ==
  ASSUME ExecutionAssumption, RunsInv, NEW r \in Runs, NEW u \in Units,
         NEW verdict, NEW version, SubmitReview(r, u, verdict, version)
  PROVE  Step(r) /\ KeepsLeases(r)
<1> DEFINE x == run[r]
           next == IF verdict = "approved" THEN "succeeded"
             ELSE IF verdict = "skipped" THEN "skipped"
             ELSE IF verdict = "changes_requested"
                     /\ (Durable \/ run[r].attempt[u] < MaxAttempts) THEN "ready"
             ELSE "failed"
           z == [x EXCEPT !.unit = [x.unit EXCEPT ![u] = next]]
<1>1. /\ RunInv(x) /\ x \in Run
      /\ x.unit \in [Units -> UnitStates] /\ x.lease \in [Units -> {"none", "live", "expired"}]
  BY RunFields DEF RunsInv
<1>2. x.unit[u] = "awaiting_review" /\ x.lease[u] = "none"
  BY <1>1 DEF SubmitReview, RunInv, UnitsInv, Out
<1>3. run' = [run EXCEPT ![r] = Refreshed(z)]
  BY DEF SubmitReview
<1>4. /\ next \in {"succeeded", "skipped", "ready", "failed"}
      /\ ~Durable /\ next = "ready" => x.attempt[u] < MaxAttempts
  OBVIOUS
<1> HIDE DEF next
<1>5. /\ z.unit = [x.unit EXCEPT ![u] = next]
      /\ z.lease = x.lease /\ z.attempt = x.attempt /\ z.status = x.status
      /\ z.outputVersion = x.outputVersion /\ z.author = x.author
      /\ z.approvalState = x.approvalState /\ z.approved = x.approved /\ z.overdue = x.overdue
  BY <1>1 DEF Run
<1>6. z.unit \in [Units -> UnitStates]
  BY <1>1, <1>4, <1>5 DEF UnitStates, TerminalUnits
<1>7. z \in Run
  BY <1>1, <1>5, <1>6 DEF Run, UnitStates
<1> HIDE DEF z
<1>8. \A w \in Units : x.unit[w] \in Done => z.unit[w] \in Done
  BY <1>1, <1>2, <1>5 DEF Done
<1>9. Out(z) /\ Versions(z)
  BY <1>1, <1>2, <1>4, <1>5 DEF RunInv, UnitsInv, Out, Versions
<1>10. Authored(z)
  BY <1>1, <1>2, <1>4, <1>5 DEF RunInv, UnitsInv, Authored, Done
<1>11. Attempts(z)
  BY <1>1, <1>2, <1>4, <1>5 DEF RunInv, UnitsInv, Attempts, Authored
<1>12. Begun(z)
  BY <1>1, <1>5, <1>8, NeedsTyped DEF RunInv, UnitsInv, Begun, Prepared
<1>13. UnitsInv(z)
  BY <1>7, <1>9, <1>10, <1>11, <1>12 DEF UnitsInv
<1>14. \A w \in Units : /\ z.lease[w] \in {"none", x.lease[w]}
                        /\ x.unit[w] \in TerminalUnits => z.unit[w] = x.unit[w]
  BY <1>1, <1>2, <1>5 DEF TerminalUnits
<1>15. Revises(x, u, z)
  BY <1>2, <1>5, <1>13, <1>14 DEF Revises, UnitsStay
<1> QED
  BY <1>3, <1>15, RefreshSteps

-----------------------------------------------------------------------------
(* All of them.                                                             *)

\* A call counts the leases, or finds no unit.
Counts == (CountLeases \/ LeaseNone) /\ UNCHANGED run

LEMMA NextSteps ==
  ASSUME ExecutionAssumption, RunsInv, Next
  PROVE  \/ Counts
         \/ \E r \in Runs :
              /\ Step(r)
              /\ (KeepsLeases(r) /\ UNCHANGED counted) \/ \E u \in Units : LeaseNext(r, u)
<1>1. CASE CountLeases \/ LeaseNone
  BY <1>1 DEF Counts, CountLeases, LeaseNone
<1>2. CASE \E r \in Runs, u \in Units : LeaseNext(r, u)
  BY <1>2, LeaseNextStep
<1>3. CASE ~(CountLeases \/ LeaseNone) /\ ~\E r \in Runs, u \in Units : LeaseNext(r, u)
  <2>1. PICK r \in Runs :
      \/ Create(r)
      \/ \E units \in SUBSET Units \ {{}}: Approve(r, units)
      \/ Reject(r)
      \/ \E status \in {"cancelled", "superseded"}: Stop(r, status)
      \/ LeaseOverdue(r)
      \/ BecomeOverdue(r)
      \/ \E u \in Units:
           \/ Expire(r, u)
           \/ Recover(r, u)
           \/ \E claim \in 1..AttemptBound:
                \/ Heartbeat(r, u, claim)
                \/ PublishOutput(r, u, claim)
                \/ \E retryable \in BOOLEAN: FailUnit(r, u, claim, retryable)
           \/ \E version \in 0..AttemptBound,
                 verdict \in {"approved", "skipped", "changes_requested", "rejected"}:
                SubmitReview(r, u, verdict, version)
    BY <1>3 DEF Next
  <2>2. UNCHANGED counted
    BY <1>3 DEF Next
  <2>3. CASE Create(r) \/ \E units \in SUBSET Units \ {{}} : Approve(r, units)
    BY <2>2, <2>3, CreateStep, ApproveStep
  <2>4. CASE Reject(r) \/ \E status \in {"cancelled", "superseded"} : Stop(r, status)
    BY <2>2, <2>4, StopSteps
  <2>5. CASE LeaseOverdue(r) \/ BecomeOverdue(r)
    BY <2>2, <2>5, OverdueSteps
  <2>6. ASSUME NEW u \in Units, Expire(r, u) \/ \E claim \in 1..AttemptBound : Heartbeat(r, u, claim)
        PROVE  Step(r) /\ KeepsLeases(r)
    BY <2>6, LeaseSteps
  <2>7. ASSUME NEW u \in Units,
               \/ Recover(r, u)
               \/ \E claim \in 1..AttemptBound : \E retryable \in BOOLEAN : FailUnit(r, u, claim, retryable)
        PROVE  Step(r) /\ KeepsLeases(r)
    BY <2>7, FailSteps
  <2>8. ASSUME NEW u \in Units, NEW claim \in 1..AttemptBound, PublishOutput(r, u, claim)
        PROVE  Step(r) /\ KeepsLeases(r)
    BY <2>8, PublishStep
  <2>9. ASSUME NEW u \in Units, NEW version, NEW verdict, SubmitReview(r, u, verdict, version)
        PROVE  Step(r) /\ KeepsLeases(r)
    BY <2>9, ReviewStep
  <2> QED
    BY <2>1, <2>2, <2>3, <2>4, <2>5, <2>6, <2>7, <2>8, <2>9
<1> QED
  BY <1>1, <1>2, <1>3

LEMMA InitRuns == ASSUME ExecutionAssumption, Init PROVE RunsInv
<1> DEFINE blocked == [u \in Units |-> "blocked"]
<1>1. blocked \in [Units -> UnitStates]
  BY DEF UnitStates
<1>2. /\ NoRun.unit = Schedule(blocked)
      /\ NoRun.unit \in [Units -> UnitStates]
      /\ \A u \in Units : /\ NoRun.unit[u] \in {"blocked", "ready"}
                          /\ NoRun.unit[u] = "ready" <=> \A p \in Needs[u] : blocked[p] \in Done
  BY <1>1, ScheduleMoves DEF NoRun
<1>3. /\ NoRun.status = "none" /\ NoRun.attempt = [u \in Units |-> 0]
      /\ NoRun.lease = [u \in Units |-> "none"]
      /\ NoRun.outputVersion = [u \in Units |-> 0] /\ NoRun.author = [u \in Units |-> 0]
      /\ AttemptBound \in Nat /\ MaxAttempts \in 1..AttemptBound
  BY DEF NoRun, ExecutionAssumption, AttemptsAssumption
<1>4. NoRun \in Run
  <2> DEFINE With(unit) ==
        [status |-> "none", approvalState |-> "pending", approved |-> {},
         unit |-> unit, attempt |-> [u \in Units |-> 0],
         lease |-> [u \in Units |-> "none"], outputVersion |-> [u \in Units |-> 0],
         author |-> [u \in Units |-> 0], overdue |-> FALSE]
  <2>1. ASSUME NEW unit \in [Units -> UnitStates] PROVE With(unit) \in Run
    BY <1>3, <2>1 DEF Run, UnitStates
  <2>2. NoRun = With(NoRun.unit)
    BY DEF NoRun
  <2> HIDE DEF With
  <2> QED
    BY <1>2, <2>1, <2>2
<1>5. \A u \in Units : NoRun.unit[u] = "ready" => Prepared(NoRun, u)
  <2>1. \A u \in Units : Needs[u] \subseteq Units
    BY NeedsTyped
  <2>2. \A p \in Units : blocked[p] \notin Done
    BY DEF Done
  <2> QED
    BY <1>2, <2>1, <2>2 DEF Prepared
<1>6. Out(NoRun) /\ Versions(NoRun) /\ Authored(NoRun) /\ Begun(NoRun) /\ Attempts(NoRun)
  BY <1>2, <1>3 DEF Out, Versions, Authored, Begun, Attempts, Done
<1>7. Ordered(NoRun) /\ AtRest(NoRun)
  BY <1>3, <1>5 DEF Ordered, AtRest
<1> QED
  BY <1>4, <1>6, <1>7 DEF Init, RunsInv, RunInv, UnitsInv

LEMMA RunsStep == ASSUME ExecutionAssumption, RunsInv, [Next]_vars PROVE RunsInv'
<1>1. ASSUME NEW r \in Runs, Step(r) PROVE RunsInv'
  <2>1. ASSUME NEW s \in Runs PROVE RunInv(run'[s])
    <3>1. CASE s = r
      BY <1>1, <3>1 DEF Step
    <3>2. CASE s # r
      <4>1. run'[s] = run[s] /\ RunInv(run[s])
        BY <1>1, <3>2 DEF Step, RunsInv
      <4> QED
        BY <4>1
    <3> QED
      BY <3>1, <3>2
  <2>2. run' \in [Runs -> Run]
    BY <1>1 DEF Step
  <2>3. \A s \in Runs : RunInv(run'[s])
    BY <2>1
  <2> QED
    BY <2>2, <2>3 DEF RunsInv
<1>2. CASE Next
  BY <1>1, <1>2, NextSteps DEF Counts, RunsInv
<1>3. CASE UNCHANGED vars
  BY <1>3 DEF RunsInv, vars
<1> QED
  BY <1>2, <1>3

LEMMA SpecRuns == ASSUME ExecutionAssumption PROVE Spec => []RunsInv
<1>1. Init => RunsInv
  BY InitRuns
<1>2. RunsInv /\ [Next]_vars => RunsInv'
  BY RunsStep
<1> QED
  BY <1>1, <1>2, PTL DEF Spec

\* The leases that are out are counted, and the calls that will lease; in the
\* memory store there is none, and the limit is never exceeded.
CountedInv == counted \in 0..Calls /\ (~Durable => counted = 0)
QuotaInv ==
  /\ CountedInv
  /\ IsFiniteSet(LiveLeases)
  /\ Cardinality(LiveLeases) + counted < MaxLeases + Calls

LEMMA CountedStep == ASSUME ExecutionAssumption, RunsInv, CountedInv, [Next]_vars PROVE CountedInv'
<1>1. counted \in Nat /\ Calls \in Nat
  BY DEF CountedInv, ExecutionAssumption, LeasesAssumption
<1>2. CASE UNCHANGED vars
  BY <1>2 DEF CountedInv, vars
<1>3. CASE Next
  <2>1. CASE Counts
    BY <1>1, <2>1 DEF Counts, CountLeases, LeaseNone, CountedInv
  <2>2. ASSUME NEW r \in Runs, NEW u \in Units, LeaseNext(r, u) PROVE CountedInv'
    <3>1. Counted
      BY <2>2 DEF LeaseNext
    <3> QED
      BY <1>1, <3>1 DEF Counted, CountedInv
  <2>3. CASE UNCHANGED counted
    BY <2>3 DEF CountedInv
  <2> QED
    BY <1>3, <2>1, <2>2, <2>3, NextSteps
<1> QED
  BY <1>2, <1>3

LEMMA QuotaStep ==
  ASSUME ExecutionAssumption, RunsInv, QuotaInv, [Next]_vars
  PROVE  QuotaInv'
<1>1. /\ MaxLeases \in Nat /\ Calls \in Nat \ {0} /\ IsFiniteSet(LiveLeases)
      /\ Cardinality(LiveLeases) \in Nat /\ counted \in Nat
      /\ Cardinality(LiveLeases) + counted < MaxLeases + Calls
  BY FS_CardinalityType DEF ExecutionAssumption, LeasesAssumption, QuotaInv, CountedInv
<1>2. CountedInv' /\ CountedInv
  BY CountedStep DEF QuotaInv
<1>3. CASE UNCHANGED vars
  BY <1>1, <1>2, <1>3 DEF QuotaInv, LiveLeases, vars
<1>4. CASE Counts
  <2>1. LiveLeases' = LiveLeases
    BY <1>4 DEF Counts, LiveLeases
  <2>2. CASE CountLeases
    BY <1>1, <1>2, <2>1, <2>2 DEF CountLeases, QuotaInv, CountedInv
  <2>3. CASE LeaseNone
    BY <1>1, <1>2, <2>1, <2>3 DEF LeaseNone, QuotaInv, CountedInv
  <2> QED
    BY <1>4, <2>2, <2>3 DEF Counts
<1>5. ASSUME NEW r \in Runs, Step(r), KeepsLeases(r), UNCHANGED counted PROVE QuotaInv'
  <2>1. LiveLeases' \subseteq LiveLeases
    BY <1>5 DEF Step, LiveLeases, KeepsLeases
  <2>2. IsFiniteSet(LiveLeases') /\ Cardinality(LiveLeases') <= Cardinality(LiveLeases)
    BY <1>1, <2>1, FS_Subset
  <2>3. Cardinality(LiveLeases') \in Nat
    BY <2>2, FS_CardinalityType
  <2> QED
    BY <1>1, <1>2, <1>5, <2>2, <2>3 DEF QuotaInv
<1>6. ASSUME NEW r \in Runs, NEW u \in Units, LeaseNext(r, u) PROVE QuotaInv'
  <2> DEFINE more == LiveLeases \union {<<r, u>>}
  <2>1. Step(r) /\ \A w \in Units : w # u /\ run'[r].lease[w] = "live" => run[r].lease[w] = "live"
    BY <1>6, LeaseNextStep
  <2>2. \A s \in Runs : s # r => run'[s] = run[s]
    BY <2>1 DEF Step
  <2>3. LiveLeases' \subseteq more
    <3>1. ASSUME NEW l \in LiveLeases' PROVE l \in more
      <4>1. l \in Runs \X Units /\ run'[l[1]].lease[l[2]] = "live" /\ l = <<l[1], l[2]>>
        BY <3>1 DEF LiveLeases
      <4>2. CASE l[1] = r /\ l[2] = u
        BY <4>1, <4>2
      <4>3. CASE ~(l[1] = r /\ l[2] = u)
        <5>1. run[l[1]].lease[l[2]] = "live"
          BY <2>1, <2>2, <4>1, <4>3
        <5> QED
          BY <4>1, <5>1 DEF LiveLeases
      <4> QED
        BY <4>2, <4>3
    <3> QED
      BY <3>1
  <2>4. IsFiniteSet(more) /\ Cardinality(more) \in Nat /\ Cardinality(more) <= Cardinality(LiveLeases) + 1
    <3>1. IsFiniteSet(more)
          /\ (Cardinality(more) = Cardinality(LiveLeases) + 1 \/ Cardinality(more) = Cardinality(LiveLeases))
      BY <1>1, FS_AddElement
    <3> HIDE DEF more
    <3>2. Cardinality(more) \in Nat
      BY <3>1, FS_CardinalityType
    <3> QED
      BY <1>1, <3>1, <3>2
  <2> HIDE DEF more
  <2>5. IsFiniteSet(LiveLeases') /\ Cardinality(LiveLeases') <= Cardinality(more)
    BY <2>3, <2>4, FS_Subset
  <2>6. Cardinality(LiveLeases') \in Nat
    BY <2>5, FS_CardinalityType
  <2>7. \/ counted' = counted - 1
        \/ Cardinality(LiveLeases) < MaxLeases /\ counted' = 0
    BY <1>2, <1>6 DEF LeaseNext, Counted, CountedInv
  <2>8. Cardinality(LiveLeases') + counted' < MaxLeases + Calls
    BY <1>1, <2>4, <2>5, <2>6, <2>7
  <2> QED
    BY <1>2, <2>5, <2>8 DEF QuotaInv
<1> QED
  BY <1>3, <1>4, <1>5, <1>6, NextSteps

LEMMA EndsStep ==
  ASSUME ExecutionAssumption, RunsInv, Next PROVE EndedRunsStay /\ EndedUnitsStay
<1>1. CASE UNCHANGED run
  BY <1>1 DEF EndedRunsStay, EndedUnitsStay
<1>2. ASSUME NEW r \in Runs, Step(r) PROVE EndedRunsStay /\ EndedUnitsStay
  <2>1. ASSUME NEW s \in Runs PROVE Stays(run[s], run'[s])
    <3>1. CASE s = r
      BY <1>2, <3>1 DEF Step
    <3>2. CASE s # r
      <4>1. run'[s] = run[s]
        BY <1>2, <3>2 DEF Step
      <4> QED
        BY <4>1 DEF Stays, UnitsStay, StatusStays
    <3> QED
      BY <3>1, <3>2
  <2> QED
    BY <2>1 DEF Stays, UnitsStay, StatusStays, EndedRunsStay, EndedUnitsStay, Terminal
<1> QED
  BY <1>1, <1>2, NextSteps DEF Counts

-----------------------------------------------------------------------------
(* The theorems.                                                            *)

\* The variables keep their types, with outputs and claims up to the attempts.
THEOREM TypeCorrect == ASSUME ExecutionAssumption PROVE Spec => []TypeOK
<1>1. Init => CountedInv
  BY DEF Init, CountedInv, ExecutionAssumption, LeasesAssumption
<1>2. RunsInv /\ CountedInv /\ [Next]_vars => CountedInv'
  BY CountedStep
<1>3. RunsInv /\ CountedInv => TypeOK
  BY DEF RunsInv, CountedInv, TypeOK
<1> QED
  BY <1>1, <1>2, <1>3, SpecRuns, PTL DEF Spec

\* No agent has been given a unit before all its prerequisites are done, in the
\* memory store and in the procedures, which lease without scheduling anew.
THEOREM NoneBeforeItsTime == ASSUME ExecutionAssumption PROVE Spec => []PrerequisitesFirst
<1>1. RunsInv => PrerequisitesFirst
  BY DEF RunsInv, RunInv, UnitsInv, Begun, Prepared, PrerequisitesFirst
<1> QED
  BY <1>1, SpecRuns, PTL

\* A unit is out with an agent exactly while its lease is there to be recovered.
THEOREM OutWithLease == ASSUME ExecutionAssumption PROVE Spec => []LeasedUnitsHaveLeases
<1>1. RunsInv => LeasedUnitsHaveLeases
  BY DEF RunsInv, RunInv, UnitsInv, Out, LeasedUnitsHaveLeases
<1> QED
  BY <1>1, SpecRuns, PTL

\* The output that is judged is of the last agent that had the unit (fenced).
THEOREM OutputIsTheHolders == ASSUME ExecutionAssumption PROVE Spec => []OutputOfTheHolder
<1>1. RunsInv => OutputOfTheHolder
  BY DEF RunsInv, RunInv, UnitsInv, Authored, OutputOfTheHolder
<1> QED
  BY <1>1, SpecRuns, PTL

\* A unit that waits to be leased has an attempt left; in the procedures it may
\* have none when changes were asked of what its last attempt published.
THEOREM ReadyHasAttempts == ASSUME ExecutionAssumption PROVE Spec => []ReadyUnitsHaveAttempts
<1>1. RunsInv => ReadyUnitsHaveAttempts
  BY DEF RunsInv, RunInv, UnitsInv, Attempts, ReadyUnitsHaveAttempts
<1> QED
  BY <1>1, SpecRuns, PTL

\* The user's agents hold, over all runs, no more leases than the quota, and one
\* more for every call that overlaps another.
THEOREM WithinQuota == ASSUME ExecutionAssumption PROVE Spec => []LeasesWithinQuota
<1>1. Init => QuotaInv
  <2>1. Init => LiveLeases = {}
    BY DEF Init, LiveLeases, NoRun
  <2> QED
    BY <2>1, FS_EmptySet DEF Init, QuotaInv, CountedInv, ExecutionAssumption, LeasesAssumption
<1>2. RunsInv /\ QuotaInv /\ [Next]_vars => QuotaInv'
  BY QuotaStep
<1>3. QuotaInv => LeasesWithinQuota
  BY DEF QuotaInv, LeasesWithinQuota
<1> QED
  BY <1>1, <1>2, <1>3, SpecRuns, PTL DEF Spec

\* An ended unit keeps its status, whoever answers, expires or is recovered late and
\* whatever its run is decided to be; in the memory store an ended run keeps its own,
\* unless it failed for its duration.
THEOREM EndsStay ==
  ASSUME ExecutionAssumption PROVE Spec => [][EndedRunsStay]_vars /\ [][EndedUnitsStay]_vars
<1>1. RunsInv /\ [Next]_vars => [EndedRunsStay]_vars
  BY EndsStep
<1>2. RunsInv /\ [Next]_vars => [EndedUnitsStay]_vars
  BY EndsStep
<1> QED
  BY <1>1, <1>2, SpecRuns, PTL DEF Spec
=============================================================================
