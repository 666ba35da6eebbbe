---------------------------- MODULE WorkerReadiness ----------------------------
(***************************************************************************)
(* The health of one continuous indexing worker: the loop that polls, the  *)
(* heartbeat that runs beside a claimed job, the shutdown, and the row of   *)
(* indexing_workers the API's readiness is read from.  What the jobs do is  *)
(* IndexingJobs; here a poll is idle, ends well, fails or throws.           *)
(*                                                                         *)
(* Time: a time stamp is kept as its age, in ticks; it is stale when older  *)
(* than Stall.                                                             *)
(***************************************************************************)
EXTENDS Naturals

CONSTANTS
  MaxFailures,   \* INDEXING_WORKER_MAX_CONSECUTIVE_DATABASE_FAILURES
  Stall,         \* INDEXING_WORKER_STALL_TIMEOUT_MS
  MaxOutages,    \* bounds: outages of the database and losses of a lease, and
  MaxLate        \* heartbeats that are still out when their job has ended

ReadinessAssumption ==
  MaxFailures \in Nat \ {0} /\ Stall \in Nat \ {0} /\ MaxOutages \in Nat /\ MaxLate \in Nat

VARIABLES
  pc,        \* where the loop is
  mind,      \* what the worker keeps: failures, ready, stopping, the loop's age
  poll,      \* of the current poll: active, job, heartbeatFailed, aborted by, lease lost
  own,       \* the heartbeat of the current job
  late,      \* one of an earlier job, that was out when the job ended
  timer,     \* the shutdown timeout is armed for the current poll
  farewell,  \* the record of the shutdown request is under way
  row,       \* the worker's row
  up,        \* the database answers
  outages, lates

vars == <<pc, mind, poll, own, late, timer, farewell, row, up, outages, lates>>

Old == Stall + 1
Never == Stall + 2
Ages == 0..Never
NoPoll == [active |-> FALSE, job |-> FALSE, failed |-> FALSE, aborted |-> "no", lost |-> FALSE]
Quiet == [at |-> "none", state |-> "running", ready |-> FALSE, failures |-> 0, loop |-> FALSE]

TypeOK ==
  /\ pc \in {"starting", "recovering", "polling", "due", "checked", "claiming",
             "executing", "settling", "sleeping", "stopped"}
  /\ mind \in [failures : 0..MaxFailures, ready : BOOLEAN, stopping : BOOLEAN, age : Ages]
  /\ poll \in [active : BOOLEAN, job : BOOLEAN, failed : BOOLEAN, lost : BOOLEAN,
               aborted : {"no", "own", "late", "shutdown"}]
  /\ \A beat \in {own, late} :
       beat \in [at : {"none", "waiting", "calling", "saying"}, state : {"running", "stopping"},
                 ready : BOOLEAN, failures : 0..MaxFailures, loop : BOOLEAN]
  /\ row \in [state : {"none", "running", "stopping", "stopped"}, ready : BOOLEAN,
              failures : 0..MaxFailures, loop : Ages, poll : Ages]
  /\ {timer, farewell, up} \subseteq BOOLEAN
  /\ outages \in 0..MaxOutages /\ lates \in 0..MaxLate
  /\ own.at # "none" => poll.job

Init ==
  /\ pc = "starting"
  /\ mind = [failures |-> 0, ready |-> FALSE, stopping |-> FALSE, age |-> Never]
  /\ poll = NoPoll /\ own = Quiet /\ late = Quiet
  /\ timer = FALSE /\ farewell = FALSE
  /\ row = [state |-> "none", ready |-> FALSE, failures |-> 0, loop |-> Never, poll |-> Never]
  /\ up = TRUE /\ outages = 0 /\ lates = 0

-----------------------------------------------------------------------------
\* mutant: a success does not make the worker ready again
SuccessUnready(m) == [m EXCEPT !.failures = 0]
\* noteDatabaseSuccess and noteDatabaseFailure; failures are counted to the maximum.
Success(m) == [m EXCEPT !.failures = 0, !.ready = TRUE]
Failure(m, force) ==
  LET counted == IF m.failures < MaxFailures THEN m.failures + 1 ELSE MaxFailures IN
  [m EXCEPT !.failures = counted, !.ready = @ /\ ~force /\ counted < MaxFailures]
Observed(m) == [m EXCEPT !.age = 0]

\* isReady
Ready(m) == m.ready /\ m.age # Old /\ m.failures < MaxFailures /\ ~m.stopping
State(m) == IF m.stopping THEN "stopping" ELSE "running"

\* record_indexing_worker_state: what is said replaces the row, a time stamp
\* that is not given stays.
Put(said, polled) ==
  row' = [row EXCEPT !.state = said.state, !.ready = said.ready, !.failures = said.failures,
                     !.loop = IF said.loop THEN 0 ELSE @, !.poll = IF polled THEN 0 ELSE @]
Said(m, state, loop) ==
  [state |-> state, ready |-> Ready(m), failures |-> m.failures, loop |-> loop]

\* recordHealth, after the worker's own change to m; a record that fails makes
\* it unready and is otherwise forgotten.
Record(m, state, loop, polled) ==
  IF up THEN mind' = m /\ Put(Said(m, state, loop), polled)
  ELSE mind' = Failure(m, TRUE) /\ UNCHANGED row

Loop == <<poll, own, late, timer, lates>>
World == <<farewell, up, outages>>

-----------------------------------------------------------------------------
(***************************************************************************)
(* The loop.                                                               *)
(***************************************************************************)
Start ==
  /\ pc = "starting" /\ pc' = "recovering"
  /\ Record(Observed(mind), "running", TRUE, FALSE)
  /\ UNCHANGED Loop /\ UNCHANGED World

\* recoverStaleJobs, when the worker starts and when it is due before a poll.
Recover ==
  /\ pc \in {"recovering", "due"}
  /\ pc' = IF pc = "due" THEN "checked" ELSE "polling"
  /\ IF up THEN Record(Success(mind), State(mind), TRUE, FALSE)
     ELSE mind' = Failure(Failure(mind, FALSE), TRUE) /\ UNCHANGED row
  /\ UNCHANGED Loop /\ UNCHANGED World

\* mutant: the loop does not look at the shutdown request
PollsAnyway == TRUE
KeepsPolling == ~mind.stopping

\* pollOnce, to its first call.
Poll ==
  /\ pc = "polling" /\ KeepsPolling /\ pc' = "due"
  /\ Record(Observed(mind), "running", TRUE, FALSE)
  /\ UNCHANGED Loop /\ UNCHANGED World

\* mutant: the heartbeat of a poll goes on when the poll is over
OverBeating ==
  poll' = NoPoll /\ timer' = FALSE /\ UNCHANGED <<own, late, lates>>
\* The poll is over: the heartbeat is stopped, unless it is out with a call.
Over ==
  /\ poll' = NoPoll /\ own' = Quiet /\ timer' = FALSE
  /\ IF own.at \in {"calling", "saying"} /\ late.at = "none" /\ lates < MaxLate
     THEN late' = own /\ lates' = lates + 1
     ELSE UNCHANGED <<late, lates>>

\* executeNext is called, with a controller of its own.
Call ==
  /\ pc \in {"due", "checked"} /\ pc' = "claiming"
  /\ poll' = [NoPoll EXCEPT !.active = TRUE]
  /\ UNCHANGED <<mind, own, late, timer, row, lates>> /\ UNCHANGED World

\* It claims a job, whose heartbeat starts, or nothing, or it throws.
Claim ==
  /\ pc = "claiming"
  /\ \/ /\ up /\ pc' = "executing"
        /\ \E job \in BOOLEAN :
             /\ poll' = [poll EXCEPT !.job = job]
             /\ own' = IF job THEN [Quiet EXCEPT !.at = "waiting"] ELSE Quiet
             /\ IF job THEN Record(mind, "running", TRUE, FALSE) ELSE UNCHANGED <<mind, row>>
        /\ UNCHANGED <<timer, late, lates>>
     \/ /\ ~up /\ pc' = "sleeping"
        /\ Record(Failure(mind, FALSE), State(mind), FALSE, FALSE)
        /\ Over
  /\ UNCHANGED World

\* mutant: a poll whose heartbeat failed counts as a success
NotedAnyway(m) == Success(m)
Noted(m) == IF poll.failed THEN m ELSE Success(m)

\* executeNext reports, or throws.
Report ==
  /\ pc = "executing"
  /\ \/ /\ pc' = "settling"
        /\ Record(Noted(mind), State(mind), TRUE, TRUE)
        /\ UNCHANGED Loop
     \/ /\ ~up \/ poll.lost
        /\ pc' = "sleeping"
        /\ Record(Failure(mind, FALSE), State(mind), FALSE, FALSE)
        /\ Over
  /\ UNCHANGED World

\* What follows the report: nothing after an idle poll; the outcome is recorded;
\* a failed dependency of the publication makes the worker unready; the retry
\* may throw.
Settle ==
  /\ pc = "settling" /\ pc' = "sleeping"
  /\ \/ ~poll.job /\ UNCHANGED <<mind, row>>
     \/ poll.job /\ Record(mind, State(mind), FALSE, FALSE)
     \/ poll.job /\ Record(Failure(mind, TRUE), State(mind), FALSE, FALSE)
     \/ poll.job /\ ~up /\ Record(Failure(mind, FALSE), State(mind), FALSE, FALSE)
  /\ Over
  /\ UNCHANGED World

Sleep ==
  /\ pc = "sleeping" /\ pc' = "polling"
  /\ UNCHANGED <<mind, row>> /\ UNCHANGED Loop /\ UNCHANGED World

Finish ==
  /\ pc = "polling" /\ mind.stopping /\ pc' = "stopped"
  /\ Record([mind EXCEPT !.ready = FALSE], "stopped", TRUE, FALSE)
  /\ UNCHANGED Loop /\ UNCHANGED World

-----------------------------------------------------------------------------
(***************************************************************************)
(* The heartbeats.  A late one goes on to change what it shares with the    *)
(* loop: the failed flag and the controller of the poll that is current.    *)
(***************************************************************************)
Beat ==
  /\ own.at = "waiting"
  /\ own' = [own EXCEPT !.at = "calling"]
  /\ UNCHANGED <<pc, mind, poll, late, timer, row, lates>> /\ UNCHANGED World

Aborted(by) == IF poll.active /\ poll.aborted = "no" THEN by ELSE poll.aborted
Saying(m, loop) ==
  [at |-> "saying", state |-> State(m), ready |-> Ready(m), failures |-> m.failures, loop |-> loop]

\* The call of a heartbeat is answered: renewed, or refused or failed.
Renewed == LET m == Observed(Success(mind)) IN <<m, Saying(m, TRUE), poll>>
Refused(by) ==
  LET m == Failure(mind, TRUE)
  IN <<m, Saying(m, FALSE), [poll EXCEPT !.failed = TRUE, !.aborted = Aborted(by)]>>

OwnAnswered ==
  /\ own.at = "calling"
  /\ \E answer \in (IF up /\ ~poll.lost THEN {Renewed} ELSE {Refused("own")}) :
       /\ mind' = answer[1] /\ own' = answer[2] /\ poll' = answer[3]
  /\ UNCHANGED <<pc, late, timer, row, lates>> /\ UNCHANGED World

LateAnswered ==
  /\ late.at = "calling"
  /\ \E answer \in {Renewed, Refused("late")} :
       /\ mind' = answer[1] /\ late' = answer[2] /\ poll' = answer[3]
  /\ UNCHANGED <<pc, own, timer, row, lates>> /\ UNCHANGED World

\* The record of a heartbeat arrives, with what was true when it was sent.
Arrives(beat) ==
  IF up THEN Put(beat, FALSE) /\ UNCHANGED mind
  ELSE mind' = Failure(mind, TRUE) /\ UNCHANGED row

OwnSaid ==
  /\ own.at = "saying" /\ Arrives(own)
  /\ own' = [Quiet EXCEPT !.at = IF own.loop THEN "waiting" ELSE "none"]
  /\ UNCHANGED <<pc, poll, late, timer, lates>> /\ UNCHANGED World

LateSaid ==
  /\ late.at = "saying" /\ Arrives(late)
  /\ late' = Quiet
  /\ UNCHANGED <<pc, poll, own, timer, lates>> /\ UNCHANGED World

-----------------------------------------------------------------------------
(***************************************************************************)
(* Shutdown, time, and what happens to the database and the lease.          *)
(***************************************************************************)
RequestShutdown ==
  /\ ~mind.stopping /\ pc # "stopped"
  /\ mind' = [mind EXCEPT !.stopping = TRUE]
  /\ farewell' = TRUE /\ timer' = poll.active
  /\ UNCHANGED <<pc, poll, own, late, row, up, outages, lates>>

\* The record of the request, which nothing waits for.
Farewell ==
  /\ farewell /\ farewell' = FALSE
  /\ Record(mind, "stopping", FALSE, FALSE)
  /\ UNCHANGED <<pc, up, outages>> /\ UNCHANGED Loop

ShutdownTimeout ==
  /\ timer /\ poll.active /\ timer' = FALSE
  /\ poll' = [poll EXCEPT !.aborted = Aborted("shutdown")]
  /\ UNCHANGED <<pc, mind, own, late, row, lates>> /\ UNCHANGED World

Older(age) == IF age < Old THEN age + 1 ELSE age
Tick ==
  /\ mind' = [mind EXCEPT !.age = Older(@)]
  /\ row' = [row EXCEPT !.loop = Older(@), !.poll = Older(@)]
  /\ <<mind', row'>> # <<mind, row>>
  /\ UNCHANGED pc /\ UNCHANGED Loop /\ UNCHANGED World

LeaseLost ==
  /\ poll.job /\ ~poll.lost /\ outages < MaxOutages
  /\ poll' = [poll EXCEPT !.lost = TRUE] /\ outages' = outages + 1
  /\ UNCHANGED <<pc, mind, own, late, timer, row, farewell, up, lates>>

Outage ==
  /\ up' = ~up
  /\ up => outages < MaxOutages
  /\ outages' = IF up THEN outages + 1 ELSE outages
  /\ UNCHANGED <<pc, mind, row, farewell>> /\ UNCHANGED Loop

LoopStep == Start \/ Recover \/ Poll \/ Call \/ Claim \/ Report \/ Settle \/ Sleep \/ Finish

Next ==
  \/ LoopStep \/ Beat \/ OwnAnswered \/ LateAnswered \/ OwnSaid \/ LateSaid
  \/ RequestShutdown \/ Farewell \/ ShutdownTimeout \/ Tick \/ LeaseLost \/ Outage

Spec == Init /\ [][Next]_vars
\* Every call of the loop ends, by its answer or by its deadline.
LiveSpec == Spec /\ WF_vars(LoopStep)

-----------------------------------------------------------------------------
(***************************************************************************)
(* Properties.                                                             *)
(***************************************************************************)

\* A worker is unready from the moment its job's heartbeat failed to the next
\* poll, although the poll itself goes on to report (where no heartbeat of an
\* earlier job is renewed meanwhile).
FailedBeatUnready == poll.failed /\ lates = 0 => ~mind.ready

\* "A successful poll/claim clears the consecutive failure state and restores
\* readiness": once the database answers for good the worker calls itself ready
\* again and again, unless it is told to stop.
Restored == []<>(mind.ready \/ ~up \/ mind.stopping)

\* A worker that is told to stop does.
Stops == mind.stopping ~> pc = "stopped"
=============================================================================
