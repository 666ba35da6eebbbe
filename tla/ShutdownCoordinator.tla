------------------------ MODULE ShutdownCoordinator ------------------------
(***************************************************************************)
(* How a process stops (runtime/shutdownCoordinator.ts): the cleanup tasks  *)
(* one after the other, a timer that forces the stop when they take too     *)
(* long, and the exit code the first result sets (backendShutdown.ts).      *)
(* run and force are two asynchronous functions that go on beside each      *)
(* other once the timer has fired.  A cleanup task may fail or hang.        *)
(***************************************************************************)
EXTENDS Naturals

CONSTANT TaskCount  \* stopAcceptingRequests and the cleanup tasks

TaskCountAssumption == TaskCount \in Nat \ {0}

VARIABLES
  phase,   \* of the coordinator
  tasks,   \* what has become of each task, in the order they are run
  run,     \* what run does after the tasks
  failed,  \* a task or a flush of run has failed
  force,   \* what force does
  exit     \* the exit code that was applied, and whether the process was ended by it

vars == <<phase, tasks, run, failed, force, exit>>

Tasks == 1..TaskCount

TypeOK ==
  /\ phase \in {"running", "shutting_down", "completed", "forced"}
  /\ tasks \in [Tasks -> {"waiting", "running", "done", "failed"}]
  /\ run \in {"tasks", "first flush", "second flush", "returned"}
  /\ failed \in BOOLEAN
  /\ force \in {"none", "force stop", "flush", "returned"}
  /\ exit \in {"none", "0", "1", "forced 1"}

Init ==
  /\ phase = "running"
  /\ tasks = [t \in Tasks |-> "waiting"]
  /\ run = "tasks"
  /\ failed = FALSE
  /\ force = "none"
  /\ exit = "none"

\* A forced result ends the process.
Alive == exit # "forced 1"

\* Mutant of RequestShutdown: every signal starts run.
RequestShutdownAgain ==
  /\ Alive
  /\ phase \in {"running", "shutting_down"}
  /\ phase' = "shutting_down"
  /\ tasks' = [tasks EXCEPT ![1] = "running"]
  /\ UNCHANGED <<run, failed, force, exit>>

\* The first signal; later ones get the same promise.
RequestShutdown ==
  /\ phase = "running"
  /\ phase' = "shutting_down"
  /\ tasks' = [tasks EXCEPT ![1] = "running"]
  /\ UNCHANGED <<run, failed, force, exit>>

\* Mutant of GoOn: off by one.
GoOnPastLast(t, ended) ==
  /\ tasks' = [u \in Tasks \cup {t + 1} |->
       IF u = t THEN ended ELSE IF u = t + 1 THEN "running" ELSE tasks[u]]
  /\ UNCHANGED <<phase, run>>

\* What run does when task t has ended as it has: it goes on to the next task, or
\* clears the timer and flushes, unless the stop has been forced meanwhile.
GoOn(t, ended) ==
  IF t < TaskCount
  THEN /\ tasks' = [tasks EXCEPT ![t] = ended, ![t + 1] = "running"]
       /\ UNCHANGED <<phase, run>>
  ELSE /\ tasks' = [tasks EXCEPT ![t] = ended]
       /\ IF phase = "shutting_down"
          THEN phase' = "completed" /\ run' = "first flush"
          ELSE phase' = phase /\ run' = "returned"

\* After a task that succeeds run looks whether the stop has been forced.
TaskSucceeds(t) ==
  /\ Alive
  /\ tasks[t] = "running"
  /\ IF phase = "shutting_down" THEN GoOn(t, "done")
     ELSE /\ tasks' = [tasks EXCEPT ![t] = "done"]
          /\ run' = "returned"
          /\ UNCHANGED phase
  /\ UNCHANGED <<failed, force, exit>>

\* Mutant of TaskFails: the failure is logged only.
TaskFailsQuietly(t) ==
  /\ Alive
  /\ tasks[t] = "running"
  /\ GoOn(t, "failed")
  /\ UNCHANGED <<failed, force, exit>>

\* After one that fails it does not.
TaskFails(t) ==
  /\ Alive
  /\ tasks[t] = "running"
  /\ GoOn(t, "failed")
  /\ failed' = TRUE
  /\ UNCHANGED <<force, exit>>

\* A flush of the log, which may fail; the second one is followed by the result.
FlushEnds(succeeds) ==
  /\ Alive
  /\ run \in {"first flush", "second flush"}
  /\ failed' = (failed \/ ~succeeds)
  /\ IF run = "first flush"
     THEN run' = "second flush" /\ UNCHANGED exit
     ELSE run' = "returned" /\ exit' = IF failed' THEN "1" ELSE "0"
  /\ UNCHANGED <<phase, tasks, force>>

\* Mutant of Timeout: it fires after everything was cleaned up, too.
TimeoutLate ==
  /\ phase \in {"shutting_down", "completed"}
  /\ Alive
  /\ phase' = "forced"
  /\ force' = "force stop"
  /\ UNCHANGED <<tasks, run, failed, exit>>

\* The timer, which is set while the shutdown is under way.
Timeout ==
  /\ phase = "shutting_down"
  /\ phase' = "forced"
  /\ force' = "force stop"
  /\ UNCHANGED <<tasks, run, failed, exit>>

\* Mutant of ForceGoesOn: an error of forceStop is not caught.
ForceUncaught ==
  /\ Alive
  /\ force \in {"force stop", "flush"}
  /\ \/ force' = "returned" /\ exit' = IF force = "flush" THEN "forced 1" ELSE "none"
     \/ force = "force stop" /\ force' = "flush" /\ UNCHANGED exit
  /\ UNCHANGED <<phase, tasks, run, failed>>

\* forceStop and the flush of force end or fail; then the process is ended.
ForceGoesOn ==
  /\ Alive
  /\ force \in {"force stop", "flush"}
  /\ IF force = "force stop"
     THEN force' = "flush" /\ UNCHANGED exit
     ELSE force' = "returned" /\ exit' = "forced 1"
  /\ UNCHANGED <<phase, tasks, run, failed>>

\* Only forced results end the process; otherwise nothing is left to do.
Stopped == (exit # "none" \/ force = "returned") /\ UNCHANGED vars

Next ==
  \/ RequestShutdown \/ Timeout \/ ForceGoesOn \/ Stopped
  \/ \E t \in Tasks : TaskSucceeds(t) \/ TaskFails(t)
  \/ \E succeeds \in BOOLEAN : FlushEnds(succeeds)

\* The timer fires and flushes and forceStop end; a task need not.
Spec ==
  /\ Init /\ [][Next]_vars
  /\ WF_vars(Timeout)
  /\ WF_vars(ForceGoesOn)
  /\ WF_vars(\E succeeds \in BOOLEAN : FlushEnds(succeeds))

(***************************************************************************)
(* Properties                                                              *)
(***************************************************************************)

\* A task runs after all before it have ended, and only then: signals that come again
\* and a forced stop do not make two of them overlap.
TasksRunInOrder ==
  \A t, u \in Tasks : t < u /\ tasks[u] # "waiting" => tasks[t] \in {"done", "failed"}

\* The process reports a clean exit only when every task has been done, however the
\* timer races with the last one.
CleanExitIsClean == exit = "0" => \A t \in Tasks : tasks[t] = "done"

\* The exit code is applied once: run and force do not both report a result.
ResultIsFinal == exit # "none" => exit' = exit

\* A process told to stop stops, whatever its tasks do.
ShutdownEnds == phase = "shutting_down" ~> exit # "none"
=============================================================================
