-------------------------- MODULE AutonomousWorkflow --------------------------
(***************************************************************************)
(* One autonomous workflow: a fixed sequence of stages, each carried out by *)
(* a caller that begins the stage in the workflow's row, makes the stage's  *)
(* calls of the other engines, and then saves a checkpoint or a failure.    *)
(* Between beginning and saving the row is not locked: what the caller      *)
(* saves is fenced by the version its beginning has given the workflow, and *)
(* every save by the version that was loaded, so that a save is one step    *)
(* here.  An attempt whose lease has expired is recovered when a backend    *)
(* starts, whether or not its caller is still running.                      *)
(*                                                                          *)
(* The lifecycle is a function of the stage while stages go on; "running"   *)
(* stands for all of those.  Diagnostics and the age limit are left out.    *)
(***************************************************************************)
EXTENDS Naturals, Sequences

CONSTANTS
  Callers,     \* of stages, each at most one at a time
  Payloads,
  StageCount,
  Execution,   \* the stage whose result is approved before the next begins
  Calls,       \* of each stage: how many calls of other engines it makes
  Again,       \* of each stage: how many of the first ones may be repeated
  Retries,     \* retriesPerStage
  Resumes,     \* resumesPerWorkflow
  None

Stages == 1..StageCount

WorkflowAssumption ==
  /\ StageCount \in Nat /\ Execution \in 1..(StageCount - 1)
  /\ Calls \in [Stages -> Nat \ {0}] /\ Again \in [Stages -> Nat]
  /\ Retries \in Nat /\ Resumes \in Nat
  /\ None \notin Payloads /\ None \notin Nat

VARIABLES
  flow,       \* the workflow's row
  expired,    \* the lease of the attempt in flight has run out
  current,    \* the repository is active and at the workflow's revision
  made,       \* per stage: how many of its calls have taken effect
  execution,  \* the run that the execution stage creates
  consent,    \* the approval that the run has recorded
  caller,     \* what each caller is doing
  user        \* what an approval and a cancellation are doing

vars == <<flow, expired, current, made, execution, consent, caller, user>>

Idle == [phase |-> "idle", stage |-> 1, version |-> 0, next |-> 1]
Users == {"approver", "canceller"}

TypeOK ==
  /\ flow \in [version: Nat \ {0},
               life: {"running", "awaiting_approval", "failed", "cancelled", "completed"},
               stage: 0..StageCount,
               tries: [Stages -> Nat],
               attempts: [Stages -> Nat],
               asked: [Stages -> Payloads \union {None}],
               resumes: 0..Resumes,
               inFlight: Nat \union {None},
               done: Seq([result: Nat, attempt: Nat])]
  /\ expired \in BOOLEAN /\ current \in BOOLEAN /\ consent \in BOOLEAN
  /\ made \in [Stages -> Nat]
  /\ execution \in {"none", "pending", "approved", "cancelled"}
  /\ caller \in [Callers -> [phase: {"idle", "calling", "finished", "failing"},
                             stage: Stages, version: Nat, next: Nat]]
  /\ user \in [Users -> [step: {"idle", "asking", "saving"}, version: Nat]]

Init ==
  /\ flow = [version |-> 1, life |-> "running", stage |-> 1,
             tries |-> [s \in Stages |-> 0], attempts |-> [s \in Stages |-> 0],
             asked |-> [s \in Stages |-> None], resumes |-> 0,
             inFlight |-> None, done |-> << >>]
  /\ expired = FALSE /\ current = TRUE /\ consent = FALSE
  /\ made = [s \in Stages |-> 0]
  /\ execution = "none"
  /\ caller = [c \in Callers |-> Idle]
  /\ user = [u \in Users |-> [step |-> "idle", version |-> 0]]

engines == <<made, execution, consent>>

\* A save is refused once the repository has moved on.
Save(changed) ==
  /\ current
  /\ flow' = [changed EXCEPT !.version = flow.version + 1]

-----------------------------------------------------------------------------
(* A stage.                                                                 *)

\* mutant: the request of a retried stage is not compared
ReplayAny(p) == TRUE
\* A retried stage replays its request.
MayReplay(p) == flow.asked[flow.stage] \in {p, None}

\* mutant: a stage is begun while its workflow awaits the approval
BeginnableEarly == flow.life \in {"running", "awaiting_approval"} /\ flow.inFlight = None
Beginnable == flow.life = "running" /\ flow.inFlight = None

\* The answer may be lost: then nobody carries out what has begun.
Begin(c, p) ==
  /\ caller[c].phase = "idle"
  /\ Beginnable /\ MayReplay(p)
  /\ Save([flow EXCEPT !.inFlight = flow.version + 1,
                       !.asked[flow.stage] = p,
                       !.attempts[flow.stage] = @ + 1])
  /\ expired' = FALSE
  /\ \/ caller' = [caller EXCEPT ![c] =
          [phase |-> "calling", stage |-> flow.stage, version |-> flow.version + 1, next |-> 1]]
     \/ UNCHANGED caller
  /\ UNCHANGED <<current, engines, user>>

\* The records of a stage go through its calls once.
Possible(s, i) == i <= Again[s] \/ made[s] = i - 1

TakesEffect(s, i) ==
  /\ made' = IF made[s] < i THEN [made EXCEPT ![s] = i] ELSE made
  /\ execution' = IF s = Execution /\ execution = "none" THEN "pending" ELSE execution

\* A call fails, before or after it has taken effect, or is answered.
Call(c) ==
  LET s == caller[c].stage
      i == caller[c].next
      After(phase) == caller' = [caller EXCEPT ![c].phase = phase, ![c].next = @ + 1]
  IN
  /\ caller[c].phase = "calling"
  /\ \/ Possible(s, i) /\ TakesEffect(s, i)
        /\ After(IF i < Calls[s] THEN "calling" ELSE "finished")
     \/ Possible(s, i) /\ TakesEffect(s, i) /\ After("failing")
     \/ After("failing") /\ UNCHANGED <<made, execution>>
  /\ UNCHANGED <<flow, expired, current, consent, user>>

Stop(c) == caller' = [caller EXCEPT ![c] = Idle]

\* mutant: the version of the attempt is not compared
AnyAttempt(c) == flow.inFlight # None /\ flow.stage = caller[c].stage
\* Nothing has been saved since the attempt began.
Fenced(c) == flow.inFlight # None /\ flow.version = caller[c].version

Checkpoint(c) ==
  LET s == flow.stage IN
  Save([flow EXCEPT
    !.life = IF s = Execution THEN "awaiting_approval"
             ELSE IF s = StageCount THEN "completed" ELSE "running",
    !.stage = IF s = StageCount THEN 0 ELSE s + 1,
    !.inFlight = None,
    !.done = Append(@, [result |-> caller[c].version, attempt |-> flow.inFlight])])

\* A completion that is refused, or whose result is not of the workflow's
\* scope, leaves the stage in flight.
Complete(c) ==
  /\ caller[c].phase = "finished"
  /\ (Fenced(c) /\ Checkpoint(c)) \/ UNCHANGED flow
  /\ Stop(c)
  /\ UNCHANGED <<expired, current, engines, user>>

Exhausted(s) == flow.tries[s] + 1 > Retries
Failed ==
  [flow EXCEPT !.tries[flow.stage] = @ + 1,
               !.life = IF Exhausted(flow.stage) THEN "failed" ELSE @,
               !.inFlight = None]

FailStage(c) ==
  /\ caller[c].phase = "failing"
  /\ (Fenced(c) /\ Save(Failed)) \/ UNCHANGED flow
  /\ Stop(c)
  /\ UNCHANGED <<expired, current, engines, user>>

Crash(c) ==
  /\ caller[c].phase # "idle"
  /\ Stop(c)
  /\ UNCHANGED <<flow, expired, current, engines, user>>

Expire ==
  /\ flow.inFlight # None /\ ~expired
  /\ expired' = TRUE
  /\ UNCHANGED <<flow, current, engines, caller, user>>

\* mutant: a recovered attempt does not count
RecoverFree ==
  /\ flow.inFlight # None /\ expired
  /\ Save([flow EXCEPT !.inFlight = None])
  /\ UNCHANGED <<expired, current, engines, caller, user>>
\* When a backend starts.
Recover ==
  /\ flow.inFlight # None /\ expired
  /\ Save(Failed)
  /\ UNCHANGED <<expired, current, engines, caller, user>>

\* Another revision is published, or restored.
Publish ==
  /\ current' = ~current
  /\ UNCHANGED <<flow, expired, engines, caller, user>>

StageStep ==
  \E c \in Callers:
    (\E p \in Payloads: Begin(c, p)) \/ Call(c) \/ Complete(c) \/ FailStage(c) \/ Crash(c)

-----------------------------------------------------------------------------
(* Approval and cancellation: first of the execution, then of the workflow. *)

Move(u, step) == user' = [user EXCEPT ![u] = [step |-> step, version |-> flow.version]]
Keep(u, step) == user' = [user EXCEPT ![u].step = step]
End(u) == user' = [user EXCEPT ![u] = [step |-> "idle", version |-> 0]]
others == <<expired, current, made, caller>>

AskApproval ==
  /\ user["approver"].step = "idle"
  /\ flow.life = "awaiting_approval"
  /\ Move("approver", "asking")
  /\ UNCHANGED <<flow, execution, consent, others>>

\* One approval is recorded; that of a cancelled run approves it too.
ApproveExecution ==
  /\ user["approver"].step = "asking"
  /\ consent' = TRUE
  /\ execution' = IF consent THEN execution ELSE "approved"
  /\ Keep("approver", "saving")
  /\ UNCHANGED <<flow, others>>

SaveApproval ==
  /\ user["approver"].step = "saving"
  /\ \/ /\ flow.version = user["approver"].version /\ flow.life = "awaiting_approval"
        /\ Save([flow EXCEPT !.life = "running"])
     \/ UNCHANGED flow
  /\ End("approver")
  /\ UNCHANGED <<execution, consent, others>>

AskCancellation ==
  /\ user["canceller"].step = "idle"
  /\ flow.life # "completed"
  /\ Move("canceller", IF Len(flow.done) >= Execution THEN "asking" ELSE "saving")
  /\ UNCHANGED <<flow, execution, consent, others>>

CancelExecution ==
  /\ user["canceller"].step = "asking"
  /\ execution' = "cancelled"
  /\ Keep("canceller", "saving")
  /\ UNCHANGED <<flow, consent, others>>

SaveCancellation ==
  /\ user["canceller"].step = "saving"
  /\ \/ /\ flow.version = user["canceller"].version
        /\ flow.life \notin {"completed", "cancelled"}
        /\ Save([flow EXCEPT !.life = "cancelled", !.stage = 0, !.inFlight = None])
     \/ UNCHANGED flow
  /\ End("canceller")
  /\ UNCHANGED <<execution, consent, others>>

\* The execution's engine or the request fails.
GiveUp(u) ==
  /\ user[u].step # "idle"
  /\ End(u)
  /\ UNCHANGED <<flow, execution, consent, others>>

\* mutant: resumes are not counted
ResumeAlways ==
  /\ flow.life = "failed"
  /\ Save([flow EXCEPT !.life = "running", !.resumes = @ + 1])
  /\ UNCHANGED <<engines, expired, current, caller, user>>
Resume ==
  /\ flow.life = "failed" /\ flow.resumes < Resumes
  /\ Save([flow EXCEPT !.life = "running", !.resumes = @ + 1])
  /\ UNCHANGED <<engines, expired, current, caller, user>>

UserStep ==
  \/ AskApproval \/ ApproveExecution \/ SaveApproval
  \/ AskCancellation \/ CancelExecution \/ SaveCancellation
  \/ (\E u \in Users: GiveUp(u)) \/ Resume

Next == StageStep \/ UserStep \/ Expire \/ Recover \/ Publish
Spec == Init /\ [][Next]_vars

-----------------------------------------------------------------------------
(* A checkpoint holds the result of the attempt that was in flight when it  *)
(* was saved: the answer of an attempt that was recovered or cancelled      *)
(* meanwhile is never taken for that of a later one (completeStage).        *)
ResultsOfTheirAttempt ==
  \A i \in DOMAIN flow.done: flow.done[i].result = flow.done[i].attempt

(* Nothing after the execution stage is begun before the execution's        *)
(* approval has been recorded by the execution engine (approve).            *)
NothingUnapproved ==
  (\E s \in Stages: s > Execution /\ flow.attempts[s] > 0) => consent

(* However often callers crash, answers are lost and attempts overlap, a    *)
(* stage is begun at most once, once more per retry and once more per       *)
(* resume of the workflow (failStage, recover, resume).                     *)
AttemptsBounded ==
  \A s \in Stages: flow.attempts[s] <= 1 + Retries + flow.resumes

(* A workflow that is completed or cancelled stays as it is, its            *)
(* checkpoints are kept and those of the stages up to the current one, and  *)
(* a retried stage repeats the request of its first attempt.                *)
HistoryStands ==
  /\ flow.life \in {"completed", "cancelled"} => UNCHANGED flow
  /\ SubSeq(flow'.done, 1, Len(flow.done)) = flow.done
  /\ flow'.stage # 0 => Len(flow'.done) = flow'.stage - 1
  /\ \A s \in Stages: flow.asked[s] # None => flow'.asked[s] = flow.asked[s]
=============================================================================
