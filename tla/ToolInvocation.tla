--------------------------- MODULE ToolInvocation ---------------------------
(***************************************************************************)
(* The tool invocations of one agent runtime: ToolInvocationService.invoke  *)
(* against its store, with callers that ask for the same invocation, store  *)
(* calls that fail before or after their commit, processes that crash and   *)
(* the recovery of unfinished invocations when the backend starts.          *)
(*                                                                          *)
(* Equal identities have equal ids, so a caller is described by its id.  A  *)
(* handler that has timed out and ignores its signal goes on unseen.        *)
(***************************************************************************)
EXTENDS Naturals, FiniteSets

CONSTANTS
  Invocations,
  Callers,
  None,        \* no invocation
  Retries,     \* quotas.retries
  Parallel,    \* quotas.parallelInvocations
  Faults       \* TRUE: store calls fail and processes crash

RetriesAssumption == Retries \in Nat
FaultsAssumption == Faults \in BOOLEAN

VARIABLES
  record,  \* the store: status and lease of each invocation
  caller

vars == <<record, caller>>

Record ==
  [status: {"none", "running", "succeeded", "failed"}, expired: BOOLEAN, begun: 0..2]

Caller ==
  [at: {"idle", "attempting", "completing", "failing", "answered"},
   of: Invocations \union {None}, retries: 0..Retries,
   answer: {"none", "output", "failure", "refused", "error", "unpublished"}]

TypeOK ==
  /\ record \in [Invocations -> Record]
  /\ caller \in [Callers -> Caller]

Init ==
  /\ record = [i \in Invocations |-> [status |-> "none", expired |-> FALSE, begun |-> 0]]
  /\ caller = [c \in Callers |->
       [at |-> "idle", of |-> None, retries |-> 0, answer |-> "none"]]

Running == {i \in Invocations: record[i].status = "running"}

Answer(c, answer) ==
  caller' = [caller EXCEPT ![c].at = "answered", ![c].answer = answer]
Answered(c, i, answer) ==
  caller' = [caller EXCEPT ![c] =
    [at |-> "answered", of |-> i, retries |-> 0, answer |-> answer]]

\* begin finds the invocation ended: its result is the answer, a failure too.
Replay(c, i) ==
  /\ caller[c].at = "idle"
  /\ record[i].status \in {"succeeded", "failed"}
  /\ Answered(c, i, IF record[i].status = "succeeded" THEN "output" ELSE "failure")
  /\ UNCHANGED record

\* An identical invocation is in progress, or as many others as may run in parallel.
Refuse(c, i) ==
  /\ caller[c].at = "idle"
  /\ record[i].status = "running"
     \/ (record[i].status = "none" /\ Cardinality(Running) >= Parallel)
  /\ Answered(c, i, "refused")
  /\ UNCHANGED record

AcquireAgain(c, i) ==  \* mutant: a failed invocation is begun again
  /\ caller[c].at = "idle"
  /\ record[i].status \in {"none", "failed"} /\ record[i].begun < 2
  /\ Cardinality(Running) < Parallel
  /\ record' = [record EXCEPT ![i] =
       [status |-> "running", expired |-> FALSE, begun |-> @.begun + 1]]
  /\ caller' = [caller EXCEPT ![c].at = "attempting", ![c].of = i]

Acquire(c, i) ==
  /\ caller[c].at = "idle"
  /\ record[i].status = "none"
  /\ Cardinality(Running) < Parallel
  /\ record' = [record EXCEPT ![i].status = "running", ![i].begun = @ + 1]
  /\ \/ caller' = [caller EXCEPT ![c].at = "attempting", ![c].of = i]
     \/ Faults /\ Answered(c, i, "error")   \* the answer of the store is lost

HandlerReturns(c) ==
  /\ caller[c].at = "attempting"
  /\ caller' = [caller EXCEPT ![c].at = "completing"]
  /\ UNCHANGED record

HandlerFailsOnceMore(c, retryable) ==  \* mutant: one retry too many
  /\ caller[c].at = "attempting"
  /\ caller' = IF retryable /\ caller[c].retries <= Retries
               THEN [caller EXCEPT ![c].retries = @ + 1]
               ELSE [caller EXCEPT ![c].at = "failing"]
  /\ UNCHANGED record

\* An error or a timeout: another attempt when it is retryable and one is left.
HandlerFails(c, retryable) ==
  /\ caller[c].at = "attempting"
  /\ caller' = IF retryable /\ caller[c].retries < Retries
               THEN [caller EXCEPT ![c].retries = @ + 1]
               ELSE [caller EXCEPT ![c].at = "failing"]
  /\ UNCHANGED record

EndAnyhow(i, status) ==  \* mutant: the status is not asked for
  record' = [record EXCEPT ![i].status = status, ![i].expired = FALSE]

\* What an end of the invocation writes: only a running one ends.
End(i, status) ==
  /\ record[i].status = "running"
  /\ record' = [record EXCEPT ![i].status = status, ![i].expired = FALSE]

\* The last call of invoke.  `return this.store.complete(...)` stands in the try but is
\* not awaited there: an error of it reaches the caller and no attempt follows.
Finish(c, at, status, answer) ==
  /\ caller[c].at = at
  /\ \/ /\ End(caller[c].of, status)
        /\ Answer(c, answer) \/ (Faults /\ Answer(c, "error"))
     \/ /\ record[caller[c].of].status # "running"
        /\ Answer(c, "error")
        /\ UNCHANGED record
     \/ /\ Faults   \* the call did not reach the store
        /\ Answer(c, IF at = "completing" THEN "unpublished" ELSE "error")
        /\ UNCHANGED record

Complete(c) == Finish(c, "completing", "succeeded", "output")
FailUnstored(c) ==  \* mutant: the failure is answered and not stored
  /\ caller[c].at = "failing"
  /\ Answer(c, "failure")
  /\ UNCHANGED record

Fail(c) == Finish(c, "failing", "failed", "failure")

\* recover, when a backend starts: what has outlived its lease has failed.  The lease is
\* one timeout, whatever attempts are left.
Recover(i) ==
  /\ record[i].expired
  /\ End(i, "failed")
  /\ UNCHANGED caller

Expire(i) ==
  /\ record[i].status = "running" /\ ~record[i].expired
  /\ record' = [record EXCEPT ![i].expired = TRUE]
  /\ UNCHANGED caller

Crash(c) ==
  /\ Faults
  /\ caller[c].at \notin {"idle", "answered"}
  /\ Answer(c, "none")
  /\ UNCHANGED record

Working(c) ==
  \/ HandlerReturns(c)
  \/ \E retryable \in BOOLEAN: HandlerFails(c, retryable)
  \/ Complete(c)
  \/ Fail(c)

Next ==
  \/ \E c \in Callers:
       \/ \E i \in Invocations: Replay(c, i) \/ Refuse(c, i) \/ Acquire(c, i)
       \/ Working(c)
       \/ Crash(c)
  \/ \E i \in Invocations: Recover(i) \/ Expire(i)

Spec == Init /\ [][Next]_vars

\* An invocation under way goes on: handlers end in their timeout.
LiveSpec == Spec /\ \A c \in Callers: WF_vars(Working(c))

(***************************************************************************)
(* Properties                                                              *)
(***************************************************************************)
\* What callers were told of an invocation, first answer or replay, is what the store
\* holds: an output of one that succeeded, a failure of one that failed.  A result that
\* comes after the recovery cannot turn a failure that was told into a success.
AnswersAgree ==
  \A c \in Callers:
    LET told == caller[c].answer
    IN /\ told = "output" => record[caller[c].of].status = "succeeded"
       /\ told = "failure" => record[caller[c].of].status = "failed"

\* The tool runs for one caller of an invocation: the others wait for the outcome, are
\* refused or are answered from it.
BegunOnce == \A i \in Invocations: record[i].begun <= 1

\* Without faults every invocation that was begun comes to an end that is stored.
EveryInvocationEnds ==
  \A i \in Invocations: (record[i].status = "running") ~> (record[i].status # "running")
=============================================================================
