---------------------------- MODULE EnginesProofs ----------------------------
(***************************************************************************)
(* What the run of MCEngines checks of its executions, agents, workflows,  *)
(* collaborations, tool invocations and platform requests, as theorems of  *)
(* the whole specification: for any callers, invocations, runtimes, units, *)
(* participants, stages, quotas, retries, requests, keys and payloads.     *)
(*                                                                         *)
(* An invocation has begun as often as its status says, never or once, and *)
(* its end is final, so that whoever was told an end was told the one that *)
(* is stored.  A request of the platform is carried out on the version that*)
(* it expects, which no longer is the workflow's version afterwards: that, *)
(* and not the key's record, keeps it from being carried out again when the*)
(* record has expired or was never put.  A claim that holds a runtime's    *)
(* lease has published nothing, and asks for the version it will publish   *)
(* while it holds it; so what is published by then is of claims before its *)
(* own, and when it writes that version is its own or there already.  An   *)
(* attempt of a workflow's stage is in flight under the version that it    *)
(* has given the row, so that a caller whose version still is the row's    *)
(* has the attempt that is in flight; and every attempt before it is paid  *)
(* for by a failure of its stage.  A collaboration stays sound (Sound)     *)
(* through every single change of a unit, so through as many as an         *)
(* operation makes, one after the other; an outcome worked out on the      *)
(* stored session is sound too, and whoever saves one that was worked out  *)
(* on an older session is refused.  For the executions the proofs are      *)
(* those of RepositoryExecutionProofs, for the pipeline those of           *)
(* ChangePipelineProofs, and the other parts' steps leave each part as it  *)
(* is.                                                                     *)
(***************************************************************************)
EXTENDS MCEngines, FiniteSetTheorems, SequenceTheorems, WellFoundedInduction, TLAPS

-----------------------------------------------------------------------------
(* Tool invocations.                                                        *)

ToolCallers == Firsts \union {"c"}

\* An invocation begins once and stays begun.
BegunAsItSays ==
  \A i \in Seconds : record[i].begun = IF record[i].status = "none" THEN 0 ELSE 1

\* A caller that works, or was told an end, has an invocation.
CallersHaveOne ==
  \A c \in ToolCallers :
    \/ caller[c].at = "idle" /\ caller[c].answer = "none"
    \/ caller[c].of \in Seconds /\ (caller[c].at = "answered" \/ caller[c].answer = "none")

ToolsInv == Tools!TypeOK /\ BegunAsItSays /\ CallersHaveOne /\ Tools!AnswersAgree

Ended(i) == record[i].status \in {"succeeded", "failed"}

\* What an invocation's row may do in a step.
RowStep(i) ==
  /\ record' \in [Seconds -> Tools!Record]
  /\ \A j \in Seconds : j # i => record'[j] = record[j]
  /\ Ended(i) => record'[i].status = record[i].status
  /\ record'[i].begun = IF record'[i].status = "none" THEN 0 ELSE 1

\* What a caller may do.
CallerStep(c) ==
  /\ caller' \in [ToolCallers -> Tools!Caller]
  /\ \A d \in ToolCallers : d # c => caller'[d] = caller[d]
  /\ \/ caller'[c].at = "idle" /\ caller'[c].answer = "none"
     \/ caller'[c].of \in Seconds /\ (caller'[c].at = "answered" \/ caller'[c].answer = "none")
  /\ caller'[c].answer = "output" => record'[caller'[c].of].status = "succeeded"
  /\ caller'[c].answer = "failure" => record'[caller'[c].of].status = "failed"

LEMMA ToolsKept ==
  ASSUME ToolsInv,
         record' = record \/ \E i \in Seconds : RowStep(i),
         caller' = caller \/ \E c \in ToolCallers : CallerStep(c)
  PROVE  ToolsInv'
<1>1. /\ record' \in [Seconds -> Tools!Record]
      /\ \A i \in Seconds : /\ record'[i].begun = IF record'[i].status = "none" THEN 0 ELSE 1
                            /\ Ended(i) => record'[i].status = record[i].status
  BY DEF ToolsInv, Tools!TypeOK, BegunAsItSays, RowStep
<1>2. \A c \in ToolCallers :
        \/ CallerStep(c)
        \/ caller'[c] = caller[c]
  BY DEF CallerStep
<1>3. caller' \in [ToolCallers -> Tools!Caller]
  BY DEF ToolsInv, Tools!TypeOK, CallerStep, ToolCallers
<1>4. Tools!TypeOK' /\ BegunAsItSays'
  BY <1>1, <1>3 DEF Tools!TypeOK, BegunAsItSays, ToolCallers
<1>5. CallersHaveOne'
  BY <1>2 DEF ToolsInv, CallersHaveOne, CallerStep
<1>6. ASSUME NEW c \in ToolCallers
      PROVE  /\ caller'[c].answer = "output" => record'[caller'[c].of].status = "succeeded"
             /\ caller'[c].answer = "failure" => record'[caller'[c].of].status = "failed"
  <2>1. CASE CallerStep(c)
    BY <2>1 DEF CallerStep
  <2>2. CASE caller'[c] = caller[c]
    <3>1. caller[c].answer \in {"output", "failure"} => caller[c].of \in Seconds
      BY DEF ToolsInv, CallersHaveOne
    <3>2. /\ caller[c].answer = "output" => record[caller[c].of].status = "succeeded"
          /\ caller[c].answer = "failure" => record[caller[c].of].status = "failed"
      BY DEF ToolsInv, Tools!AnswersAgree, ToolCallers
    <3> QED
      BY <1>1, <2>2, <3>1, <3>2 DEF Ended
  <2> QED
    BY <1>2, <2>1, <2>2
<1>7. Tools!AnswersAgree'
  BY <1>6 DEF Tools!AnswersAgree, ToolCallers
<1> QED
  BY <1>4, <1>5, <1>7 DEF ToolsInv

LEMMA ToolsBegin == Tools!Init => ToolsInv
<1> SUFFICES ASSUME Tools!Init PROVE ToolsInv
  OBVIOUS
<1>1. ToolRetries \in Nat
  BY EnginesAssumption DEF Tools!RetriesAssumption
<1>2. Tools!TypeOK
  BY <1>1 DEF Tools!Init, Tools!TypeOK, Tools!Record, Tools!Caller
<1>3. BegunAsItSays
  BY DEF Tools!Init, BegunAsItSays
<1>4. CallersHaveOne /\ Tools!AnswersAgree
  BY DEF Tools!Init, CallersHaveOne, ToolCallers, Tools!AnswersAgree
<1> QED
  BY <1>2, <1>3, <1>4 DEF ToolsInv

\* A caller is answered about an invocation, as its row says.
LEMMA AnsweredSteps ==
  ASSUME ToolsInv, NEW c \in ToolCallers, NEW i \in Seconds, NEW said,
         said \in {"none", "output", "failure", "refused", "error", "unpublished"},
         said = "output" => record'[i].status = "succeeded",
         said = "failure" => record'[i].status = "failed",
         Tools!Answered(c, i, said) \/ (caller[c].of = i /\ Tools!Answer(c, said))
  PROVE  CallerStep(c)
<1>1. caller \in [ToolCallers -> Tools!Caller] /\ ToolRetries \in Nat
  BY EnginesAssumption DEF ToolsInv, Tools!TypeOK, Tools!RetriesAssumption, ToolCallers
<1>2. CASE Tools!Answered(c, i, said)
  BY <1>1, <1>2 DEF Tools!Answered, Tools!Caller, CallerStep
<1>3. CASE caller[c].of = i /\ Tools!Answer(c, said)
  BY <1>1, <1>3 DEF Tools!Answer, Tools!Caller, CallerStep
<1> QED
  BY <1>2, <1>3

LEMMA EndStep ==
  ASSUME ToolsInv, NEW i \in Seconds, NEW status \in {"succeeded", "failed"},
         Tools!End(i, status)
  PROVE  RowStep(i) /\ record'[i].status = status
BY DEF ToolsInv, Tools!TypeOK, BegunAsItSays, Tools!End, Tools!Record, RowStep, Ended

LEMMA FinishStep ==
  ASSUME ToolsInv, NEW c \in ToolCallers,
         NEW at \in {"completing", "failing"},
         NEW status \in {"succeeded", "failed"}, NEW said \in {"output", "failure"},
         said = "output" => status = "succeeded",
         said = "failure" => status = "failed",
         Tools!Finish(c, at, status, said)
  PROVE  ToolsInv'
<1> DEFINE i == caller[c].of
<1>1. i \in Seconds
  BY DEF ToolsInv, CallersHaveOne, Tools!Finish
<1>2. CASE Tools!End(i, status) /\ \E x \in {said, "error"} : Tools!Answer(c, x)
  <2>1. RowStep(i) /\ record'[i].status = status
    BY <1>1, <1>2, EndStep
  <2>2. CallerStep(c)
    BY <1>1, <1>2, <2>1, AnsweredSteps
  <2> QED
    BY <1>1, <2>1, <2>2, ToolsKept
<1>3. CASE record' = record /\ \E x \in {"error", "unpublished"} : Tools!Answer(c, x)
  <2>1. CallerStep(c)
    BY <1>1, <1>3, AnsweredSteps
  <2> QED
    BY <1>3, <2>1, ToolsKept
<1> QED
  BY <1>2, <1>3 DEF Tools!Finish

LEMMA ToolsStep ==
  ASSUME ToolsInv, Tools!Next
  PROVE  ToolsInv'
<1>1. /\ caller \in [ToolCallers -> Tools!Caller] /\ record \in [Seconds -> Tools!Record]
      /\ ToolRetries \in Nat
  BY EnginesAssumption DEF ToolsInv, Tools!TypeOK, Tools!RetriesAssumption, ToolCallers
<1>2. ASSUME NEW c \in ToolCallers, NEW i \in Seconds, Tools!Replay(c, i) PROVE ToolsInv'
  <2>1. CallerStep(c)
    BY <1>2, AnsweredSteps DEF Tools!Replay
  <2> QED
    BY <1>2, <2>1, ToolsKept DEF Tools!Replay
<1>3. ASSUME NEW c \in ToolCallers, NEW i \in Seconds, Tools!Refuse(c, i) PROVE ToolsInv'
  <2>1. CallerStep(c)
    BY <1>3, AnsweredSteps DEF Tools!Refuse
  <2> QED
    BY <1>3, <2>1, ToolsKept DEF Tools!Refuse
<1>4. ASSUME NEW c \in ToolCallers, NEW i \in Seconds, Tools!Acquire(c, i) PROVE ToolsInv'
  <2>1. RowStep(i)
    BY <1>1, <1>4 DEF ToolsInv, BegunAsItSays, Tools!Acquire, Tools!Record, RowStep, Ended
  <2>2. CallerStep(c)
    <3>1. CASE caller' = [caller EXCEPT ![c].at = "attempting", ![c].of = i]
      <4>1. caller[c].answer = "none"
        BY <1>4 DEF ToolsInv, CallersHaveOne, Tools!Acquire
      <4> QED
        BY <1>1, <3>1, <4>1 DEF CallerStep, Tools!Caller
    <3>2. CASE Tools!Answered(c, i, "error")
      BY <3>2, AnsweredSteps
    <3> QED
      BY <1>4, <3>1, <3>2 DEF Tools!Acquire
  <2> QED
    BY <2>1, <2>2, ToolsKept
<1>5. ASSUME NEW c \in ToolCallers, Tools!Working(c) PROVE ToolsInv'
  <2>1. caller[c].at = "attempting" => caller[c].of \in Seconds /\ caller[c].answer = "none"
    BY DEF ToolsInv, CallersHaveOne
  <2>2. CASE Tools!HandlerReturns(c)
    <3>1. CallerStep(c)
      BY <1>1, <2>1, <2>2 DEF CallerStep, Tools!Caller, Tools!HandlerReturns
    <3> QED
      BY <2>2, <3>1, ToolsKept DEF Tools!HandlerReturns
  <2>3. CASE \E retryable \in BOOLEAN : Tools!HandlerFails(c, retryable)
    <3>1. CallerStep(c)
      BY <1>1, <2>1, <2>3 DEF CallerStep, Tools!Caller, Tools!HandlerFails
    <3> QED
      BY <2>3, <3>1, ToolsKept DEF Tools!HandlerFails
  <2>4. CASE Tools!Complete(c)
    BY <2>4, FinishStep DEF Tools!Complete
  <2>5. CASE Tools!Fail(c)
    BY <2>5, FinishStep DEF Tools!Fail
  <2> QED
    BY <1>5, <2>2, <2>3, <2>4, <2>5 DEF Tools!Working
<1>6. ASSUME NEW c \in ToolCallers, Tools!Crash(c) PROVE ToolsInv'
  <2>1. caller[c].of \in Seconds
    BY <1>6 DEF ToolsInv, CallersHaveOne, Tools!Crash
  <2>2. CallerStep(c)
    BY <1>6, <2>1, AnsweredSteps DEF Tools!Crash
  <2> QED
    BY <1>6, <2>2, ToolsKept DEF Tools!Crash
<1>7. ASSUME NEW i \in Seconds, Tools!Recover(i) PROVE ToolsInv'
  BY <1>7, EndStep, ToolsKept DEF Tools!Recover
<1>8. ASSUME NEW i \in Seconds, Tools!Expire(i) PROVE ToolsInv'
  <2>1. RowStep(i)
    BY <1>1, <1>8 DEF ToolsInv, BegunAsItSays, Tools!Expire, Tools!Record, RowStep, Ended
  <2> QED
    BY <1>8, <2>1, ToolsKept DEF Tools!Expire
<1> QED
  BY <1>2, <1>3, <1>4, <1>5, <1>6, <1>7, <1>8 DEF Tools!Next, ToolCallers

-----------------------------------------------------------------------------
(* The platform's requests.                                                 *)

ApiKeys == {ApiKey[r] : r \in ApiRequests}

\* What was carried out was carried out on the version the request expects.
DoneOnExpected ==
  \A r \in ApiRequests :
    /\ result[r] # None => result[r] = ApiExpected[r] + 1 /\ result[r] <= version
    /\ phase[r] = "putting" => result[r] # None
    /\ phase[r] \in {"new", "operating"} => result[r] = None

\* A key's record holds what an operation with its payload has made.
RecordsOfDone ==
  \A k \in ApiKeys :
    keyed[k] # None => keyed[k].response = keyed[k].payload + 1 /\ keyed[k].response <= version

PlatformInv ==
  /\ Platform!TypeOK /\ DoneOnExpected /\ RecordsOfDone
  /\ Platform!CarriedOutOnce /\ Platform!AnsweredWasDone

LEMMA ApiAssumed ==
  /\ ApiExpected \in [ApiRequests -> Nat \ {0}] /\ None \notin Nat
  /\ \A r \in ApiRequests : ApiKey[r] \in ApiKeys
BY EnginesAssumption DEF Platform!IdempotencyAssumption, ApiKeys

LEMMA PlatformBegins == Platform!Init => PlatformInv
<1> SUFFICES ASSUME Platform!Init PROVE PlatformInv
  OBVIOUS
<1>1. Platform!TypeOK
  BY DEF Platform!Init, Platform!TypeOK, Platform!Answers, Platform!Keys
<1>2. DoneOnExpected /\ RecordsOfDone
  BY DEF Platform!Init, DoneOnExpected, RecordsOfDone, Platform!Keys, ApiKeys
<1>3. Platform!CarriedOutOnce /\ Platform!AnsweredWasDone
  BY DEF Platform!Init, Platform!CarriedOutOnce, Platform!AnsweredWasDone
<1> QED
  BY <1>1, <1>2, <1>3 DEF PlatformInv

\* A request is answered, with the record's response or with what it has made.
LEMMA PlatformAnswers ==
  ASSUME PlatformInv, NEW r \in ApiRequests, NEW what, NEW response \in Nat,
         what \in {"success", "conflict", "precondition_failed"},
         what = "success" => response = ApiExpected[r] + 1 /\ response <= version,
         Platform!Answer(r, what, response),
         UNCHANGED <<version, forgotten, result>>,
         keyed' \in [ApiKeys -> {None} \union [payload : Nat, response : Nat]],
         \A k \in ApiKeys : keyed[k] # None => keyed'[k] = keyed[k],
         RecordsOfDone'
  PROVE  PlatformInv'
<1>1. /\ phase' \in [ApiRequests -> {"new", "operating", "putting", "ended"}]
      /\ phase'[r] = "ended"
      /\ \A s \in ApiRequests : s # r => phase'[s] = phase[s]
  BY DEF PlatformInv, Platform!TypeOK, Platform!Answer
<1>2. /\ answer' \in [ApiRequests -> Platform!Answers]
      /\ answer'[r] = [what |-> what, version |-> response]
      /\ \A s \in ApiRequests : s # r => answer'[s] = answer[s]
  BY DEF PlatformInv, Platform!TypeOK, Platform!Answer, Platform!Answers
<1>3. Platform!TypeOK'
  BY <1>1, <1>2 DEF PlatformInv, Platform!TypeOK, Platform!Keys, ApiKeys, Platform!Answers
<1>4. DoneOnExpected'
  BY <1>1 DEF PlatformInv, DoneOnExpected
<1>5. Platform!CarriedOutOnce'
  BY DEF PlatformInv, Platform!CarriedOutOnce, Platform!SameRequest
<1>6. Platform!AnsweredWasDone'
  BY <1>2 DEF PlatformInv, Platform!AnsweredWasDone
<1> QED
  BY <1>3, <1>4, <1>5, <1>6 DEF PlatformInv

LEMMA PlatformRepeats ==
  ASSUME PlatformInv, NEW r \in ApiRequests, keyed[ApiKey[r]] # None, Platform!Repeat(r),
         UNCHANGED <<version, keyed, forgotten, result>>
  PROVE  PlatformInv'
<1>1. /\ keyed[ApiKey[r]] \in [payload : Nat, response : Nat]
      /\ keyed[ApiKey[r]].response = keyed[ApiKey[r]].payload + 1
      /\ keyed[ApiKey[r]].response <= version
  BY ApiAssumed DEF PlatformInv, Platform!TypeOK, Platform!Keys, ApiKeys, RecordsOfDone
<1>2. RecordsOfDone' /\ 0 \in Nat
  BY DEF PlatformInv, RecordsOfDone
<1>3. keyed' \in [ApiKeys -> {None} \union [payload : Nat, response : Nat]]
  BY DEF PlatformInv, Platform!TypeOK, Platform!Keys, ApiKeys
<1>4. CASE keyed[ApiKey[r]].payload = ApiExpected[r]
  BY <1>1, <1>2, <1>3, <1>4, PlatformAnswers DEF Platform!Repeat
<1>5. CASE keyed[ApiKey[r]].payload # ApiExpected[r]
  BY <1>2, <1>3, <1>5, PlatformAnswers DEF Platform!Repeat
<1> QED
  BY <1>4, <1>5

\* A request goes on, or is lost, without an answer.
LEMMA PlatformContinues ==
  ASSUME PlatformInv, NEW r \in ApiRequests, NEW next \in {"operating", "ended"},
         phase[r] \in {"new", "operating", "putting"}, next = "operating" => phase[r] = "new",
         Platform!Continue(r, next), UNCHANGED <<version, keyed, forgotten, result>>
  PROVE  PlatformInv'
<1>1. /\ phase' \in [ApiRequests -> {"new", "operating", "putting", "ended"}]
      /\ phase'[r] = next
      /\ \A s \in ApiRequests : s # r => phase'[s] = phase[s]
      /\ answer' = answer
  BY DEF PlatformInv, Platform!TypeOK, Platform!Continue
<1>2. Platform!TypeOK'
  BY <1>1 DEF PlatformInv, Platform!TypeOK
<1>3. DoneOnExpected'
  BY <1>1 DEF PlatformInv, DoneOnExpected
<1>4. RecordsOfDone' /\ Platform!CarriedOutOnce'
  BY DEF PlatformInv, RecordsOfDone, Platform!CarriedOutOnce, Platform!SameRequest
<1>5. Platform!AnsweredWasDone'
  BY <1>1 DEF PlatformInv, Platform!AnsweredWasDone
<1> QED
  BY <1>2, <1>3, <1>4, <1>5 DEF PlatformInv

LEMMA PlatformOperates ==
  ASSUME PlatformInv, NEW r \in ApiRequests, Platform!Operate(r)
  PROVE  PlatformInv'
<1>1. /\ version \in Nat \ {0} /\ phase[r] = "operating" /\ result[r] = None
      /\ ApiExpected[r] \in Nat
      /\ UNCHANGED <<keyed, forgotten>>
  BY ApiAssumed DEF PlatformInv, Platform!TypeOK, Platform!Operate, DoneOnExpected
<1>2. CASE version = ApiExpected[r]
  <2>1. /\ version' = version + 1 /\ result' = [result EXCEPT ![r] = version + 1]
        /\ phase' = [phase EXCEPT ![r] = "putting"] /\ answer' = answer
    BY <1>2 DEF Platform!Operate, Platform!Continue
  <2>2. /\ result' \in [ApiRequests -> Nat \union {None}]
        /\ result'[r] = ApiExpected[r] + 1 /\ result'[r] # None
        /\ \A s \in ApiRequests : s # r => result'[s] = result[s]
    BY <1>1, <1>2, <2>1, ApiAssumed DEF PlatformInv, Platform!TypeOK
  <2>3. /\ phase' \in [ApiRequests -> {"new", "operating", "putting", "ended"}]
        /\ phase'[r] = "putting"
        /\ \A s \in ApiRequests : s # r => phase'[s] = phase[s]
    BY <2>1 DEF PlatformInv, Platform!TypeOK
  <2>4. Platform!TypeOK'
    BY <1>1, <2>1, <2>2, <2>3 DEF PlatformInv, Platform!TypeOK, Platform!Answers
  <2>5. DoneOnExpected'
    <3>1. ASSUME NEW s \in ApiRequests
          PROVE  /\ result'[s] # None => result'[s] = ApiExpected[s] + 1 /\ result'[s] <= version'
                 /\ phase'[s] = "putting" => result'[s] # None
                 /\ phase'[s] \in {"new", "operating"} => result'[s] = None
      <4>1. CASE s = r
        BY <1>1, <1>2, <2>1, <2>2, <2>3, <4>1
      <4>2. CASE s # r
        BY <1>1, <2>1, <2>2, <2>3, <4>2, ApiAssumed DEF PlatformInv, DoneOnExpected
      <4> QED
        BY <4>1, <4>2
    <3> QED
      BY <3>1 DEF DoneOnExpected
  <2>6. RecordsOfDone'
    <3>1. \A k \in ApiKeys : keyed[k] # None => keyed[k] \in [payload : Nat, response : Nat]
      BY DEF PlatformInv, Platform!TypeOK, Platform!Keys, ApiKeys
    <3> QED
      BY <1>1, <2>1, <3>1 DEF PlatformInv, RecordsOfDone
  <2>7. Platform!CarriedOutOnce'
    <3>1. \A s \in ApiRequests : result[s] # None => ApiExpected[s] # version
      BY <1>1, ApiAssumed DEF PlatformInv, DoneOnExpected
    <3> QED
      BY <1>2, <2>2, <3>1 DEF PlatformInv, Platform!CarriedOutOnce, Platform!SameRequest
  <2>8. Platform!AnsweredWasDone'
    <3>1. \A s \in ApiRequests : answer[s].version \in Nat
      BY DEF PlatformInv, Platform!TypeOK, Platform!Answers
    <3> QED
      BY <1>1, <2>1, <3>1 DEF PlatformInv, Platform!AnsweredWasDone
  <2> QED
    BY <2>4, <2>5, <2>6, <2>7, <2>8 DEF PlatformInv
<1>3. CASE version # ApiExpected[r]
  <2>1. Platform!Answer(r, "precondition_failed", 0) /\ UNCHANGED <<version, keyed, forgotten, result>>
    BY <1>3 DEF Platform!Operate
  <2>2. RecordsOfDone' /\ keyed' \in [ApiKeys -> {None} \union [payload : Nat, response : Nat]]
    BY <2>1 DEF PlatformInv, RecordsOfDone, Platform!TypeOK, Platform!Keys, ApiKeys
  <2> QED
    BY <2>1, <2>2, PlatformAnswers
<1> QED
  BY <1>2, <1>3

LEMMA PlatformPuts ==
  ASSUME PlatformInv, NEW r \in ApiRequests, Platform!Put(r)
  PROVE  PlatformInv'
<1>1. CASE keyed[ApiKey[r]] # None
  BY <1>1, PlatformRepeats DEF Platform!Put
<1>2. CASE keyed[ApiKey[r]] = None
  <2> DEFINE row == [payload |-> ApiExpected[r], response |-> result[r]]
  <2>1. /\ keyed' = [keyed EXCEPT ![ApiKey[r]] = row]
        /\ Platform!Answer(r, "success", result[r])
        /\ UNCHANGED <<version, forgotten, result>>
    BY <1>2 DEF Platform!Put
  <2>2. /\ result[r] \in Nat /\ result[r] = ApiExpected[r] + 1 /\ result[r] <= version
        /\ ApiKey[r] \in ApiKeys
    BY ApiAssumed DEF Platform!Put, PlatformInv, Platform!TypeOK, DoneOnExpected
  <2>3. /\ row \in [payload : Nat, response : Nat]
        /\ row.response = row.payload + 1 /\ row.response <= version
    BY <2>2, ApiAssumed
  <2> HIDE DEF row
  <2>4. /\ keyed' \in [ApiKeys -> {None} \union [payload : Nat, response : Nat]]
        /\ \A k \in ApiKeys : keyed'[k] = IF k = ApiKey[r] THEN row ELSE keyed[k]
    BY <2>1, <2>2, <2>3 DEF PlatformInv, Platform!TypeOK, Platform!Keys, ApiKeys
  <2>5. RecordsOfDone'
    BY <2>1, <2>3, <2>4 DEF PlatformInv, RecordsOfDone
  <2> QED
    BY <1>2, <2>1, <2>2, <2>4, <2>5, PlatformAnswers
<1> QED
  BY <1>1, <1>2

LEMMA PlatformStep ==
  ASSUME PlatformInv, Platform!Next
  PROVE  PlatformInv'
<1>1. ASSUME NEW r \in ApiRequests, Platform!Get(r) PROVE PlatformInv'
  <2>1. CASE keyed[ApiKey[r]] # None /\ ApiKey[r] \notin forgotten
    BY <1>1, <2>1, PlatformRepeats DEF Platform!Get
  <2>2. CASE ~(keyed[ApiKey[r]] # None /\ ApiKey[r] \notin forgotten)
    BY <1>1, <2>2, PlatformContinues DEF Platform!Get
  <2> QED
    BY <2>1, <2>2
<1>2. ASSUME NEW r \in ApiRequests, Platform!Lose(r) PROVE PlatformInv'
  BY <1>2, PlatformContinues DEF Platform!Lose
<1>3. ASSUME NEW k \in ApiKeys, Platform!Expire(k) PROVE PlatformInv'
  <2>1. /\ keyed[k] # None /\ forgotten' = forgotten \union {k}
        /\ UNCHANGED <<version, keyed, phase, result, answer>>
    BY <1>3 DEF Platform!Expire
  <2>2. Platform!TypeOK'
    BY <2>1 DEF PlatformInv, Platform!TypeOK, Platform!Keys, ApiKeys, Platform!Answers
  <2> QED
    BY <2>1, <2>2 DEF PlatformInv, DoneOnExpected, RecordsOfDone, Platform!CarriedOutOnce,
                      Platform!SameRequest, Platform!AnsweredWasDone
<1> QED
  BY <1>1, <1>2, <1>3, PlatformOperates, PlatformPuts DEF Platform!Next, Platform!Keys, ApiKeys

-----------------------------------------------------------------------------
(* Agent runtimes.                                                          *)

LEMMA AgentsAssumed ==
  AgentRetries \in Nat /\ AgentLeases \in Nat /\ AgentAttempts \in Nat /\ None \notin AgentRuntimes
BY EnginesAssumption DEF Agents!AttemptsAssumption, Agents!NoneAssumption

\* What is proved of a runtime's outputs.
Ordered(x) ==
  /\ {o.version : o \in x.outputs} = 1..x.outputVersion
  /\ \A o, p \in x.outputs :
       /\ o.claim <= x.attempt
       /\ o.version = p.version => o = p
       /\ o.version < p.version => o.claim < p.claim

\* While there is a lease its claim has published nothing.
RuntimeOK(x) ==
  /\ x \in Agents!Runtime /\ Ordered(x)
  /\ x.lease # "none" => \A o \in x.outputs : o.claim < x.attempt

\* The row that a later step finds: versions that there were are still of their claims.
RuntimeFollows(x, y) ==
  /\ y \in Agents!Runtime
  /\ x.attempt <= y.attempt /\ x.outputVersion <= y.outputVersion
  /\ \A p \in y.outputs :
       p.version > x.outputVersion \/ \E o \in x.outputs : o.version = p.version /\ o.claim = p.claim
  /\ \A o \in x.outputs : o \in y.outputs \/ [o EXCEPT !.published = FALSE] \in y.outputs
  /\ x.superseded => y.superseded /\ y.attempt = x.attempt

\* A call that is about to publish asked while the lease was its own, so that what was
\* published by then is of claims before its own.
MayPublish(y, x) ==
  /\ y.claim <= x.attempt /\ y.version <= x.outputVersion
  /\ \A o \in x.outputs : o.version <= y.version => o.claim < y.claim

ExecutorOK(y) ==
  /\ y \in Agents!Executor
  /\ y.at \notin {"idle", "counted"} => y.of \in AgentRuntimes /\ y.claim \in 1..AgentAttempts

AgentsInv ==
  /\ runtime \in [AgentRuntimes -> Agents!Runtime] /\ \A r \in AgentRuntimes : RuntimeOK(runtime[r])
  /\ executor \in [Firsts -> Agents!Executor]
  /\ \A e \in Firsts :
       /\ ExecutorOK(executor[e])
       /\ executor[e].at = "publishing" => MayPublish(executor[e], runtime[executor[e].of])
  /\ candidate \in [AgentRuntimes -> {"no", "leased", "overdue"}]

\* What a step may do to the runtimes, and to the executors.
RuntimesStep ==
  /\ runtime' \in [AgentRuntimes -> Agents!Runtime]
  /\ \A r \in AgentRuntimes : RuntimeOK(runtime'[r]) /\ RuntimeFollows(runtime[r], runtime'[r])
ExecutorsStep ==
  /\ executor' \in [Firsts -> Agents!Executor]
  /\ \A e \in Firsts :
       \/ executor'[e] = executor[e]
       \/ /\ ExecutorOK(executor'[e])
          /\ executor'[e].at = "publishing" =>
               UNCHANGED runtime /\ MayPublish(executor'[e], runtime[executor'[e].of])
CandidatesStep == candidate' \in [AgentRuntimes -> {"no", "leased", "overdue"}]

LEMMA RuntimeFields ==
  ASSUME NEW x \in Agents!Runtime
  PROVE  /\ x.attempt \in 0..AgentAttempts /\ x.attempt \in Nat /\ x.outputVersion \in Nat
         /\ x.outputs \in SUBSET Agents!Output
         /\ \A o \in x.outputs : o.version \in Nat /\ o.claim \in Nat /\ o.published \in BOOLEAN
         /\ x.superseded \in BOOLEAN /\ x.overdue \in BOOLEAN
BY AgentsAssumed DEF Agents!Runtime, Agents!Output

\* The same outputs, of the same attempt: all but publishing, leasing and taking back.
LEMMA SameOutputs ==
  ASSUME NEW x, RuntimeOK(x), NEW y \in Agents!Runtime,
         y.outputs = x.outputs, y.outputVersion = x.outputVersion, y.attempt = x.attempt,
         x.superseded => y.superseded, y.lease = "none" \/ x.lease # "none"
  PROVE  RuntimeOK(y) /\ RuntimeFollows(x, y)
<1>1. RuntimeOK(y)
  BY DEF RuntimeOK, Ordered
<1>2. x.attempt \in Nat /\ x.outputVersion \in Nat
  BY RuntimeFields DEF RuntimeOK
<1>3. RuntimeFollows(x, y)
  BY <1>2 DEF RuntimeFollows
<1> QED
  BY <1>1, <1>3

LEMMA FollowsTwice ==
  ASSUME NEW x \in Agents!Runtime, NEW y, NEW z, RuntimeFollows(x, y), RuntimeFollows(y, z)
  PROVE  RuntimeFollows(x, z)
<1>1. /\ x.attempt \in Nat /\ y.attempt \in Nat /\ z.attempt \in Nat
      /\ x.outputVersion \in Nat /\ y.outputVersion \in Nat /\ z.outputVersion \in Nat
      /\ y \in Agents!Runtime /\ z \in Agents!Runtime
      /\ \A p \in z.outputs : p.version \in Nat
  BY RuntimeFields DEF RuntimeFollows
<1>2. ASSUME NEW p \in z.outputs
      PROVE  p.version > x.outputVersion \/ \E o \in x.outputs : o.version = p.version /\ o.claim = p.claim
  BY <1>1, <1>2 DEF RuntimeFollows
<1>3. ASSUME NEW o \in x.outputs
      PROVE  o \in z.outputs \/ [o EXCEPT !.published = FALSE] \in z.outputs
  <2> DEFINE back == [o EXCEPT !.published = FALSE]
  <2>1. o \in y.outputs \/ back \in y.outputs
    BY <1>3 DEF RuntimeFollows
  <2>2. [back EXCEPT !.published = FALSE] = back
    BY <1>3, RuntimeFields DEF Agents!Output
  <2> HIDE DEF back
  <2>3. back \in y.outputs => back \in z.outputs
    BY <2>2 DEF RuntimeFollows
  <2>4. o \in y.outputs => o \in z.outputs \/ back \in z.outputs
    BY DEF RuntimeFollows, back
  <2> QED
    BY <2>1, <2>3, <2>4 DEF back
<1> QED
  BY <1>1, <1>2, <1>3 DEF RuntimeFollows

\* Outputs are taken back.
LEMMA OrphanedOK ==
  ASSUME NEW x, RuntimeOK(x), NEW seen \in Nat
  PROVE  /\ RuntimeOK(Agents!Orphaned(x, seen)) /\ RuntimeFollows(x, Agents!Orphaned(x, seen))
         /\ Agents!Orphaned(x, seen).superseded = x.superseded
<1> DEFINE kept(o) == [o EXCEPT !.published = @ /\ o.version > seen]
           y == Agents!Orphaned(x, seen)
<1>1. /\ x \in Agents!Runtime /\ x.outputs \in SUBSET Agents!Output /\ x.attempt \in Nat
      /\ x.outputVersion \in Nat
      /\ \A o \in x.outputs : o.version \in Nat /\ o.claim \in Nat /\ o.published \in BOOLEAN
  BY RuntimeFields DEF RuntimeOK
<1>2. /\ y.outputs = {kept(o) : o \in x.outputs}
      /\ y.outputVersion = x.outputVersion /\ y.attempt = x.attempt /\ y.lease = x.lease
      /\ y.superseded = x.superseded /\ y.status = x.status /\ y.overdue = x.overdue
  BY <1>1 DEF Agents!Orphaned, Agents!Runtime
<1>3. \A o \in x.outputs :
        /\ kept(o).version = o.version /\ kept(o).claim = o.claim
        /\ kept(o) \in Agents!Output
        /\ kept(o) = o \/ kept(o) = [o EXCEPT !.published = FALSE]
  <2> SUFFICES ASSUME NEW o \in x.outputs
               PROVE  /\ kept(o).version = o.version /\ kept(o).claim = o.claim
                      /\ kept(o) \in Agents!Output
                      /\ kept(o) = o \/ kept(o) = [o EXCEPT !.published = FALSE]
    OBVIOUS
  <2>1. o \in Agents!Output
    BY <1>1
  <2>2. /\ kept(o).version = o.version /\ kept(o).claim = o.claim /\ kept(o) \in Agents!Output
    BY <2>1 DEF Agents!Output
  <2>3. CASE o.published /\ o.version > seen
    BY <2>1, <2>3 DEF Agents!Output
  <2>4. CASE ~(o.published /\ o.version > seen)
    BY <2>1, <2>4 DEF Agents!Output
  <2> QED
    BY <2>2, <2>3, <2>4
<1>4. y \in Agents!Runtime
  <2> DEFINE all == {kept(o) : o \in x.outputs}
  <2>1. all \in SUBSET Agents!Output
    BY <1>3
  <2>2. y = [x EXCEPT !.outputs = all]
    BY DEF Agents!Orphaned
  <2> HIDE DEF all, y
  <2> QED
    BY <1>1, <2>1, <2>2 DEF Agents!Runtime
<1> HIDE DEF y, kept
<1>5. /\ \A p \in y.outputs : \E o \in x.outputs : p = kept(o)
      /\ \A o \in x.outputs : kept(o) \in y.outputs
  BY <1>2
<1>6. {p.version : p \in y.outputs} = {o.version : o \in x.outputs}
  BY <1>3, <1>5
<1>7. Ordered(y)
  <2>1. ASSUME NEW p \in y.outputs, NEW q \in y.outputs
        PROVE  /\ p.claim <= y.attempt
               /\ p.version = q.version => p = q
               /\ p.version < q.version => p.claim < q.claim
    <3>1. PICK o \in x.outputs : p = kept(o)
      BY <1>5
    <3>2. PICK n \in x.outputs : q = kept(n)
      BY <1>5
    <3> QED
      BY <1>2, <1>3, <3>1, <3>2 DEF RuntimeOK, Ordered
  <2> QED
    BY <1>2, <1>6, <2>1 DEF RuntimeOK, Ordered
<1>8. y.lease # "none" => \A p \in y.outputs : p.claim < y.attempt
  BY <1>2, <1>3, <1>5 DEF RuntimeOK
<1>9. RuntimeFollows(x, y)
  <2>1. \A p \in y.outputs : \E o \in x.outputs : o.version = p.version /\ o.claim = p.claim
    BY <1>3, <1>5
  <2>2. \A o \in x.outputs : o \in y.outputs \/ [o EXCEPT !.published = FALSE] \in y.outputs
    BY <1>3, <1>5
  <2> QED
    BY <1>1, <1>2, <1>4, <2>1, <2>2 DEF RuntimeFollows
<1> QED
  BY <1>2, <1>4, <1>7, <1>8, <1>9 DEF RuntimeOK, y

\* The next output is a later claim's than those there are.
LEMMA PublishedOK ==
  ASSUME NEW x, RuntimeOK(x), NEW y, ExecutorOK(y), y.at = "publishing", MayPublish(y, x),
         \A o \in x.outputs : o.version # y.version + 1
  PROVE  /\ RuntimeOK(Agents!Published(x, y.claim, y.version + 1))
         /\ RuntimeFollows(x, Agents!Published(x, y.claim, y.version + 1))
<1> DEFINE next == y.version + 1
           new == [version |-> next, claim |-> y.claim, published |-> TRUE]
           z == Agents!Published(x, y.claim, next)
<1>1. /\ x \in Agents!Runtime /\ x.outputs \in SUBSET Agents!Output /\ x.attempt \in Nat
      /\ x.outputVersion \in Nat
      /\ \A o \in x.outputs : o.version \in Nat /\ o.claim \in Nat /\ o.published \in BOOLEAN
      /\ y.claim \in 1..AgentAttempts /\ y.claim \in Nat /\ y.version \in Nat
  BY RuntimeFields, AgentsAssumed DEF RuntimeOK, ExecutorOK, Agents!Executor
<1>2. y.version = x.outputVersion
  <2>1. y.version <= x.outputVersion
    BY DEF MayPublish
  <2>2. CASE y.version < x.outputVersion
    <3>1. next \in 1..x.outputVersion
      BY <1>1, <2>2
    <3>2. \E o \in x.outputs : o.version = next
      BY <3>1 DEF RuntimeOK, Ordered
    <3> QED
      BY <3>2
  <2> QED
    BY <1>1, <2>1, <2>2
<1>3. /\ \A o \in x.outputs : o.version \in 1..x.outputVersion
      /\ \A o \in x.outputs : o.claim < y.claim
  <2>1. \A o \in x.outputs : o.version \in 1..x.outputVersion
    BY DEF RuntimeOK, Ordered
  <2> QED
    BY <1>1, <1>2, <2>1 DEF MayPublish
<1>4. new \in Agents!Output /\ new.version = next /\ new.claim = y.claim
  BY <1>1 DEF Agents!Output
<1>5. /\ z.outputs = x.outputs \union {new}
      /\ z.outputVersion = next /\ z.attempt = x.attempt /\ z.superseded = x.superseded
      /\ z.lease = IF x.attempt = y.claim THEN "none" ELSE x.lease
  BY <1>1 DEF Agents!Published, Agents!Runtime
<1>6. z \in Agents!Runtime
  <2> DEFINE all == x.outputs \union {new}
             lease == IF x.attempt = y.claim THEN "none" ELSE x.lease
  <2>3. all \in SUBSET Agents!Output
    <3> HIDE DEF new
    <3> QED
      BY <1>1, <1>4
  <2>4. next \in Nat
    BY <1>1
  <2>5. lease \in {"none", "live", "expired"}
    BY <1>1 DEF Agents!Runtime
  <2>1. all \in SUBSET Agents!Output /\ next \in Nat /\ lease \in {"none", "live", "expired"}
    BY <2>3, <2>4, <2>5
  <2>2. z = [x EXCEPT !.outputs = all, !.outputVersion = next, !.status = "completed", !.lease = lease]
    BY DEF Agents!Published
  <2> HIDE DEF all, lease, next, z
  <2> QED
    BY <1>1, <2>1, <2>2 DEF Agents!Runtime, Agents!Ended
<1> HIDE DEF z, new
<1>7. {o.version : o \in z.outputs} = 1..next
  <2>1. {o.version : o \in z.outputs} = {o.version : o \in x.outputs} \union {next}
    BY <1>4, <1>5
  <2>2. {o.version : o \in x.outputs} = 1..x.outputVersion
    BY DEF RuntimeOK, Ordered
  <2>3. 1..next = (1..x.outputVersion) \union {next}
    BY <1>1, <1>2
  <2> QED
    BY <2>1, <2>2, <2>3
<1>8. y.claim <= x.attempt
  BY DEF MayPublish
<1>9. Ordered(z)
  <2>1. ASSUME NEW o \in z.outputs, NEW p \in z.outputs
        PROVE  /\ o.claim <= z.attempt
               /\ o.version = p.version => o = p
               /\ o.version < p.version => o.claim < p.claim
    <3>1. CASE o \in x.outputs /\ p \in x.outputs
      BY <1>5, <3>1 DEF RuntimeOK, Ordered
    <3>2. CASE o \in x.outputs /\ p = new
      BY <1>1, <1>2, <1>3, <1>4, <1>5, <1>8, <3>2
    <3>3. CASE o = new /\ p \in x.outputs
      BY <1>1, <1>2, <1>3, <1>4, <1>5, <1>8, <3>3
    <3>4. CASE o = new /\ p = new
      BY <1>1, <1>4, <1>5, <1>8, <3>4
    <3> QED
      BY <1>5, <3>1, <3>2, <3>3, <3>4
  <2> QED
    BY <1>5, <1>7, <2>1 DEF Ordered
<1>10. z.lease # "none" => \A o \in z.outputs : o.claim < z.attempt
  BY <1>1, <1>3, <1>4, <1>5, <1>8
<1>11. RuntimeFollows(x, z)
  <2>1. \A p \in z.outputs :
          p.version > x.outputVersion \/ \E o \in x.outputs : o.version = p.version /\ o.claim = p.claim
    BY <1>1, <1>2, <1>4, <1>5
  <2> QED
    BY <1>1, <1>2, <1>5, <1>6, <2>1 DEF RuntimeFollows
<1> QED
  BY <1>6, <1>9, <1>10, <1>11 DEF RuntimeOK, z

\* What is about to be published may be, whatever is written to its runtime in between.
LEMMA MayPublishStill ==
  ASSUME NEW x, RuntimeOK(x), NEW z, RuntimeFollows(x, z), NEW y \in Agents!Executor, MayPublish(y, x)
  PROVE  MayPublish(y, z)
<1>1. /\ x.attempt \in Nat /\ z.attempt \in Nat /\ x.outputVersion \in Nat /\ z.outputVersion \in Nat
      /\ y.claim \in Nat /\ y.version \in Nat
      /\ \A p \in z.outputs : p.version \in Nat
  BY RuntimeFields, AgentsAssumed DEF RuntimeOK, RuntimeFollows, Agents!Executor
<1> QED
  BY <1>1 DEF RuntimeFollows, MayPublish

LEMMA AgentsKept ==
  ASSUME AgentsInv, RuntimesStep, ExecutorsStep, CandidatesStep
  PROVE  AgentsInv'
<1>1. ASSUME NEW e \in Firsts
      PROVE  /\ ExecutorOK(executor'[e])
             /\ executor'[e].at = "publishing" => MayPublish(executor'[e], runtime'[executor'[e].of])
  <2>1. CASE executor'[e] = executor[e]
    <3>1. ExecutorOK(executor[e])
      BY DEF AgentsInv
    <3>2. ASSUME executor[e].at = "publishing"
          PROVE  MayPublish(executor[e], runtime'[executor[e].of])
      <4>1. executor[e].of \in AgentRuntimes /\ executor[e] \in Agents!Executor
        BY <3>1, <3>2 DEF ExecutorOK
      <4>2. MayPublish(executor[e], runtime[executor[e].of])
        BY <3>2 DEF AgentsInv
      <4>3. RuntimeOK(runtime[executor[e].of]) /\ RuntimeFollows(runtime[executor[e].of], runtime'[executor[e].of])
        BY <4>1 DEF AgentsInv, RuntimesStep
      <4> QED
        BY <4>1, <4>2, <4>3, MayPublishStill
    <3> QED
      BY <2>1, <3>1, <3>2
  <2>2. CASE executor'[e] # executor[e]
    BY <2>2 DEF ExecutorsStep
  <2> QED
    BY <2>1, <2>2
<1>2. runtime' \in [AgentRuntimes -> Agents!Runtime] /\ \A r \in AgentRuntimes : RuntimeOK(runtime'[r])
  BY DEF RuntimesStep
<1>3. executor' \in [Firsts -> Agents!Executor] /\ candidate' \in [AgentRuntimes -> {"no", "leased", "overdue"}]
  BY DEF ExecutorsStep, CandidatesStep
<1> QED
  BY <1>1, <1>2, <1>3 DEF AgentsInv

LEMMA RuntimesStay == AgentsInv /\ UNCHANGED runtime => RuntimesStep
<1> SUFFICES ASSUME AgentsInv, UNCHANGED runtime PROVE RuntimesStep
  OBVIOUS
<1>1. ASSUME NEW r \in AgentRuntimes PROVE RuntimeFollows(runtime[r], runtime[r])
  <2>1. RuntimeOK(runtime[r]) /\ runtime[r] \in Agents!Runtime
    BY DEF AgentsInv
  <2> QED
    BY <2>1, SameOutputs
<1> QED
  BY <1>1 DEF AgentsInv, RuntimesStep

\* One row is replaced.
LEMMA RowReplaced ==
  ASSUME AgentsInv, NEW r \in AgentRuntimes, NEW x, runtime' = [runtime EXCEPT ![r] = x],
         RuntimeOK(x), RuntimeFollows(runtime[r], x)
  PROVE  RuntimesStep
<1>1. ASSUME NEW q \in AgentRuntimes PROVE RuntimeFollows(runtime[q], runtime[q]) /\ RuntimeOK(runtime[q])
  <2>1. RuntimeOK(runtime[q]) /\ runtime[q] \in Agents!Runtime
    BY DEF AgentsInv
  <2> QED
    BY <2>1, SameOutputs
<1>2. runtime \in [AgentRuntimes -> Agents!Runtime] /\ x \in Agents!Runtime
  BY DEF AgentsInv, RuntimeOK
<1> QED
  BY <1>1, <1>2 DEF RuntimesStep

LEMMA ExecutorsStay == AgentsInv /\ UNCHANGED executor => ExecutorsStep
BY DEF AgentsInv, ExecutorsStep

\* An executor goes on, but not to publish.
LEMMA ExecutorBecomes ==
  ASSUME AgentsInv, NEW e \in Firsts, NEW y, executor' = [executor EXCEPT ![e] = y],
         ExecutorOK(y), y.at # "publishing"
  PROVE  ExecutorsStep
BY DEF AgentsInv, ExecutorsStep, ExecutorOK

LEMMA Leaves == ASSUME AgentsInv, NEW e \in Firsts, Agents!Leave(e) PROVE ExecutorsStep
<1>1. ExecutorOK(Agents!Idle) /\ Agents!Idle.at # "publishing"
  BY AgentsAssumed DEF ExecutorOK, Agents!Executor, Agents!Idle
<1> QED
  BY <1>1, ExecutorBecomes DEF Agents!Leave

LEMMA Goes ==
  ASSUME AgentsInv, NEW e \in Firsts,
         \/ /\ executor[e].at \notin {"idle", "counted"}
            /\ \/ \E where \in {"starting", "reasoning", "pausing", "resuming", "returning"} :
                    Agents!Go(e, where)
               \/ \E code \in {"transient", "timeout"} : Agents!Failing(e, code)
         \/ Agents!Go(e, "counted")
  PROVE  ExecutorsStep
<1> DEFINE z == executor[e]
<1>1. ExecutorOK(z) /\ z \in Agents!Executor
  BY DEF AgentsInv
<1>2. ASSUME NEW where \in {"starting", "reasoning", "pausing", "resuming", "returning"},
             z.at \notin {"idle", "counted"}, Agents!Go(e, where)
      PROVE  ExecutorsStep
  <2> DEFINE y == [z EXCEPT !.at = where]
  <2>1. ExecutorOK(y) /\ y.at # "publishing"
    BY <1>1, <1>2 DEF ExecutorOK, Agents!Executor
  <2>2. executor' = [executor EXCEPT ![e] = y]
    BY <1>2 DEF Agents!Go
  <2> HIDE DEF y
  <2> QED
    BY <2>1, <2>2, ExecutorBecomes
<1>3. ASSUME NEW code \in {"transient", "timeout"}, z.at \notin {"idle", "counted"},
             Agents!Failing(e, code)
      PROVE  ExecutorsStep
  <2> DEFINE y == [z EXCEPT !.at = "failing", !.code = code]
  <2>1. ExecutorOK(y) /\ y.at # "publishing"
    BY <1>1, <1>3 DEF ExecutorOK, Agents!Executor
  <2>2. executor' = [executor EXCEPT ![e] = y]
    BY <1>3 DEF Agents!Failing
  <2> HIDE DEF y
  <2> QED
    BY <2>1, <2>2, ExecutorBecomes
<1>4. CASE Agents!Go(e, "counted")
  <2> DEFINE y == [z EXCEPT !.at = "counted"]
  <2>1. ExecutorOK(y) /\ y.at # "publishing"
    BY <1>1 DEF ExecutorOK, Agents!Executor
  <2>2. executor' = [executor EXCEPT ![e] = y]
    BY <1>4 DEF Agents!Go
  <2> HIDE DEF y
  <2> QED
    BY <2>1, <2>2, ExecutorBecomes
<1> QED
  BY <1>2, <1>3, <1>4

\* A row that keeps its outputs and its attempt.
LEMMA RowKept ==
  ASSUME AgentsInv, NEW r \in AgentRuntimes, NEW y \in Agents!Runtime,
         runtime' = [runtime EXCEPT ![r] = y],
         y.outputs = runtime[r].outputs, y.outputVersion = runtime[r].outputVersion,
         y.attempt = runtime[r].attempt,
         runtime[r].superseded => y.superseded, y.lease = "none" \/ runtime[r].lease # "none"
  PROVE  RuntimesStep
<1>1. RuntimeOK(runtime[r])
  BY DEF AgentsInv
<1>2. RuntimeOK(y) /\ RuntimeFollows(runtime[r], y)
  BY <1>1, SameOutputs
<1> QED
  BY <1>2, RowReplaced

\* Only the status, the lease, or whether it is overdue is written.
RuntimeStatuses ==
  Agents!Ended \union {"none", "ready", "leased", "running", "waiting", "unhealthy"}
Writes(r, status, lease, late) ==
  /\ lease = "none" \/ runtime[r].lease # "none"
  /\ runtime' = [runtime EXCEPT ![r] =
       [runtime[r] EXCEPT !.status = status, !.lease = lease, !.overdue = late]]

LEMMA Rewritten ==
  ASSUME AgentsInv, NEW r \in AgentRuntimes, NEW status \in RuntimeStatuses,
         NEW lease \in {"none", "live", "expired"}, NEW late \in BOOLEAN,
         Writes(r, status, lease, late)
  PROVE  RuntimesStep
<1> DEFINE x == runtime[r]
           y == [x EXCEPT !.status = status, !.lease = lease, !.overdue = late]
<1>1. x \in Agents!Runtime
  BY DEF AgentsInv
<1>2. /\ y \in Agents!Runtime
      /\ y.outputs = x.outputs /\ y.outputVersion = x.outputVersion /\ y.attempt = x.attempt
      /\ y.superseded = x.superseded /\ y.lease = lease
  BY <1>1 DEF Agents!Runtime, RuntimeStatuses
<1>3. runtime' = [runtime EXCEPT ![r] = y] /\ (lease = "none" \/ x.lease # "none")
  BY DEF Writes
<1> HIDE DEF y
<1> QED
  BY <1>2, <1>3, RowKept

\* The steps that write a runtime's row and nothing else of it.
LEMMA RowSteps ==
  ASSUME AgentsInv, NEW r \in AgentRuntimes,
         \/ Agents!Create(r) \/ Agents!Heartbeat(r)
         \/ \E deleted \in BOOLEAN : Agents!Cancel(r, deleted)
         \/ Agents!Expire(r) \/ Agents!BecomeOverdue(r)
  PROVE  RuntimesStep
<1> DEFINE x == runtime[r]
<1>1. x \in Agents!Runtime
  BY DEF AgentsInv
<1>2. x.status \in RuntimeStatuses /\ x.lease \in {"none", "live", "expired"} /\ x.overdue \in BOOLEAN
  BY <1>1 DEF Agents!Runtime, RuntimeStatuses
<1>3. {"ready", "cancelled"} \subseteq RuntimeStatuses
  BY DEF RuntimeStatuses, Agents!Ended
<1>4. CASE Agents!Create(r)
  <2>1. [x EXCEPT !.status = "ready"] = [x EXCEPT !.status = "ready", !.lease = x.lease, !.overdue = x.overdue]
    BY <1>1 DEF Agents!Runtime
  <2>2. Writes(r, "ready", x.lease, x.overdue)
    BY <1>2, <1>4, <2>1 DEF Agents!Create, Agents!Become, Writes
  <2> QED
    BY <1>2, <1>3, <2>2, Rewritten
<1>5. CASE Agents!Heartbeat(r)
  <2>1. [x EXCEPT !.lease = "live"] = [x EXCEPT !.status = x.status, !.lease = "live", !.overdue = x.overdue]
    BY <1>1 DEF Agents!Runtime
  <2>2. Writes(r, x.status, "live", x.overdue)
    BY <1>5, <2>1 DEF Agents!Heartbeat, Agents!Become, Writes
  <2> QED
    BY <1>2, <2>2, Rewritten
<1>6. ASSUME NEW deleted \in BOOLEAN, Agents!Cancel(r, deleted) PROVE RuntimesStep
  <2> DEFINE status == IF Agents!Unended(r) THEN "cancelled" ELSE x.status
             lease == IF deleted THEN "none" ELSE x.lease
  <2>1. [x EXCEPT !.status = status, !.lease = lease]
          = [x EXCEPT !.status = status, !.lease = lease, !.overdue = x.overdue]
    BY <1>1 DEF Agents!Runtime
  <2>2. status \in RuntimeStatuses /\ lease \in {"none", x.lease} /\ (lease = "none" \/ x.lease # "none")
    BY <1>2, <1>3
  <2>3. runtime' = [runtime EXCEPT ![r] = [x EXCEPT !.status = status, !.lease = lease]]
    BY <1>6 DEF Agents!Cancel, Agents!Become
  <2> HIDE DEF status, lease
  <2>4. Writes(r, status, lease, x.overdue)
    BY <2>1, <2>2, <2>3 DEF Writes
  <2> QED
    BY <1>2, <2>2, <2>4, Rewritten
<1>7. CASE Agents!Expire(r)
  <2>1. [x EXCEPT !.lease = "expired"] = [x EXCEPT !.status = x.status, !.lease = "expired", !.overdue = x.overdue]
    BY <1>1 DEF Agents!Runtime
  <2>2. Writes(r, x.status, "expired", x.overdue)
    BY <1>7, <2>1 DEF Agents!Expire, Agents!Become, Writes
  <2> QED
    BY <1>2, <2>2, Rewritten
<1>8. CASE Agents!BecomeOverdue(r)
  <2>1. [x EXCEPT !.overdue = TRUE] = [x EXCEPT !.status = x.status, !.lease = x.lease, !.overdue = TRUE]
    BY <1>1 DEF Agents!Runtime
  <2>2. Writes(r, x.status, x.lease, TRUE)
    BY <1>2, <1>8, <2>1 DEF Agents!BecomeOverdue, Agents!Become, Writes
  <2> QED
    BY <1>2, <2>2, Rewritten
<1> QED
  BY <1>4, <1>5, <1>6, <1>7, <1>8

\* A superseded runtime's outputs are taken back, and what recovery returns.
LEMMA TakenBack ==
  ASSUME AgentsInv, NEW r \in AgentRuntimes,
         \/ \E deleted \in BOOLEAN, seen \in 0..runtime[r].outputVersion : Agents!Supersede(r, deleted, seen)
         \/ Agents!Recover(r)
  PROVE  RuntimesStep
<1> DEFINE x == runtime[r]
<1>1. RuntimeOK(x) /\ x \in Agents!Runtime /\ x.outputVersion \in Nat
  BY RuntimeFields DEF AgentsInv, RuntimeOK
<1>2. PICK seen \in Nat, status \in Agents!Ended \union {"ready"}, superseded \in BOOLEAN,
           lease \in {"none", x.lease} :
        /\ x.superseded => superseded
        /\ runtime' = [runtime EXCEPT ![r] =
             [Agents!Orphaned(x, seen) EXCEPT
                !.status = status, !.superseded = superseded, !.lease = lease]]
  <2>1. ASSUME NEW deleted \in BOOLEAN, NEW seen \in 0..x.outputVersion,
               Agents!Supersede(r, deleted, seen)
        PROVE  /\ seen \in Nat
               /\ runtime' = [runtime EXCEPT ![r] =
                    [Agents!Orphaned(x, seen) EXCEPT
                       !.status = "cancelled", !.superseded = TRUE,
                       !.lease = IF deleted THEN "none" ELSE x.lease]]
    <3> DEFINE z == Agents!Orphaned(x, seen)
    <3>4. seen \in Nat
      BY <1>1
    <3>5. z.lease = x.lease
      BY <1>1 DEF Agents!Orphaned, Agents!Runtime
    <3>6. z \in Agents!Runtime
      BY <1>1, <3>4, OrphanedOK DEF RuntimeOK
    <3>1. z.lease = x.lease /\ z \in Agents!Runtime
      BY <3>5, <3>6
    <3>2. runtime' = [runtime EXCEPT ![r] = [z EXCEPT
            !.status = "cancelled", !.superseded = TRUE,
            !.lease = IF deleted THEN "none" ELSE @]]
      BY <2>1 DEF Agents!Supersede, Agents!Become
    <3> HIDE DEF z
    <3>3. [z EXCEPT !.status = "cancelled", !.superseded = TRUE, !.lease = IF deleted THEN "none" ELSE @]
          = [z EXCEPT !.status = "cancelled", !.superseded = TRUE,
                      !.lease = IF deleted THEN "none" ELSE x.lease]
      BY <3>1 DEF Agents!Runtime
    <3>7. runtime' = [runtime EXCEPT ![r] = [z EXCEPT !.status = "cancelled", !.superseded = TRUE,
                      !.lease = IF deleted THEN "none" ELSE x.lease]]
      BY <3>2, <3>3
    <3> QED
      BY <3>4, <3>7 DEF z
  <2>2. CASE Agents!Recover(r)
    <3> DEFINE z == Agents!Orphaned(x, x.outputVersion)
               status == IF candidate[r] = "leased" /\ x.attempt <= AgentRetries
                         THEN "ready" ELSE "failed"
    <3>1. runtime' = [runtime EXCEPT ![r] = [z EXCEPT !.status = status, !.lease = "none"]]
      BY <2>2 DEF Agents!Recover
    <3>2. z \in Agents!Runtime /\ z.superseded = x.superseded
      BY <1>1, OrphanedOK DEF RuntimeOK
    <3>3. status \in Agents!Ended \union {"ready"}
      BY DEF Agents!Ended
    <3> HIDE DEF z, status
    <3>4. [z EXCEPT !.status = status, !.lease = "none"]
            = [z EXCEPT !.status = status, !.superseded = x.superseded, !.lease = "none"]
      BY <3>2 DEF Agents!Runtime
    <3>5. x.superseded \in BOOLEAN /\ x.outputVersion \in Nat
      BY <1>1, RuntimeFields
    <3> QED
      BY <3>1, <3>3, <3>4, <3>5 DEF z
  <2>3. \A deleted \in BOOLEAN : (IF deleted THEN "none" ELSE x.lease) \in {"none", x.lease}
    OBVIOUS
  <2> QED
    BY <2>1, <2>2, <2>3 DEF Agents!Ended
<1> DEFINE z == Agents!Orphaned(x, seen)
           y == [z EXCEPT !.status = status, !.superseded = superseded, !.lease = lease]
<1>3. RuntimeOK(z) /\ RuntimeFollows(x, z) /\ z.superseded = x.superseded /\ z \in Agents!Runtime
  BY <1>1, OrphanedOK DEF RuntimeOK
<1>4. z.lease = x.lease
  BY <1>1 DEF Agents!Orphaned, Agents!Runtime
<1>5. runtime' = [runtime EXCEPT ![r] = y]
  BY <1>2
<1> HIDE DEF z
<1>6. /\ y \in Agents!Runtime /\ y.outputs = z.outputs /\ y.outputVersion = z.outputVersion
      /\ y.attempt = z.attempt /\ y.superseded = superseded /\ y.lease = lease
  BY <1>1, <1>3 DEF Agents!Runtime, Agents!Ended
<1> HIDE DEF y
<1>7. RuntimeOK(y) /\ RuntimeFollows(z, y)
  BY <1>2, <1>3, <1>4, <1>6, SameOutputs
<1>8. RuntimeFollows(x, y)
  BY <1>1, <1>3, <1>7, FollowsTwice
<1> QED
  BY <1>5, <1>7, <1>8, RowReplaced

\* A lease is given for a new attempt.
LEMMA Leases ==
  ASSUME AgentsInv, NEW e \in Firsts, NEW r \in AgentRuntimes, Agents!LeaseNext(e, r)
  PROVE  RuntimesStep /\ ExecutorsStep /\ UNCHANGED candidate
<1> DEFINE x == runtime[r]
           claim == x.attempt + 1
           z == [x EXCEPT !.attempt = claim, !.lease = "live", !.status = "leased"]
           y == [at |-> "leased", of |-> r, claim |-> claim, version |-> 0, code |-> "none"]
<1>1. /\ RuntimeOK(x) /\ x \in Agents!Runtime /\ x.attempt \in Nat /\ ~x.superseded
      /\ x.outputVersion \in Nat /\ claim \in 1..AgentAttempts /\ x.lease = "none"
      /\ \A o \in x.outputs : o.claim \in Nat
  BY RuntimeFields, AgentsAssumed DEF AgentsInv, RuntimeOK, Agents!LeaseNext, Agents!Leasable
<1>2. /\ runtime' = [runtime EXCEPT ![r] = z] /\ executor' = [executor EXCEPT ![e] = y]
      /\ UNCHANGED candidate
  <2>1. z = [x EXCEPT !.attempt = @ + 1, !.lease = "live", !.status = "leased"]
    OBVIOUS
  <2> QED
    BY <2>1 DEF Agents!LeaseNext, Agents!Lease, Agents!Become
<1> HIDE DEF claim
<1>8. claim \in 0..AgentAttempts /\ claim \in Nat /\ x.attempt < claim
  BY <1>1, AgentsAssumed DEF claim
<1>3. /\ z \in Agents!Runtime /\ z.outputs = x.outputs /\ z.outputVersion = x.outputVersion
      /\ z.attempt = claim /\ z.superseded = x.superseded
  BY <1>1, <1>8 DEF Agents!Runtime, Agents!Ended
<1>4. ExecutorOK(y) /\ y.at # "publishing"
  <2>1. y \in Agents!Executor
    BY <1>8 DEF Agents!Executor
  <2> QED
    BY <1>1, <2>1 DEF ExecutorOK
<1> HIDE DEF z, y
<1>5. \A o \in z.outputs : o.claim <= x.attempt /\ o.claim < z.attempt /\ o.claim <= z.attempt
  BY <1>1, <1>3, <1>8 DEF RuntimeOK, Ordered
<1>6. RuntimeOK(z)
  BY <1>1, <1>3, <1>5 DEF RuntimeOK, Ordered
<1>7. RuntimeFollows(x, z)
  BY <1>1, <1>3, <1>8 DEF RuntimeFollows
<1> QED
  BY <1>2, <1>4, <1>6, <1>7, RowReplaced, ExecutorBecomes

\* What an executor that works has.
LEMMA WorksOn ==
  ASSUME AgentsInv, NEW e \in Firsts, executor[e].at \notin {"idle", "counted"}
  PROVE  /\ executor[e].of \in AgentRuntimes /\ executor[e].claim \in 1..AgentAttempts
         /\ executor[e] \in Agents!Executor
BY DEF AgentsInv, ExecutorOK

\* What an executor asks, or does beside its runtime.
LEMMA AskSteps ==
  ASSUME AgentsInv, NEW e \in Firsts,
         \/ Agents!CountLeases(e) \/ Agents!LeaseNone(e) \/ Agents!AskStart(e) \/ Agents!AskPause(e)
         \/ Agents!AskPublish(e) \/ Agents!AskFail(e) \/ Agents!Crash(e)
         \/ \E code \in {"transient", "timeout"} : Agents!ReasonerFails(e, code)
  PROVE  RuntimesStep /\ ExecutorsStep /\ UNCHANGED candidate
<1>1. UNCHANGED <<runtime, candidate>>
  BY DEF Agents!CountLeases, Agents!LeaseNone, Agents!AskStart, Agents!AskPause,
         Agents!AskPublish, Agents!AskFail, Agents!Crash, Agents!ReasonerFails
<1>2. RuntimesStep
  BY <1>1, RuntimesStay
<1>3. CASE Agents!CountLeases(e) \/ Agents!AskPause(e)
  BY <1>1, <1>2, <1>3, Goes DEF Agents!CountLeases, Agents!AskPause
<1>4. CASE Agents!LeaseNone(e) \/ Agents!Crash(e)
  BY <1>1, <1>2, <1>4, Leaves DEF Agents!LeaseNone, Agents!Crash
<1>5. CASE Agents!AskStart(e) \/ Agents!AskFail(e)
  BY <1>1, <1>2, <1>5, Goes, Leaves DEF Agents!AskStart, Agents!AskFail
<1>6. CASE \E code \in {"transient", "timeout"} : Agents!ReasonerFails(e, code)
  BY <1>1, <1>2, <1>6, Goes DEF Agents!ReasonerFails
<1>7. CASE Agents!AskPublish(e)
  <2> DEFINE r == executor[e].of
             z == executor[e]
  <2>1. z.at = "reasoning" /\ r \in AgentRuntimes /\ z \in Agents!Executor /\ z.claim \in 1..AgentAttempts
    BY <1>7, WorksOn DEF Agents!AskPublish
  <2>2. CASE Agents!Fenced(e) /\ Agents!FencedIn(e, {"running", "waiting"})
    <3> DEFINE y == [z EXCEPT !.at = "publishing", !.version = runtime[r].outputVersion]
    <3>1. /\ runtime[r].lease # "none" /\ runtime[r].attempt = z.claim
          /\ RuntimeOK(runtime[r]) /\ runtime[r] \in Agents!Runtime
          /\ runtime[r].attempt \in Nat /\ runtime[r].outputVersion \in Nat
      BY <2>1, <2>2, RuntimeFields DEF Agents!Fenced, AgentsInv, RuntimeOK
    <3>2. /\ y \in Agents!Executor /\ y.at = "publishing" /\ y.of = r /\ y.claim = z.claim
          /\ y.version = runtime[r].outputVersion
      BY <2>1, <3>1 DEF Agents!Executor
    <3>3. executor' = [executor EXCEPT ![e] = y]
      BY <1>7, <2>2 DEF Agents!AskPublish
    <3> HIDE DEF y
    <3>4. MayPublish(y, runtime[r]) /\ ExecutorOK(y)
      BY <2>1, <3>1, <3>2 DEF MayPublish, RuntimeOK, ExecutorOK
    <3>5. executor \in [Firsts -> Agents!Executor]
      BY DEF AgentsInv
    <3>6. ExecutorsStep
      <4>1. executor'[e] = y /\ \A d \in Firsts : d # e => executor'[d] = executor[d]
        BY <3>3, <3>5
      <4>2. executor' \in [Firsts -> Agents!Executor]
        BY <3>2, <3>3, <3>5
      <4> QED
        BY <1>1, <3>2, <3>4, <4>1, <4>2 DEF ExecutorsStep
    <3> QED
      BY <1>1, <1>2, <3>6
  <2>3. CASE ~Agents!FencedIn(e, {"running", "waiting"})
    BY <1>1, <1>2, <1>7, <2>1, <2>3, Goes DEF Agents!AskPublish
  <2> QED
    BY <2>2, <2>3 DEF Agents!FencedIn
<1> QED
  BY <1>1, <1>2, <1>3, <1>4, <1>5, <1>6, <1>7

\* What an executor writes.
LEMMA WriteSteps ==
  ASSUME AgentsInv, NEW e \in Firsts,
         \/ Agents!Transition(e) \/ Agents!Publish(e)
         \/ \E deleted \in BOOLEAN : Agents!Fail(e, deleted)
  PROVE  RuntimesStep /\ ExecutorsStep /\ UNCHANGED candidate
<1> DEFINE r == executor[e].of
           x == runtime[r]
<1>1. executor[e].at \notin {"idle", "counted"}
  BY DEF Agents!Transition, Agents!Publish, Agents!Fail
<1>2. /\ r \in AgentRuntimes /\ executor[e].claim \in 1..AgentAttempts
      /\ executor[e] \in Agents!Executor
  BY <1>1, WorksOn
<1>3. RuntimeOK(x) /\ x \in Agents!Runtime
  BY <1>2 DEF AgentsInv
<1>4. CASE Agents!Transition(e)
  <2> DEFINE status == IF executor[e].at = "pausing" THEN "waiting" ELSE "running"
             y == [x EXCEPT !.status = status]
  <2>1. status \in {"waiting", "running"}
    OBVIOUS
  <2>2. runtime' = [runtime EXCEPT ![r] = y] /\ UNCHANGED candidate
    BY <1>4 DEF Agents!Transition, Agents!Become
  <2> HIDE DEF status
  <2>3. /\ y \in Agents!Runtime /\ y.outputs = x.outputs /\ y.outputVersion = x.outputVersion
        /\ y.attempt = x.attempt /\ y.superseded = x.superseded /\ y.lease = x.lease
    BY <1>3, <2>1 DEF Agents!Runtime
  <2> HIDE DEF y
  <2>4. RuntimesStep
    BY <1>2, <2>2, <2>3, RowKept
  <2>5. ExecutorsStep
    BY <1>1, <1>4, Goes DEF Agents!Transition
  <2> QED
    BY <2>2, <2>4, <2>5
<1>5. CASE Agents!Publish(e)
  <2> DEFINE next == executor[e].version + 1
             y == Agents!Published(x, executor[e].claim, next)
  <2>1. CASE \E o \in x.outputs : o.version = next
    <3>1. Agents!Failing(e, "transient") /\ UNCHANGED <<runtime, candidate>>
      BY <1>5, <2>1 DEF Agents!Publish
    <3> QED
      BY <1>1, <3>1, Goes, RuntimesStay
  <2>2. CASE ~\E o \in x.outputs : o.version = next
    <3>1. runtime' = [runtime EXCEPT ![r] = y] /\ UNCHANGED candidate /\ Agents!Leave(e)
      BY <1>5, <2>2 DEF Agents!Publish, Agents!Become
    <3>2. executor[e].at = "publishing" /\ MayPublish(executor[e], x) /\ ExecutorOK(executor[e])
      BY <1>5 DEF Agents!Publish, AgentsInv
    <3>3. RuntimeOK(y) /\ RuntimeFollows(x, y)
      BY <1>3, <2>2, <3>2, PublishedOK
    <3> HIDE DEF y
    <3> QED
      BY <1>2, <3>1, <3>3, RowReplaced, Leaves
  <2> QED
    BY <2>1, <2>2
<1>6. ASSUME NEW deleted \in BOOLEAN, Agents!Fail(e, deleted)
      PROVE  RuntimesStep /\ ExecutorsStep /\ UNCHANGED candidate
  <2> DEFINE status == IF executor[e].claim <= AgentRetries THEN "ready"
                       ELSE IF executor[e].code = "transient" THEN "unhealthy" ELSE "failed"
             lease == IF deleted THEN "none" ELSE x.lease
             y == [x EXCEPT !.status = status, !.lease = lease]
  <2>1. status \in {"ready", "unhealthy", "failed"} /\ (lease = "none" \/ lease = x.lease)
    OBVIOUS
  <2>2. runtime' = [runtime EXCEPT ![r] = y] /\ UNCHANGED candidate /\ Agents!Leave(e)
    BY <1>6 DEF Agents!Fail, Agents!Become
  <2> HIDE DEF status, lease
  <2>3. /\ y \in Agents!Runtime /\ y.outputs = x.outputs /\ y.outputVersion = x.outputVersion
        /\ y.attempt = x.attempt /\ y.superseded = x.superseded /\ y.lease = lease
    BY <1>3, <2>1 DEF Agents!Runtime, Agents!Ended
  <2> HIDE DEF y
  <2>4. y.lease = "none" \/ x.lease # "none"
    BY <2>1, <2>3
  <2>5. RuntimesStep
    BY <1>2, <2>2, <2>3, <2>4, RowKept
  <2> QED
    BY <2>2, <2>5, Leaves
<1> QED
  BY <1>4, <1>5, <1>6

LEMMA AgentsStep ==
  ASSUME AgentsInv, Agents!Next
  PROVE  RuntimesStep /\ ExecutorsStep /\ CandidatesStep
<1>1. candidate \in [AgentRuntimes -> {"no", "leased", "overdue"}]
  BY DEF AgentsInv
<1>2. ASSUME NEW r \in AgentRuntimes,
             \/ Agents!Create(r) \/ Agents!Heartbeat(r)
             \/ \E deleted \in BOOLEAN : Agents!Cancel(r, deleted)
             \/ Agents!Expire(r) \/ Agents!BecomeOverdue(r)
      PROVE  RuntimesStep /\ UNCHANGED <<executor, candidate>>
  <2>1. UNCHANGED <<executor, candidate>>
    BY <1>2 DEF Agents!Create, Agents!Heartbeat, Agents!Cancel, Agents!Expire,
                Agents!BecomeOverdue, Agents!Become
  <2> QED
    BY <1>2, <2>1, RowSteps
<1>3. ASSUME NEW r \in AgentRuntimes,
             \/ \E deleted \in BOOLEAN, seen \in 0..runtime[r].outputVersion :
                  Agents!Supersede(r, deleted, seen)
             \/ Agents!Recover(r)
      PROVE  RuntimesStep /\ UNCHANGED executor /\ CandidatesStep
  <2>1. UNCHANGED executor /\ CandidatesStep
    BY <1>1, <1>3 DEF Agents!Supersede, Agents!Recover, Agents!Become, CandidatesStep
  <2> QED
    BY <1>3, <2>1, TakenBack
<1>4. ASSUME NEW r \in AgentRuntimes, Agents!SkipCandidate(r)
      PROVE  UNCHANGED <<runtime, executor>> /\ CandidatesStep
  BY <1>1, <1>4 DEF Agents!SkipCandidate, CandidatesStep
<1>5. ASSUME Agents!FindCandidates
      PROVE  UNCHANGED <<runtime, executor>> /\ CandidatesStep
  BY <1>5 DEF Agents!FindCandidates, CandidatesStep
<1>6. UNCHANGED candidate => CandidatesStep
  BY <1>1 DEF CandidatesStep
<1>7. CASE \E r \in AgentRuntimes :
             \/ Agents!Create(r) \/ Agents!Heartbeat(r)
             \/ \E deleted \in BOOLEAN:
                  \/ Agents!Cancel(r, deleted)
                  \/ \E seen \in 0..runtime[r].outputVersion: Agents!Supersede(r, deleted, seen)
             \/ Agents!Recover(r) \/ Agents!SkipCandidate(r)
             \/ Agents!Expire(r) \/ Agents!BecomeOverdue(r)
  BY <1>2, <1>3, <1>4, <1>6, <1>7, RuntimesStay, ExecutorsStay
<1>8. CASE \E e \in Firsts :
             \/ Agents!CountLeases(e) \/ \E r \in AgentRuntimes: Agents!LeaseNext(e, r)
             \/ Agents!LeaseNone(e)
             \/ Agents!AskStart(e) \/ Agents!AskPause(e) \/ Agents!Transition(e)
             \/ Agents!AskPublish(e) \/ Agents!Publish(e)
             \/ \E code \in {"transient", "timeout"}: Agents!ReasonerFails(e, code)
             \/ Agents!AskFail(e) \/ \E deleted \in BOOLEAN: Agents!Fail(e, deleted)
             \/ Agents!Crash(e)
  BY <1>6, <1>8, Leases, AskSteps, WriteSteps
<1> QED
  BY <1>5, <1>7, <1>8, RuntimesStay, ExecutorsStay DEF Agents!Next

LEMMA AgentsBegin == Agents!Init => AgentsInv
<1> SUFFICES ASSUME Agents!Init PROVE AgentsInv
  OBVIOUS
<1>1. /\ Agents!NoRuntime \in Agents!Runtime /\ Agents!NoRuntime.outputs = {}
      /\ Agents!NoRuntime.outputVersion = 0 /\ Agents!NoRuntime.lease = "none"
  BY AgentsAssumed DEF Agents!NoRuntime, Agents!Runtime, Agents!Ended
<1>2. RuntimeOK(Agents!NoRuntime)
  BY <1>1 DEF RuntimeOK, Ordered
<1>3. ExecutorOK(Agents!Idle) /\ Agents!Idle.at = "idle" /\ Agents!Idle \in Agents!Executor
  BY AgentsAssumed DEF ExecutorOK, Agents!Executor, Agents!Idle
<1> QED
  BY <1>1, <1>2, <1>3 DEF Agents!Init, AgentsInv

LEMMA AgentsSay ==
  ASSUME AgentsInv
  PROVE  Agents!TypeOK /\ Agents!OutputsInOrder
BY DEF AgentsInv, RuntimeOK, ExecutorOK, Ordered, Agents!TypeOK, Agents!OutputsInOrder

LEMMA AgentsStand ==
  ASSUME AgentsInv, Agents!Next \/ UNCHANGED agentVars
  PROVE  Agents!OutputsStand /\ Agents!SupersededForGood
<1>1. RuntimesStep
  BY AgentsStep, RuntimesStay DEF agentVars
<1> QED
  BY <1>1 DEF RuntimesStep, RuntimeFollows, Agents!OutputsStand, Agents!SupersededForGood

-----------------------------------------------------------------------------
(* The workflow.                                                            *)

Lives == {"running", "awaiting_approval", "failed", "cancelled", "completed"}
Results == [result : Nat, attempt : Nat]
FlowRows(v) ==
  [version: Nat \ {0}, life: Lives, stage: 0..v.stages,
   tries: [1..v.stages -> Nat], attempts: [1..v.stages -> Nat],
   asked: [1..v.stages -> v.payloads \union {None}], resumes: 0..v.resumes,
   inFlight: Nat \union {None}, done: Seq(Results)]

\* Where a workflow stands: its stage goes on while it lives, an attempt is in
\* flight under the version that it has given the row, and each stage before
\* this one has its result.
Placed(f) ==
  /\ f.stage # 0 <=> f.life \in {"running", "awaiting_approval", "failed"}
  /\ f.inFlight # None => f.life = "running" /\ f.inFlight = f.version
  /\ f.stage # 0 => Len(f.done) = f.stage - 1

\* What it has used up: an attempt of a stage that has not failed is the one
\* in flight or the one that has succeeded.
Spent(v, f) ==
  /\ \A s \in 1..v.stages : f.attempts[s] <= 1 + v.retries + f.resumes
  /\ f.stage # 0 =>
       /\ f.attempts[f.stage] = f.tries[f.stage] + (IF f.inFlight # None THEN 1 ELSE 0)
       /\ f.tries[f.stage] <= v.retries + f.resumes + (IF f.life = "failed" THEN 1 ELSE 0)
       /\ \A s \in 1..v.stages : s > f.stage => f.attempts[s] = 0 /\ f.tries[s] = 0

\* What goes beyond the execution has been approved.
Agreed(v, f, agreed) ==
  /\ f.stage > v.execution /\ f.life \in {"running", "failed"} => agreed
  /\ \A s \in 1..v.stages : s > v.execution /\ f.attempts[s] > 0 => agreed

OwnResults(f) == \A i \in 1..Len(f.done) : f.done[i].result = f.done[i].attempt

FlowOK(v, f, agreed) ==
  /\ f \in FlowRows(v) /\ Placed(f) /\ Spent(v, f) /\ Agreed(v, f, agreed)
  /\ OwnResults(f)

\* What a later row keeps of an earlier one.
Follows(v, f, g) ==
  /\ f.life \in {"completed", "cancelled"} => g = f
  /\ \E tail \in Seq(Results) : g.done = f.done \o tail
  /\ \A s \in 1..v.stages : f.asked[s] # None => g.asked[s] = f.asked[s]

FlowGiven(v) ==
  /\ v.stages \in Nat /\ v.execution \in 1..(v.stages - 1)
  /\ v.calls \in [1..v.stages -> Nat \ {0}] /\ v.again \in [1..v.stages -> Nat]
  /\ v.retries \in Nat /\ v.resumes \in Nat
  /\ None \notin v.payloads /\ None \notin Nat

LEMMA FlowGivenIs == ASSUME NEW v, Flow(v)!WorkflowAssumption PROVE FlowGiven(v)
BY DEF FlowGiven, Flow!WorkflowAssumption, Flow!Stages

LEMMA FlowAssumed ==
  ASSUME NEW v, FlowGiven(v)
  PROVE  /\ v.stages \in Nat /\ v.execution \in 1..(v.stages - 1)
         /\ v.calls \in [1..v.stages -> Nat \ {0}] /\ v.again \in [1..v.stages -> Nat]
         /\ v.retries \in Nat /\ v.resumes \in Nat
         /\ None \notin v.payloads /\ None \notin Nat
BY DEF FlowGiven

LEMMA FlowNumbers ==
  ASSUME NEW v, FlowGiven(v)
  PROVE  v.stages \in Nat /\ v.retries \in Nat /\ v.resumes \in Nat /\ None \notin Nat
BY DEF FlowGiven

LEMMA FlowFields ==
  ASSUME NEW v, FlowGiven(v), NEW f \in FlowRows(v)
  PROVE  /\ f.version \in Nat /\ f.version # 0 /\ f.life \in Lives /\ f.stage \in 0..v.stages
         /\ f.tries \in [1..v.stages -> Nat] /\ f.attempts \in [1..v.stages -> Nat]
         /\ f.asked \in [1..v.stages -> v.payloads \union {None}] /\ f.resumes \in 0..v.resumes
         /\ f.inFlight \in Nat \union {None} /\ f.done \in Seq(Results)
BY DEF FlowRows

\* An attempt is begun.
LEMMA FlowBegins ==
  ASSUME NEW v, FlowGiven(v), NEW agreed \in BOOLEAN, FlowOK(v, flow, agreed),
         flow.life = "running", flow.inFlight = None,
         NEW p \in v.payloads, flow.asked[flow.stage] \in {p, None},
         NEW g, g = [flow EXCEPT !.inFlight = flow.version + 1, !.asked[flow.stage] = p,
                                 !.attempts[flow.stage] = @ + 1, !.version = flow.version + 1]
  PROVE  FlowOK(v, g, agreed) /\ Follows(v, flow, g)
<1>0. /\ flow.version \in Nat /\ flow.version # 0 /\ flow.life \in Lives
      /\ flow.stage \in 0..v.stages
      /\ flow.tries \in [1..v.stages -> Nat] /\ flow.attempts \in [1..v.stages -> Nat]
      /\ flow.asked \in [1..v.stages -> v.payloads \union {None}] /\ flow.resumes \in 0..v.resumes
      /\ flow.inFlight \in Nat \union {None} /\ flow.done \in Seq(Results)
      /\ flow.resumes \in Nat
  BY FlowFields, FlowAssumed DEF FlowOK
<1>1. flow \in FlowRows(v) /\ flow.stage \in 1..v.stages
  BY FlowAssumed DEF FlowOK, FlowRows, Placed
<1>2. /\ g.version = flow.version + 1 /\ g.life = flow.life /\ g.stage = flow.stage
      /\ g.tries = flow.tries /\ g.resumes = flow.resumes /\ g.done = flow.done
      /\ g.inFlight = flow.version + 1
      /\ g.attempts = [flow.attempts EXCEPT ![flow.stage] = @ + 1]
      /\ g.asked = [flow.asked EXCEPT ![flow.stage] = p]
  BY <1>1 DEF FlowRows
<1>10. g = [version |-> g.version, life |-> g.life, stage |-> g.stage, tries |-> g.tries,
            attempts |-> g.attempts, asked |-> g.asked, resumes |-> g.resumes,
            inFlight |-> g.inFlight, done |-> g.done]
  BY <1>1 DEF FlowRows
<1>8. g \in FlowRows(v)
  <2>1. g.attempts \in [1..v.stages -> Nat]
    <3>1. flow.attempts[flow.stage] \in Nat
      BY <1>0, <1>1
    <3> QED
      BY <1>0, <1>1, <1>2, <3>1
  <2>3. g.asked \in [1..v.stages -> v.payloads \union {None}]
    BY <1>0, <1>1, <1>2
  <2>4. g.version \in Nat \ {0} /\ g.inFlight \in Nat \union {None}
    BY <1>0, <1>2
  <2>2. /\ g.life \in Lives /\ g.stage \in 0..v.stages /\ g.tries \in [1..v.stages -> Nat]
        /\ g.resumes \in 0..v.resumes /\ g.done \in Seq(Results)
    BY <1>1, <1>2 DEF FlowRows
  <2> QED
    BY <1>10, <2>1, <2>2, <2>3, <2>4 DEF FlowRows
<1>3. \A s \in 1..v.stages :
        g.attempts[s] = IF s = flow.stage THEN flow.attempts[s] + 1 ELSE flow.attempts[s]
  BY <1>1, <1>2 DEF FlowRows
<1>4. Placed(g) /\ OwnResults(g)
  BY <1>1, <1>2 DEF FlowOK, Placed, OwnResults, FlowRows
<1>5. Spent(v, g)
  <2>1. g.inFlight # None
    BY <1>0, <1>2, FlowNumbers
  <2>2. /\ flow.attempts[flow.stage] = flow.tries[flow.stage]
        /\ flow.tries[flow.stage] <= v.retries + flow.resumes
        /\ \A s \in 1..v.stages : flow.attempts[s] <= 1 + v.retries + flow.resumes
        /\ \A s \in 1..v.stages : s > flow.stage => flow.attempts[s] = 0 /\ flow.tries[s] = 0
    <3>1. flow.stage # 0 /\ flow.life # "failed"
      BY <1>1, FlowAssumed
    <3>2. /\ flow.attempts[flow.stage] = flow.tries[flow.stage] + 0
          /\ flow.tries[flow.stage] <= v.retries + flow.resumes + 0
          /\ \A s \in 1..v.stages : flow.attempts[s] <= 1 + v.retries + flow.resumes
          /\ \A s \in 1..v.stages : s > flow.stage => flow.attempts[s] = 0 /\ flow.tries[s] = 0
      BY <3>1 DEF FlowOK, Spent
    <3>3. flow.attempts[flow.stage] \in Nat /\ flow.tries[flow.stage] \in Nat
      BY <1>0, <1>1
    <3> QED
      BY <1>0, <3>2, <3>3, FlowAssumed
  <2>3. \A s \in 1..v.stages : g.attempts[s] <= 1 + v.retries + g.resumes
    <3> SUFFICES ASSUME NEW s \in 1..v.stages PROVE g.attempts[s] <= 1 + v.retries + g.resumes
      OBVIOUS
    <3>1. flow.attempts[s] \in Nat
      BY <1>0
    <3>2. flow.attempts[s] <= 1 + v.retries + flow.resumes
      BY <2>2
    <3>3. CASE s = flow.stage
      <4>1. flow.attempts[s] <= v.retries + flow.resumes
        BY <2>2, <3>3
      <4>2. g.attempts[s] = flow.attempts[s] + 1 /\ g.resumes = flow.resumes
        BY <1>2, <1>3, <3>3
      <4> QED
        BY <1>0, <3>1, <4>1, <4>2, FlowNumbers
    <3>4. CASE s # flow.stage
      BY <1>2, <1>3, <3>2, <3>4
    <3> QED
      BY <3>3, <3>4
  <2>4. /\ g.attempts[g.stage] = g.tries[g.stage] + 1 /\ g.life # "failed"
        /\ g.tries[g.stage] <= v.retries + g.resumes + 0
    <3>1. flow.tries[flow.stage] \in Nat
      BY <1>0, <1>1
    <3>2. /\ g.attempts[g.stage] = flow.attempts[flow.stage] + 1
          /\ g.tries[g.stage] = flow.tries[flow.stage]
      BY <1>1, <1>2, <1>3
    <3>3. g.life # "failed" /\ g.resumes = flow.resumes
      BY <1>2
    <3> QED
      BY <1>0, <2>2, <3>1, <3>2, <3>3, FlowNumbers
  <2>5. \A s \in 1..v.stages : s > g.stage => g.attempts[s] = 0 /\ g.tries[s] = 0
    BY <1>0, <1>1, <1>2, <1>3, <2>2
  <2> QED
    BY <2>1, <2>3, <2>4, <2>5 DEF Spent
<1>6. Agreed(v, g, agreed)
  BY <1>1, <1>2, <1>3, FlowAssumed DEF FlowOK, Agreed, FlowRows
<1>7. Follows(v, flow, g)
  <2>1. flow.done = flow.done \o << >> /\ << >> \in Seq(Results)
    BY <1>1 DEF FlowRows
  <2> QED
    BY <1>1, <1>2, <2>1 DEF Follows, FlowRows
<1> QED
  BY <1>4, <1>5, <1>6, <1>7, <1>8 DEF FlowOK

\* A row of the same history, with or without its stage.
LEMMA FlowSame ==
  ASSUME NEW v, FlowGiven(v), NEW f \in FlowRows(v), NEW g, g.done = f.done, g.asked = f.asked,
         f.life \notin {"completed", "cancelled"}
  PROVE  Follows(v, f, g)
<1>1. f.done = f.done \o << >> /\ << >> \in Seq(Results)
  BY DEF FlowRows
<1> QED
  BY <1>1 DEF Follows

\* An attempt has its result.
LEMMA FlowAdvances ==
  ASSUME NEW v, FlowGiven(v), NEW agreed \in BOOLEAN, FlowOK(v, flow, agreed),
         flow.inFlight # None,
         NEW life,
         life = IF flow.stage = v.execution THEN "awaiting_approval"
                ELSE IF flow.stage = v.stages THEN "completed" ELSE "running",
         NEW g, g = [flow EXCEPT
           !.life = life, !.stage = IF flow.stage = v.stages THEN 0 ELSE flow.stage + 1,
           !.inFlight = None,
           !.done = Append(@, [result |-> flow.version, attempt |-> flow.inFlight]),
           !.version = flow.version + 1]
  PROVE  FlowOK(v, g, agreed) /\ Follows(v, flow, g)
<1> DEFINE end == [result |-> flow.version, attempt |-> flow.inFlight]
<1>0. /\ flow.version \in Nat /\ flow.version # 0 /\ flow.life \in Lives
      /\ flow.stage \in 0..v.stages
      /\ flow.tries \in [1..v.stages -> Nat] /\ flow.attempts \in [1..v.stages -> Nat]
      /\ flow.asked \in [1..v.stages -> v.payloads \union {None}] /\ flow.resumes \in 0..v.resumes
      /\ flow.inFlight \in Nat \union {None} /\ flow.done \in Seq(Results)
      /\ flow.resumes \in Nat
  BY FlowFields, FlowAssumed DEF FlowOK
<1>1. /\ flow \in FlowRows(v) /\ flow.stage \in 1..v.stages /\ flow.life = "running"
      /\ flow.inFlight = flow.version /\ life \in Lives
  BY FlowAssumed DEF FlowOK, FlowRows, Placed, Lives
<1>2. end \in Results /\ end.result = end.attempt /\ flow.done \in Seq(Results)
  BY <1>1 DEF FlowRows, Results
<1> HIDE DEF end
<1>3. /\ Append(flow.done, end) \in Seq(Results)
      /\ Len(Append(flow.done, end)) = Len(flow.done) + 1
      /\ \A i \in 1..Len(flow.done) : Append(flow.done, end)[i] = flow.done[i]
      /\ Append(flow.done, end)[Len(flow.done) + 1] = end
      /\ Append(flow.done, end) = flow.done \o <<end>>
  BY <1>2, AppendProperties, AppendIsConcat
<1>4. /\ g.version = flow.version + 1 /\ g.life = life
      /\ g.stage = IF flow.stage = v.stages THEN 0 ELSE flow.stage + 1
      /\ g.tries = flow.tries /\ g.resumes = flow.resumes /\ g.done = Append(flow.done, end)
      /\ g.inFlight = None /\ g.attempts = flow.attempts /\ g.asked = flow.asked
  BY <1>1 DEF FlowRows, end
<1>11. g = [version |-> g.version, life |-> g.life, stage |-> g.stage, tries |-> g.tries,
            attempts |-> g.attempts, asked |-> g.asked, resumes |-> g.resumes,
            inFlight |-> g.inFlight, done |-> g.done]
  BY <1>1 DEF FlowRows, end
<1>10. g \in FlowRows(v)
  <2>1. /\ g.version \in Nat \ {0} /\ g.life \in Lives
        /\ g.inFlight \in Nat \union {None} /\ g.done \in Seq(Results)
    BY <1>0, <1>1, <1>3, <1>4
  <2>3. g.stage \in 0..v.stages
    <3>1. /\ flow.stage \in 1..v.stages
          /\ g.stage = IF flow.stage = v.stages THEN 0 ELSE flow.stage + 1
      BY <1>1, <1>4
    <3> QED
      BY <3>1, FlowNumbers
  <2>2. /\ g.attempts \in [1..v.stages -> Nat]
        /\ g.asked \in [1..v.stages -> v.payloads \union {None}]
        /\ g.tries \in [1..v.stages -> Nat] /\ g.resumes \in 0..v.resumes
    BY <1>1, <1>4 DEF FlowRows
  <2> QED
    BY <1>11, <2>1, <2>2, <2>3 DEF FlowRows
<1>5. Placed(g)
  <2>1. Len(flow.done) = flow.stage - 1 /\ flow.stage # 0
    BY <1>1 DEF FlowOK, Placed
  <2>2. g.stage # 0 <=> g.life \in {"running", "awaiting_approval", "failed"}
    BY <1>0, <1>1, <1>4, FlowAssumed
  <2>3. g.stage # 0 => Len(g.done) = g.stage - 1
    BY <1>0, <1>1, <1>3, <1>4, <2>1, FlowAssumed
  <2> QED
    BY <1>4, <2>2, <2>3 DEF Placed
<1>6. OwnResults(g)
  <2>1. Len(flow.done) \in Nat
    BY <1>2
  <2> QED
    BY <1>2, <1>3, <1>4, <2>1 DEF FlowOK, OwnResults
<1>7. Spent(v, g)
  <2>2. /\ \A s \in 1..v.stages : flow.attempts[s] <= 1 + v.retries + flow.resumes
        /\ flow.stage # 0 =>
             \A s \in 1..v.stages : s > flow.stage => flow.attempts[s] = 0 /\ flow.tries[s] = 0
    BY DEF FlowOK, Spent
  <2>1. flow.stage # 0
    BY <1>1, FlowAssumed
  <2>3. g.stage # 0 => g.stage \in 1..v.stages /\ g.stage = flow.stage + 1
    <3>1. /\ flow.stage \in 1..v.stages
          /\ g.stage = IF flow.stage = v.stages THEN 0 ELSE flow.stage + 1
      BY <1>1, <1>4
    <3> QED
      BY <3>1, FlowNumbers
  <2>4. g.stage # 0 => g.attempts[g.stage] = 0 /\ g.tries[g.stage] = 0
    BY <1>0, <1>4, <2>1, <2>2, <2>3
  <2>5. \A s \in 1..v.stages : g.stage # 0 /\ s > g.stage => g.attempts[s] = 0 /\ g.tries[s] = 0
    BY <1>0, <1>4, <2>1, <2>2, <2>3
  <2>6. \A s \in 1..v.stages : g.attempts[s] <= 1 + v.retries + g.resumes
    BY <1>4, <2>2
  <2>7. g.life # "failed"
    BY <1>4
  <2> QED
    BY <1>0, <1>4, <2>4, <2>5, <2>6, <2>7, FlowAssumed DEF Spent
<1>8. Agreed(v, g, agreed)
  BY <1>1, <1>4, FlowAssumed DEF FlowOK, Agreed, FlowRows
<1>9. Follows(v, flow, g)
  <2>1. <<end>> \in Seq(Results)
    BY <1>2
  <2> QED
    BY <1>1, <1>2, <1>3, <1>4, <2>1 DEF Follows
<1> QED
  BY <1>5, <1>6, <1>7, <1>8, <1>9, <1>10 DEF FlowOK

\* An attempt has failed, or its lease has run out.
LEMMA FlowFails ==
  ASSUME NEW v, FlowGiven(v), NEW agreed \in BOOLEAN, FlowOK(v, flow, agreed),
         flow.inFlight # None,
         NEW life,
         life = IF flow.tries[flow.stage] + 1 > v.retries THEN "failed" ELSE flow.life,
         NEW g, g = [flow EXCEPT !.tries[flow.stage] = @ + 1, !.life = life,
                                 !.inFlight = None, !.version = flow.version + 1]
  PROVE  FlowOK(v, g, agreed) /\ Follows(v, flow, g)
<1>0. /\ flow.version \in Nat /\ flow.version # 0 /\ flow.life \in Lives
      /\ flow.stage \in 0..v.stages
      /\ flow.tries \in [1..v.stages -> Nat] /\ flow.attempts \in [1..v.stages -> Nat]
      /\ flow.asked \in [1..v.stages -> v.payloads \union {None}] /\ flow.resumes \in 0..v.resumes
      /\ flow.inFlight \in Nat \union {None} /\ flow.done \in Seq(Results)
      /\ flow.resumes \in Nat
  BY FlowFields, FlowAssumed DEF FlowOK
<1>1. /\ flow \in FlowRows(v) /\ flow.stage \in 1..v.stages /\ flow.life = "running"
      /\ life \in {"running", "failed"}
  BY <1>0, FlowAssumed DEF FlowOK, FlowRows, Placed, Lives
<1>2. /\ g.version = flow.version + 1 /\ g.life = life /\ g.stage = flow.stage
      /\ g.tries = [flow.tries EXCEPT ![flow.stage] = @ + 1] /\ g.resumes = flow.resumes
      /\ g.done = flow.done /\ g.inFlight = None /\ g.attempts = flow.attempts
      /\ g.asked = flow.asked
  BY <1>1 DEF FlowRows
<1>3. g = [version |-> g.version, life |-> g.life, stage |-> g.stage, tries |-> g.tries,
           attempts |-> g.attempts, asked |-> g.asked, resumes |-> g.resumes,
           inFlight |-> g.inFlight, done |-> g.done]
  BY <1>1 DEF FlowRows
<1>4. flow.tries[flow.stage] \in Nat /\ flow.attempts[flow.stage] \in Nat
  BY <1>0, <1>1
<1>5. g \in FlowRows(v)
  <2>1. g.tries \in [1..v.stages -> Nat]
    BY <1>0, <1>1, <1>2, <1>4
  <2>2. /\ g.version \in Nat \ {0} /\ g.life \in Lives /\ g.stage \in 0..v.stages
        /\ g.inFlight \in Nat \union {None} /\ g.done \in Seq(Results)
        /\ g.attempts \in [1..v.stages -> Nat]
        /\ g.asked \in [1..v.stages -> v.payloads \union {None}]
        /\ g.resumes \in 0..v.resumes
    BY <1>0, <1>1, <1>2 DEF Lives
  <2> QED
    BY <1>3, <2>1, <2>2 DEF FlowRows
<1>6. \A s \in 1..v.stages :
        g.tries[s] = IF s = flow.stage THEN flow.tries[s] + 1 ELSE flow.tries[s]
  BY <1>1, <1>2 DEF FlowRows
<1>7. Placed(g) /\ OwnResults(g)
  BY <1>0, <1>1, <1>2 DEF FlowOK, Placed, OwnResults
<1>8. Spent(v, g)
  <2>1. /\ flow.stage # 0 /\ flow.inFlight # None /\ flow.life # "failed"
    BY <1>1, FlowNumbers
  <2>2. /\ flow.attempts[flow.stage] = flow.tries[flow.stage] + 1
        /\ flow.tries[flow.stage] <= v.retries + flow.resumes + 0
        /\ \A s \in 1..v.stages : flow.attempts[s] <= 1 + v.retries + flow.resumes
        /\ \A s \in 1..v.stages : s > flow.stage => flow.attempts[s] = 0 /\ flow.tries[s] = 0
    BY <2>1 DEF FlowOK, Spent
  <2>3. /\ g.tries[g.stage] = flow.tries[flow.stage] + 1
        /\ g.attempts[g.stage] = flow.attempts[flow.stage]
    BY <1>1, <1>2, <1>6
  <2>4. g.tries[g.stage] <= v.retries + g.resumes + (IF g.life = "failed" THEN 1 ELSE 0)
    <3>1. CASE flow.tries[flow.stage] + 1 > v.retries
      <4>1. g.life = "failed"
        BY <1>2, <3>1
      <4> QED
        BY <1>0, <1>2, <1>4, <2>2, <2>3, <4>1, FlowNumbers
    <3>2. CASE ~(flow.tries[flow.stage] + 1 > v.retries)
      <4>1. g.life # "failed"
        BY <1>1, <1>2, <3>2
      <4> QED
        BY <1>0, <1>2, <1>4, <2>3, <3>2, <4>1, FlowNumbers
    <3> QED
      BY <3>1, <3>2
  <2>5. \A s \in 1..v.stages : s > g.stage => g.attempts[s] = 0 /\ g.tries[s] = 0
    BY <1>1, <1>2, <1>6, <2>2
  <2>6. \A s \in 1..v.stages : g.attempts[s] <= 1 + v.retries + g.resumes
    BY <1>2, <2>2
  <2>7. g.attempts[g.stage] = g.tries[g.stage] + (IF g.inFlight # None THEN 1 ELSE 0)
    BY <1>2, <1>4, <2>2, <2>3
  <2> QED
    BY <2>4, <2>5, <2>6, <2>7 DEF Spent
<1>9. Agreed(v, g, agreed)
  BY <1>1, <1>2 DEF FlowOK, Agreed
<1>10. Follows(v, flow, g)
  BY <1>1, <1>2, FlowSame
<1> QED
  BY <1>5, <1>7, <1>8, <1>9, <1>10 DEF FlowOK

\* A workflow is approved, resumed or cancelled.
LEMMA FlowMoves ==
  ASSUME NEW v, FlowGiven(v), NEW agreed \in BOOLEAN, FlowOK(v, flow, agreed),
         NEW life, NEW stage, NEW resumes, NEW inFlight,
         \/ /\ flow.life = "awaiting_approval" /\ agreed
            /\ life = "running" /\ stage = flow.stage /\ resumes = flow.resumes
            /\ inFlight = flow.inFlight
         \/ /\ flow.life = "failed" /\ flow.resumes < v.resumes
            /\ life = "running" /\ stage = flow.stage /\ resumes = flow.resumes + 1
            /\ inFlight = flow.inFlight
         \/ /\ flow.life \notin {"completed", "cancelled"}
            /\ life = "cancelled" /\ stage = 0 /\ resumes = flow.resumes /\ inFlight = None,
         NEW g, g = [flow EXCEPT !.life = life, !.stage = stage, !.resumes = resumes,
                                 !.inFlight = inFlight, !.version = flow.version + 1]
  PROVE  FlowOK(v, g, agreed) /\ Follows(v, flow, g)
<1>0. /\ flow.version \in Nat /\ flow.version # 0 /\ flow.life \in Lives
      /\ flow.stage \in 0..v.stages
      /\ flow.tries \in [1..v.stages -> Nat] /\ flow.attempts \in [1..v.stages -> Nat]
      /\ flow.asked \in [1..v.stages -> v.payloads \union {None}] /\ flow.resumes \in 0..v.resumes
      /\ flow.inFlight \in Nat \union {None} /\ flow.done \in Seq(Results)
      /\ flow.resumes \in Nat
  BY FlowFields, FlowAssumed DEF FlowOK
<1>1. flow \in FlowRows(v) /\ flow.life \notin {"completed", "cancelled"} /\ inFlight = None
  BY DEF FlowOK, Placed
<1>2. /\ g.version = flow.version + 1 /\ g.life = life /\ g.stage = stage
      /\ g.tries = flow.tries /\ g.resumes = resumes
      /\ g.done = flow.done /\ g.inFlight = None /\ g.attempts = flow.attempts
      /\ g.asked = flow.asked
  BY <1>1 DEF FlowRows
<1>3. g = [version |-> g.version, life |-> g.life, stage |-> g.stage, tries |-> g.tries,
           attempts |-> g.attempts, asked |-> g.asked, resumes |-> g.resumes,
           inFlight |-> g.inFlight, done |-> g.done]
  BY <1>1 DEF FlowRows
<1>4. /\ life \in Lives /\ stage \in 0..v.stages /\ resumes \in 0..v.resumes
      /\ resumes \in Nat /\ resumes >= flow.resumes
  BY <1>0, FlowNumbers DEF Lives
<1>5. g \in FlowRows(v)
  <2>1. g.version \in Nat \ {0} /\ g.inFlight \in Nat \union {None} /\ g.done \in Seq(Results)
    BY <1>0, <1>2
  <2> QED
    BY <1>0, <1>2, <1>3, <1>4, <2>1 DEF FlowRows
<1>6. /\ stage # 0 => flow.stage = stage /\ flow.life \in {"awaiting_approval", "failed"}
      /\ stage # 0 => life = "running" /\ flow.stage # 0
      /\ stage = 0 => life = "cancelled"
  BY DEF FlowOK, Placed
<1>7. Placed(g) /\ OwnResults(g)
  BY <1>1, <1>2, <1>6 DEF FlowOK, Placed, OwnResults
<1>8. Spent(v, g)
  <2>1. \A s \in 1..v.stages : g.attempts[s] <= 1 + v.retries + g.resumes
    <3> SUFFICES ASSUME NEW s \in 1..v.stages PROVE g.attempts[s] <= 1 + v.retries + g.resumes
      OBVIOUS
    <3>1. flow.attempts[s] \in Nat /\ flow.attempts[s] <= 1 + v.retries + flow.resumes
      BY <1>0 DEF FlowOK, Spent
    <3>2. flow.resumes \in Nat /\ g.resumes \in Nat /\ g.resumes >= flow.resumes
      BY <1>0, <1>2, <1>4
    <3>3. g.attempts[s] = flow.attempts[s]
      BY <1>2
    <3> QED
      BY <3>1, <3>2, <3>3, FlowNumbers
  <2>2. ASSUME stage # 0
        PROVE  /\ g.attempts[g.stage] = g.tries[g.stage]
               /\ g.tries[g.stage] <= v.retries + g.resumes
               /\ \A s \in 1..v.stages : s > g.stage => g.attempts[s] = 0 /\ g.tries[s] = 0
    <3>1. flow.stage \in 1..v.stages /\ flow.tries[flow.stage] \in Nat
          /\ flow.attempts[flow.stage] \in Nat
      BY <1>0, <1>6, <2>2, FlowNumbers
    <3>2. flow.inFlight = None
      BY <1>6, <2>2 DEF FlowOK, Placed
    <3>3. /\ flow.attempts[flow.stage] = flow.tries[flow.stage] + 0
          /\ flow.tries[flow.stage] <=
               v.retries + flow.resumes + (IF flow.life = "failed" THEN 1 ELSE 0)
          /\ \A s \in 1..v.stages : s > flow.stage => flow.attempts[s] = 0 /\ flow.tries[s] = 0
      BY <1>6, <2>2, <3>2 DEF FlowOK, Spent
    <3>4. flow.life = "failed" => resumes = flow.resumes + 1
      BY <1>6, <2>2
    <3>5. flow.tries[flow.stage] <= v.retries + resumes
      BY <1>0, <1>4, <3>1, <3>3, <3>4, FlowNumbers
    <3> QED
      BY <1>2, <1>6, <2>2, <3>1, <3>3, <3>5
  <2>3. stage # 0 => g.tries[g.stage] \in Nat /\ g.life # "failed"
    BY <1>0, <1>2, <1>6, FlowNumbers
  <2> QED
    BY <1>2, <1>4, <2>1, <2>2, <2>3, FlowNumbers DEF Spent
<1>9. Agreed(v, g, agreed)
  BY <1>0, <1>2, <1>6, FlowAssumed DEF FlowOK, Agreed
<1>10. Follows(v, flow, g)
  BY <1>1, <1>2, FlowSame
<1> QED
  BY <1>5, <1>7, <1>8, <1>9, <1>10 DEF FlowOK

LEMMA FlowStays ==
  ASSUME NEW v, FlowGiven(v), NEW f, NEW agreed \in BOOLEAN, FlowOK(v, f, agreed)
  PROVE  FlowOK(v, f, TRUE) /\ Follows(v, f, f)
<1>1. f.done = f.done \o << >> /\ << >> \in Seq(Results)
  BY DEF FlowOK, FlowRows
<1> QED
  BY <1>1 DEF FlowOK, Agreed, Follows

FlowStagers(v) ==
  [phase: {"idle", "calling", "finished", "failing"}, stage: 1..v.stages,
   version: Nat, next: Nat]
FlowUsers == [step: {"idle", "asking", "saving"}, version: Nat]

FlowTyped(v) ==
  /\ lapsed \in BOOLEAN /\ current \in BOOLEAN /\ consent \in BOOLEAN
  /\ made \in [1..v.stages -> Nat]
  /\ execution \in {"none", "pending", "approved", "cancelled"}
  /\ stager \in [v.callers -> FlowStagers(v)]
  /\ user \in [{"approver", "canceller"} -> FlowUsers]

\* An approval is saved after the execution's engine has recorded it.
FlowInv(v) ==
  /\ FlowOK(v, flow, consent) /\ FlowTyped(v)
  /\ user["approver"].step = "saving" => consent

\* What a step does to the row, and to all else.
RowGoesOn(v) == FlowOK(v, flow', consent') /\ Follows(v, flow, flow')
RestGoesOn(v) == FlowTyped(v)' /\ (user'["approver"].step = "saving" => consent')

LEMMA FlowUnsaved ==
  ASSUME NEW v, FlowGiven(v), FlowInv(v), UNCHANGED flow, consent' \in BOOLEAN,
         consent => consent'
  PROVE  RowGoesOn(v)
<1>1. FlowOK(v, flow, consent') /\ Follows(v, flow, flow)
  <2>1. consent \in BOOLEAN /\ FlowOK(v, flow, consent)
    BY DEF FlowInv, FlowTyped
  <2> QED
    BY <2>1, FlowStays DEF FlowOK, Agreed
<1> QED
  BY <1>1 DEF RowGoesOn

LEMMA StageSaves ==
  ASSUME NEW v, FlowGiven(v), FlowInv(v), UNCHANGED consent,
         \/ \E c \in v.callers, p \in v.payloads : Flow(v)!Begin(c, p)
         \/ \E c \in v.callers : Flow(v)!Fenced(c) /\ Flow(v)!Checkpoint(c)
         \/ flow.inFlight # None /\ Flow(v)!Save(Flow(v)!Failed)
  PROVE  RowGoesOn(v)
<1>1. consent \in BOOLEAN /\ FlowOK(v, flow, consent) /\ flow \in FlowRows(v)
  BY DEF FlowInv, FlowTyped, FlowOK
<1>2. ASSUME NEW c \in v.callers, NEW p \in v.payloads, Flow(v)!Begin(c, p)
      PROVE  RowGoesOn(v)
  <2>1. /\ flow.life = "running" /\ flow.inFlight = None
        /\ flow.asked[flow.stage] \in {p, None}
    BY <1>2 DEF Flow!Begin, Flow!Beginnable, Flow!MayReplay
  <2>2. flow' = [flow EXCEPT !.inFlight = flow.version + 1, !.asked[flow.stage] = p,
                             !.attempts[flow.stage] = @ + 1, !.version = flow.version + 1]
    BY <1>1, <1>2 DEF Flow!Begin, Flow!Save, FlowRows
  <2> QED
    BY <1>1, <2>1, <2>2, FlowBegins DEF RowGoesOn
<1>3. ASSUME NEW c \in v.callers, Flow(v)!Fenced(c), Flow(v)!Checkpoint(c) PROVE RowGoesOn(v)
  <2> DEFINE life == IF flow.stage = v.execution THEN "awaiting_approval"
                     ELSE IF flow.stage = v.stages THEN "completed" ELSE "running"
  <2>1. flow.inFlight # None /\ stager[c].version = flow.version
    BY <1>3 DEF Flow!Fenced
  <2>2. flow' = [flow EXCEPT
           !.life = life, !.stage = IF flow.stage = v.stages THEN 0 ELSE flow.stage + 1,
           !.inFlight = None,
           !.done = Append(@, [result |-> flow.version, attempt |-> flow.inFlight]),
           !.version = flow.version + 1]
    BY <1>1, <1>3, <2>1 DEF Flow!Checkpoint, Flow!Save, FlowRows
  <2>3. life = IF flow.stage = v.execution THEN "awaiting_approval"
                ELSE IF flow.stage = v.stages THEN "completed" ELSE "running"
    OBVIOUS
  <2> HIDE DEF life
  <2> QED
    BY <1>1, <2>1, <2>2, <2>3, FlowAdvances DEF RowGoesOn
<1>4. ASSUME flow.inFlight # None, Flow(v)!Save(Flow(v)!Failed) PROVE RowGoesOn(v)
  <2> DEFINE life == IF flow.tries[flow.stage] + 1 > v.retries THEN "failed" ELSE flow.life
  <2>1. flow' = [flow EXCEPT !.tries[flow.stage] = @ + 1, !.life = life,
                             !.inFlight = None, !.version = flow.version + 1]
    BY <1>1, <1>4 DEF Flow!Failed, Flow!Exhausted, Flow!Save, FlowRows
  <2>2. life = IF flow.tries[flow.stage] + 1 > v.retries THEN "failed" ELSE flow.life
    OBVIOUS
  <2> HIDE DEF life
  <2> QED
    BY <1>1, <1>4, <2>1, <2>2, FlowFails DEF RowGoesOn
<1> QED
  BY <1>2, <1>3, <1>4

LEMMA UserSaves ==
  ASSUME NEW v, FlowGiven(v), FlowInv(v), UNCHANGED consent,
         \/ /\ user["approver"].step = "saving" /\ flow.life = "awaiting_approval"
            /\ Flow(v)!Save([flow EXCEPT !.life = "running"])
         \/ /\ flow.life \notin {"completed", "cancelled"}
            /\ Flow(v)!Save([flow EXCEPT !.life = "cancelled", !.stage = 0, !.inFlight = None])
         \/ /\ flow.life = "failed" /\ flow.resumes < v.resumes
            /\ Flow(v)!Save([flow EXCEPT !.life = "running", !.resumes = @ + 1])
  PROVE  RowGoesOn(v)
<1>1. consent \in BOOLEAN /\ FlowOK(v, flow, consent) /\ flow \in FlowRows(v)
  BY DEF FlowInv, FlowTyped, FlowOK
<1>2. CASE user["approver"].step = "saving" /\ flow.life = "awaiting_approval"
           /\ Flow(v)!Save([flow EXCEPT !.life = "running"])
  <2>1. flow' = [flow EXCEPT !.life = "running", !.stage = flow.stage, !.resumes = flow.resumes,
                             !.inFlight = flow.inFlight, !.version = flow.version + 1]
    BY <1>1, <1>2 DEF Flow!Save, FlowRows
  <2>2. consent
    BY <1>2 DEF FlowInv
  <2> QED
    BY <1>1, <1>2, <2>1, <2>2, FlowMoves DEF RowGoesOn
<1>3. CASE /\ flow.life \notin {"completed", "cancelled"}
           /\ Flow(v)!Save([flow EXCEPT !.life = "cancelled", !.stage = 0, !.inFlight = None])
  <2>1. flow' = [flow EXCEPT !.life = "cancelled", !.stage = 0, !.resumes = flow.resumes,
                             !.inFlight = None, !.version = flow.version + 1]
    BY <1>1, <1>3 DEF Flow!Save, FlowRows
  <2> QED
    BY <1>1, <1>3, <2>1, FlowMoves DEF RowGoesOn
<1>4. CASE /\ flow.life = "failed" /\ flow.resumes < v.resumes
           /\ Flow(v)!Save([flow EXCEPT !.life = "running", !.resumes = @ + 1])
  <2>1. flow' = [flow EXCEPT !.life = "running", !.stage = flow.stage,
                             !.resumes = flow.resumes + 1,
                             !.inFlight = flow.inFlight, !.version = flow.version + 1]
    BY <1>1, <1>4 DEF Flow!Save, FlowRows
  <2> QED
    BY <1>1, <1>4, <2>1, FlowMoves DEF RowGoesOn
<1> QED
  BY <1>2, <1>3, <1>4


\* What a caller turns to.
LEMMA StagersGoOn ==
  ASSUME NEW v, FlowGiven(v), FlowTyped(v), NEW c \in v.callers,
         \/ Flow(v)!Stop(c)
         \/ \E at \in {"calling", "finished", "failing"} :
              stager' = [stager EXCEPT ![c].phase = at, ![c].next = @ + 1]
         \/ \E stage \in 1..v.stages, begun \in Nat :
              stager' = [stager EXCEPT ![c] =
                [phase |-> "calling", stage |-> stage, version |-> begun, next |-> 1]]
         \/ UNCHANGED stager
  PROVE  stager' \in [v.callers -> FlowStagers(v)]
<1>1. Flow(v)!Idle \in FlowStagers(v) /\ stager \in [v.callers -> FlowStagers(v)]
  BY FlowAssumed DEF FlowTyped, FlowStagers, Flow!Idle
<1>2. ASSUME NEW at \in {"calling", "finished", "failing"},
             stager' = [stager EXCEPT ![c].phase = at, ![c].next = @ + 1]
      PROVE  stager' \in [v.callers -> FlowStagers(v)]
  <2> DEFINE row == [phase |-> at, stage |-> stager[c].stage, version |-> stager[c].version,
                     next |-> stager[c].next + 1]
  <2>1. row \in FlowStagers(v)
    BY <1>1 DEF FlowStagers
  <2>2. stager' = [stager EXCEPT ![c] = row]
    BY <1>1, <1>2 DEF FlowStagers
  <2> HIDE DEF row
  <2> QED
    BY <1>1, <2>1, <2>2
<1>3. ASSUME NEW stage \in 1..v.stages, NEW begun \in Nat,
             stager' = [stager EXCEPT ![c] =
               [phase |-> "calling", stage |-> stage, version |-> begun, next |-> 1]]
      PROVE  stager' \in [v.callers -> FlowStagers(v)]
  <2>1. [phase |-> "calling", stage |-> stage, version |-> begun, next |-> 1] \in FlowStagers(v)
    BY DEF FlowStagers
  <2> QED
    BY <1>1, <1>3, <2>1
<1> QED
  BY <1>1, <1>2, <1>3 DEF Flow!Stop

LEMMA StageSteps ==
  ASSUME NEW v, FlowGiven(v), FlowInv(v),
         \/ Flow(v)!StageStep \/ Flow(v)!Expire \/ Flow(v)!Recover \/ Flow(v)!Publish
  PROVE  RowGoesOn(v) /\ RestGoesOn(v)
<1>0. FlowTyped(v) /\ flow \in FlowRows(v) /\ (user["approver"].step = "saving" => consent)
  BY DEF FlowInv, FlowOK
<1>1. ASSUME NEW c \in v.callers, NEW p \in v.payloads, Flow(v)!Begin(c, p)
      PROVE  RowGoesOn(v) /\ RestGoesOn(v)
  <2>1. RowGoesOn(v)
    BY <1>1, StageSaves DEF Flow!Begin, Flow!engines
  <2>2. flow.stage \in 1..v.stages /\ flow.version + 1 \in Nat
    BY <1>0, <1>1, FlowAssumed DEF FlowInv, FlowOK, FlowRows, Placed, Flow!Begin, Flow!Beginnable
  <2>3. stager' \in [v.callers -> FlowStagers(v)]
    BY <1>0, <1>1, <2>2, StagersGoOn DEF Flow!Begin
  <2>4. lapsed' = FALSE /\ UNCHANGED <<current, made, execution, consent, user>>
    BY <1>1 DEF Flow!Begin, Flow!engines
  <2> QED
    BY <1>0, <2>1, <2>3, <2>4 DEF RestGoesOn, FlowTyped
<1>2. ASSUME NEW c \in v.callers, Flow(v)!Call(c) PROVE RowGoesOn(v) /\ RestGoesOn(v)
  <2>1. UNCHANGED <<flow, lapsed, current, consent, user>>
    BY <1>2 DEF Flow!Call
  <2>2. RowGoesOn(v)
    BY <1>0, <2>1, FlowUnsaved DEF FlowTyped
  <2>3. stager' \in [v.callers -> FlowStagers(v)]
    BY <1>0, <1>2, StagersGoOn DEF Flow!Call
  <2>4. /\ made' \in [1..v.stages -> Nat]
        /\ execution' \in {"none", "pending", "approved", "cancelled"}
    <3>1. stager[c].stage \in 1..v.stages /\ stager[c].next \in Nat
      BY <1>0 DEF FlowTyped, FlowStagers
    <3> QED
      BY <1>0, <1>2, <3>1 DEF FlowTyped, Flow!Call, Flow!TakesEffect
  <2> QED
    BY <1>0, <2>1, <2>2, <2>3, <2>4 DEF RestGoesOn, FlowTyped
<1>3. ASSUME NEW c \in v.callers, Flow(v)!Complete(c) \/ Flow(v)!FailStage(c) \/ Flow(v)!Crash(c)
      PROVE  RowGoesOn(v) /\ RestGoesOn(v)
  <2>1. Flow(v)!Stop(c) /\ UNCHANGED <<lapsed, current, made, execution, consent, user>>
    BY <1>3 DEF Flow!Complete, Flow!FailStage, Flow!Crash, Flow!engines
  <2>2. \/ Flow(v)!Fenced(c) /\ Flow(v)!Checkpoint(c)
        \/ flow.inFlight # None /\ Flow(v)!Save(Flow(v)!Failed)
        \/ UNCHANGED flow
    BY <1>3 DEF Flow!Complete, Flow!FailStage, Flow!Crash, Flow!Fenced
  <2>3. RowGoesOn(v)
    BY <1>0, <2>1, <2>2, StageSaves, FlowUnsaved DEF FlowTyped
  <2>4. stager' \in [v.callers -> FlowStagers(v)]
    BY <1>0, <2>1, StagersGoOn
  <2> QED
    BY <1>0, <2>1, <2>3, <2>4 DEF RestGoesOn, FlowTyped
<1>4. CASE Flow(v)!Expire \/ Flow(v)!Publish
  <2>1. /\ lapsed' \in BOOLEAN /\ current' \in BOOLEAN
        /\ UNCHANGED <<flow, made, execution, consent, stager, user>>
    BY <1>0, <1>4 DEF FlowTyped, Flow!Expire, Flow!Publish, Flow!engines
  <2>2. RowGoesOn(v)
    BY <1>0, <2>1, FlowUnsaved DEF FlowTyped
  <2> QED
    BY <1>0, <2>1, <2>2 DEF RestGoesOn, FlowTyped
<1>5. CASE Flow(v)!Recover
  <2>1. UNCHANGED <<lapsed, current, made, execution, consent, stager, user>>
    BY <1>5 DEF Flow!Recover, Flow!engines
  <2>2. RowGoesOn(v)
    BY <1>5, <2>1, StageSaves DEF Flow!Recover
  <2> QED
    BY <1>0, <2>1, <2>2 DEF RestGoesOn, FlowTyped
<1> QED
  BY <1>1, <1>2, <1>3, <1>4, <1>5 DEF Flow!StageStep

LEMMA UserSteps ==
  ASSUME NEW v, FlowGiven(v), FlowInv(v), Flow(v)!UserStep
  PROVE  RowGoesOn(v) /\ RestGoesOn(v)
<1>0. /\ FlowTyped(v) /\ flow \in FlowRows(v) /\ (user["approver"].step = "saving" => consent)
      /\ flow.version \in Nat
  BY DEF FlowInv, FlowOK, FlowRows
<1>1. ASSUME NEW u \in {"approver", "canceller"}, NEW row \in FlowUsers,
             user' = [user EXCEPT ![u] = row],
             u = "approver" /\ row.step = "saving" => consent',
             UNCHANGED <<lapsed, current, made, stager>>,
             execution' \in {"none", "pending", "approved", "cancelled"},
             consent' \in BOOLEAN, consent => consent'
      PROVE  RestGoesOn(v)
  <2>1. user' \in [{"approver", "canceller"} -> FlowUsers]
    BY <1>0, <1>1 DEF FlowTyped
  <2>2. user'["approver"].step = "saving" => consent'
    BY <1>0, <1>1 DEF FlowTyped
  <2> QED
    BY <1>0, <1>1, <2>1, <2>2 DEF RestGoesOn, FlowTyped
<1>2. \A u \in {"approver", "canceller"}, step \in {"idle", "asking", "saving"} :
        /\ [step |-> step, version |-> flow.version] \in FlowUsers
        /\ [step |-> "idle", version |-> 0] \in FlowUsers
        /\ Flow(v)!Keep(u, step) =>
             user' = [user EXCEPT ![u] = [step |-> step, version |-> user[u].version]]
        /\ [step |-> step, version |-> user[u].version] \in FlowUsers
  BY <1>0 DEF FlowUsers, FlowTyped, Flow!Keep
<1>3. CASE Flow(v)!AskApproval
  <2>1. /\ user' = [user EXCEPT !["approver"] = [step |-> "asking", version |-> flow.version]]
        /\ UNCHANGED <<flow, lapsed, current, made, execution, consent, stager>>
    BY <1>3 DEF Flow!AskApproval, Flow!Move, Flow!others
  <2> QED
    BY <1>0, <1>1, <1>2, <2>1, FlowUnsaved DEF FlowTyped
<1>4. CASE Flow(v)!ApproveExecution
  <2>1. /\ user' = [user EXCEPT !["approver"] =
                      [step |-> "saving", version |-> user["approver"].version]]
        /\ consent' = TRUE
        /\ execution' \in {execution, "approved"}
        /\ UNCHANGED <<flow, lapsed, current, made, stager>>
    BY <1>2, <1>4 DEF Flow!ApproveExecution, Flow!others
  <2> QED
    BY <1>0, <1>1, <1>2, <2>1, FlowUnsaved DEF FlowTyped
<1>5. CASE Flow(v)!SaveApproval
  <2>1. /\ user' = [user EXCEPT !["approver"] = [step |-> "idle", version |-> 0]]
        /\ user["approver"].step = "saving"
        /\ UNCHANGED <<lapsed, current, made, execution, consent, stager>>
        /\ \/ flow.life = "awaiting_approval" /\ Flow(v)!Save([flow EXCEPT !.life = "running"])
           \/ UNCHANGED flow
    BY <1>5 DEF Flow!SaveApproval, Flow!End, Flow!others
  <2>2. RowGoesOn(v)
    BY <1>0, <2>1, FlowUnsaved, UserSaves DEF FlowTyped
  <2> QED
    BY <1>0, <1>1, <1>2, <2>1, <2>2 DEF FlowTyped
<1>6. CASE Flow(v)!AskCancellation
  <2>1. /\ \E step \in {"asking", "saving"} :
             user' = [user EXCEPT !["canceller"] = [step |-> step, version |-> flow.version]]
        /\ UNCHANGED <<flow, lapsed, current, made, execution, consent, stager>>
    BY <1>6 DEF Flow!AskCancellation, Flow!Move, Flow!others
  <2> QED
    BY <1>0, <1>1, <1>2, <2>1, FlowUnsaved DEF FlowTyped
<1>7. CASE Flow(v)!CancelExecution
  <2>1. /\ user' = [user EXCEPT !["canceller"] =
                      [step |-> "saving", version |-> user["canceller"].version]]
        /\ execution' = "cancelled"
        /\ UNCHANGED <<flow, lapsed, current, made, consent, stager>>
    BY <1>2, <1>7 DEF Flow!CancelExecution, Flow!others
  <2> QED
    BY <1>0, <1>1, <1>2, <2>1, FlowUnsaved DEF FlowTyped
<1>8. CASE Flow(v)!SaveCancellation
  <2>1. /\ user' = [user EXCEPT !["canceller"] = [step |-> "idle", version |-> 0]]
        /\ UNCHANGED <<lapsed, current, made, execution, consent, stager>>
        /\ \/ /\ flow.life \notin {"completed", "cancelled"}
              /\ Flow(v)!Save([flow EXCEPT !.life = "cancelled", !.stage = 0, !.inFlight = None])
           \/ UNCHANGED flow
    BY <1>8 DEF Flow!SaveCancellation, Flow!End, Flow!others
  <2>2. RowGoesOn(v)
    BY <1>0, <2>1, FlowUnsaved, UserSaves DEF FlowTyped
  <2> QED
    BY <1>0, <1>1, <1>2, <2>1, <2>2 DEF FlowTyped
<1>9. ASSUME NEW u \in {"approver", "canceller"}, Flow(v)!GiveUp(u)
      PROVE  RowGoesOn(v) /\ RestGoesOn(v)
  <2>1. /\ user' = [user EXCEPT ![u] = [step |-> "idle", version |-> 0]]
        /\ UNCHANGED <<flow, lapsed, current, made, execution, consent, stager>>
    BY <1>9 DEF Flow!GiveUp, Flow!End, Flow!others
  <2> QED
    BY <1>0, <1>1, <1>2, <2>1, FlowUnsaved DEF FlowTyped
<1>10. CASE Flow(v)!Resume
  <2>1. UNCHANGED <<lapsed, current, made, execution, consent, stager, user>>
    BY <1>10 DEF Flow!Resume, Flow!engines
  <2>2. RowGoesOn(v)
    BY <1>10, <2>1, UserSaves DEF Flow!Resume
  <2> QED
    BY <1>0, <2>1, <2>2 DEF RestGoesOn, FlowTyped
<1> QED
  BY <1>3, <1>4, <1>5, <1>6, <1>7, <1>8, <1>9, <1>10 DEF Flow!UserStep, Flow!Users

LEMMA FlowStep ==
  ASSUME NEW v, FlowGiven(v), FlowInv(v), Flow(v)!Next
  PROVE  FlowInv(v)' /\ Follows(v, flow, flow')
BY StageSteps, UserSteps DEF Flow!Next, RowGoesOn, RestGoesOn, FlowInv

LEMMA FlowBegin ==
  ASSUME NEW v, FlowGiven(v), Flow(v)!Init
  PROVE  FlowInv(v)
<1>1. flow \in FlowRows(v)
  BY FlowAssumed DEF Flow!Init, Flow!Stages, FlowRows, Lives, Results
<1>2. Placed(flow) /\ OwnResults(flow) /\ Agreed(v, flow, consent)
  BY FlowAssumed DEF Flow!Init, Flow!Stages, Placed, OwnResults, Agreed
<1>3. Spent(v, flow)
  BY FlowAssumed DEF Flow!Init, Flow!Stages, Spent
<1>4. FlowTyped(v)
  <2>1. Flow(v)!Idle \in FlowStagers(v) /\ [step |-> "idle", version |-> 0] \in FlowUsers
    BY FlowAssumed DEF Flow!Idle, FlowStagers, FlowUsers
  <2>2. stager \in [v.callers -> FlowStagers(v)]
    BY <2>1 DEF Flow!Init
  <2>3. user \in [{"approver", "canceller"} -> FlowUsers]
    BY <2>1 DEF Flow!Init, Flow!Users
  <2>4. made \in [1..v.stages -> Nat]
    BY DEF Flow!Init, Flow!Stages
  <2> QED
    BY <2>2, <2>3, <2>4 DEF Flow!Init, FlowTyped
<1>5. user["approver"].step # "saving"
  BY DEF Flow!Init, Flow!Users
<1> QED
  BY <1>1, <1>2, <1>3, <1>4, <1>5 DEF FlowInv, FlowOK

LEMMA FlowSays ==
  ASSUME NEW v, FlowGiven(v), FlowInv(v)
  PROVE  /\ Flow(v)!TypeOK /\ Flow(v)!ResultsOfTheirAttempt
         /\ Flow(v)!NothingUnapproved /\ Flow(v)!AttemptsBounded
<1>1. Flow(v)!TypeOK
  BY DEF FlowInv, FlowOK, FlowRows, Lives, Results, FlowTyped, FlowStagers, FlowUsers,
         Flow!TypeOK, Flow!Stages, Flow!Users
<1>2. Flow(v)!NothingUnapproved /\ Flow(v)!AttemptsBounded
  BY DEF FlowInv, FlowOK, Agreed, Spent, Flow!NothingUnapproved, Flow!AttemptsBounded,
         Flow!Stages
<1>3. Flow(v)!ResultsOfTheirAttempt
  BY DEF FlowInv, FlowOK, FlowRows, OwnResults, Flow!ResultsOfTheirAttempt
<1> QED
  BY <1>1, <1>2, <1>3

LEMMA FlowHistory ==
  ASSUME NEW v, FlowGiven(v), FlowInv(v), FlowInv(v)', Follows(v, flow, flow')
  PROVE  Flow(v)!HistoryStands
<1>1. flow.life \in {"completed", "cancelled"} => UNCHANGED flow
  BY DEF Follows
<1>2. SubSeq(flow'.done, 1, Len(flow.done)) = flow.done
  <2>1. PICK tail \in Seq(Results) : flow'.done = flow.done \o tail
    BY DEF Follows
  <2>2. flow.done \in Seq(Results) /\ Len(flow.done) \in Nat /\ Len(tail) \in Nat
    BY DEF FlowInv, FlowOK, FlowRows
  <2> DEFINE kept == SubSeq(flow'.done, 1, Len(flow.done))
  <2>3. /\ flow'.done \in Seq(Results)
        /\ Len(flow'.done) = Len(flow.done) + Len(tail)
        /\ \A i \in 1..Len(flow.done) : flow'.done[i] = flow.done[i]
    BY <2>1, <2>2, ConcatProperties
  <2>4. \A i \in 1..Len(flow.done) : flow'.done[i] \in Results
    BY <2>2, <2>3, ElementOfSeq
  <2>5. /\ kept \in Seq(Results) /\ Len(kept) = Len(flow.done)
        /\ \A i \in 1..Len(flow.done) : kept[i] = flow'.done[i]
    BY <2>2, <2>4, SubSeqProperties
  <2>6. \A i \in 1..Len(kept) : kept[i] = flow.done[i]
    BY <2>3, <2>5
  <2> HIDE DEF kept
  <2>7. kept = flow.done
    BY <2>2, <2>5, <2>6, SeqEqual
  <2> QED
    BY <2>7 DEF kept
<1>3. flow'.stage # 0 => Len(flow'.done) = flow'.stage - 1
  BY DEF FlowInv, FlowOK, Placed
<1>4. \A s \in 1..v.stages : flow.asked[s] # None => flow'.asked[s] = flow.asked[s]
  BY DEF Follows
<1> QED
  BY <1>1, <1>2, <1>3, <1>4 DEF Flow!HistoryStands, Flow!Stages

\* A step of a workflow, or of another part.
LEMMA FlowGoesOn ==
  ASSUME NEW v, FlowGiven(v), FlowInv(v), Flow(v)!Next \/ UNCHANGED workflowVars
  PROVE  FlowInv(v)' /\ Flow(v)!HistoryStands
<1>1. CASE Flow(v)!Next
  <2>1. FlowInv(v)' /\ Follows(v, flow, flow')
    BY <1>1, FlowStep
  <2> QED
    BY <2>1, FlowHistory
<1>2. CASE UNCHANGED workflowVars
  <2>1. FlowInv(v)'
    BY <1>2 DEF FlowInv, FlowTyped, workflowVars
  <2>2. Follows(v, flow, flow)
    BY FlowStays DEF FlowInv, FlowTyped
  <2>3. UNCHANGED flow
    BY <1>2 DEF workflowVars
  <2> QED
    BY <2>1, <2>2, <2>3, FlowHistory
<1> QED
  BY <1>1, <1>2

\* Any workflow, whatever its stages, callers, payloads and limits: a checkpoint
\* is of the attempt that was in flight, nothing after the execution is begun
\* unapproved, attempts are bounded, and ends, checkpoints and requests stand.
THEOREM AnyWorkflow ==
  ASSUME NEW v, Flow(v)!WorkflowAssumption
  PROVE  Flow(v)!Spec =>
           /\ [](/\ Flow(v)!TypeOK /\ Flow(v)!ResultsOfTheirAttempt
                /\ Flow(v)!NothingUnapproved /\ Flow(v)!AttemptsBounded)
           /\ [][Flow(v)!HistoryStands]_workflowVars
<1>1. FlowGiven(v)
  BY FlowGivenIs
<1>2. Flow(v)!Init => FlowInv(v)
  BY <1>1, FlowBegin
<1>3. FlowInv(v) /\ [Flow(v)!Next]_workflowVars => FlowInv(v)' /\ [Flow(v)!HistoryStands]_workflowVars
  BY <1>1, FlowGoesOn
<1>4. FlowInv(v) => /\ Flow(v)!TypeOK /\ Flow(v)!ResultsOfTheirAttempt
                   /\ Flow(v)!NothingUnapproved /\ Flow(v)!AttemptsBounded
  BY <1>1, FlowSays
<1>5. Flow(v)!Spec => Flow(v)!Init /\ [][Flow(v)!Next]_workflowVars
  BY DEF Flow!Spec, Flow!vars, workflowVars
<1> QED
  BY <1>2, <1>3, <1>4, <1>5, PTL

-----------------------------------------------------------------------------
(* The executions: those of the run are those of RepositoryExecutionProofs. *)

MemoryProofs == INSTANCE RepositoryExecutionProofs WITH
  Runs <- {"r"}, Units <- 1..3, Needs <- <<{}, {1}, {}>>, Durable <- FALSE,
  MaxAttempts <- 2, MaxActive <- 1, MaxLeases <- 2, Calls <- 1, AttemptBound <- 2
DurableProofs == INSTANCE RepositoryExecutionProofs WITH
  Runs <- {"r"}, Units <- 1..2, Needs <- <<{}, {1}>>, Durable <- TRUE,
  MaxAttempts <- 2, MaxActive <- 1, MaxLeases <- 2, Calls <- 1, AttemptBound <- 3
SharedProofs == INSTANCE RepositoryExecutionProofs WITH
  Runs <- {"r"}, Units <- 1..3, Needs <- <<{}, {}, {}>>, Durable <- TRUE,
  MaxAttempts <- 1, MaxActive <- 1, MaxLeases <- 1, Calls <- 2, AttemptBound <- 1

LEMMA MemorySame ==
  /\ MemoryProofs!ExecutionAssumption
  /\ Memory!Init => MemoryProofs!Init
  /\ MemoryProofs!OutputOfTheHolder => Memory!OutputOfTheHolder
  /\ MemoryProofs!LeasedUnitsHaveLeases => Memory!LeasedUnitsHaveLeases
  /\ MemoryProofs!PrerequisitesFirst => Memory!PrerequisitesFirst
  /\ MemoryProofs!ReadyUnitsHaveAttempts => Memory!ReadyUnitsHaveAttempts
  /\ MemoryProofs!EndedUnitsStay => Memory!EndedUnitsStay
  /\ MemoryProofs!EndedRunsStay => Memory!EndedRunsStay
<1>1. MemoryProofs!ExecutionAssumption
  BY EnginesAssumption
  DEF MemoryProofs!ExecutionAssumption, Memory!NeedsAssumption,
      MemoryProofs!NeedsAssumption, Memory!DurableAssumption,
      MemoryProofs!DurableAssumption, Memory!AttemptsAssumption,
      MemoryProofs!AttemptsAssumption, Memory!LeasesAssumption,
      MemoryProofs!LeasesAssumption
<1>2. Memory!Init => MemoryProofs!Init
  BY DEF Memory!Init, MemoryProofs!Init, Memory!NoRun, MemoryProofs!NoRun, Memory!Schedule,
         MemoryProofs!Schedule, Memory!Done, MemoryProofs!Done
<1>3. MemoryProofs!OutputOfTheHolder => Memory!OutputOfTheHolder
  BY DEF Memory!OutputOfTheHolder, MemoryProofs!OutputOfTheHolder, Memory!Done,
         MemoryProofs!Done
<1>4. MemoryProofs!LeasedUnitsHaveLeases => Memory!LeasedUnitsHaveLeases
  BY DEF Memory!LeasedUnitsHaveLeases, MemoryProofs!LeasedUnitsHaveLeases
<1>5. MemoryProofs!PrerequisitesFirst => Memory!PrerequisitesFirst
  BY DEF Memory!PrerequisitesFirst, MemoryProofs!PrerequisitesFirst, Memory!Done,
         MemoryProofs!Done
<1>6. MemoryProofs!ReadyUnitsHaveAttempts => Memory!ReadyUnitsHaveAttempts
  BY DEF Memory!ReadyUnitsHaveAttempts, MemoryProofs!ReadyUnitsHaveAttempts
<1>7. MemoryProofs!EndedUnitsStay => Memory!EndedUnitsStay
  BY DEF Memory!EndedUnitsStay, MemoryProofs!EndedUnitsStay, Memory!TerminalUnits,
         MemoryProofs!TerminalUnits
<1>8. MemoryProofs!EndedRunsStay => Memory!EndedRunsStay
  BY DEF Memory!EndedRunsStay, MemoryProofs!EndedRunsStay, Memory!TerminalRuns,
         MemoryProofs!TerminalRuns, Memory!Terminal, MemoryProofs!Terminal
<1> QED
  BY <1>1, <1>2, <1>3, <1>4, <1>5, <1>6, <1>7, <1>8

LEMMA MemoryNext == Memory!Next => MemoryProofs!Next
BY DEF Memory!TerminalRuns, MemoryProofs!TerminalRuns, Memory!TerminalUnits,
       MemoryProofs!TerminalUnits, Memory!Done, MemoryProofs!Done, Memory!Schedule,
       MemoryProofs!Schedule, Memory!Refreshed, MemoryProofs!Refreshed, Memory!Exists,
       MemoryProofs!Exists, Memory!Terminal, MemoryProofs!Terminal, Memory!Active,
       MemoryProofs!Active, Memory!LiveLeases, MemoryProofs!LiveLeases, Memory!Create,
       MemoryProofs!Create, Memory!Approve, MemoryProofs!Approve, Memory!Stopped,
       MemoryProofs!Stopped, Memory!Reject, MemoryProofs!Reject, Memory!Stop,
       MemoryProofs!Stop, Memory!Leasable, MemoryProofs!Leasable, Memory!LeaseOverdue,
       MemoryProofs!LeaseOverdue, Memory!CountLeases, MemoryProofs!CountLeases,
       Memory!LeaseNone, MemoryProofs!LeaseNone, Memory!Counted, MemoryProofs!Counted,
       Memory!LeaseNext, MemoryProofs!LeaseNext, Memory!Fenced, MemoryProofs!Fenced,
       Memory!Heartbeat, MemoryProofs!Heartbeat, Memory!PublishOutput,
       MemoryProofs!PublishOutput, Memory!SubmitReview, MemoryProofs!SubmitReview,
       Memory!GivenUp, MemoryProofs!GivenUp, Memory!FailUnit, MemoryProofs!FailUnit,
       Memory!Recover, MemoryProofs!Recover, Memory!Expire, MemoryProofs!Expire,
       Memory!BecomeOverdue, MemoryProofs!BecomeOverdue, Memory!Next, MemoryProofs!Next,
       Memory!Cardinality, MemoryProofs!Cardinality

LEMMA DurableRunSame ==
  /\ DurableProofs!ExecutionAssumption
  /\ DurableRun!Init => DurableProofs!Init
  /\ DurableProofs!OutputOfTheHolder => DurableRun!OutputOfTheHolder
  /\ DurableProofs!LeasedUnitsHaveLeases => DurableRun!LeasedUnitsHaveLeases
  /\ DurableProofs!PrerequisitesFirst => DurableRun!PrerequisitesFirst
  /\ DurableProofs!ReadyUnitsHaveAttempts => DurableRun!ReadyUnitsHaveAttempts
  /\ DurableProofs!EndedUnitsStay => DurableRun!EndedUnitsStay
<1>1. DurableProofs!ExecutionAssumption
  BY EnginesAssumption
  DEF DurableProofs!ExecutionAssumption, DurableRun!NeedsAssumption,
      DurableProofs!NeedsAssumption, DurableRun!DurableAssumption,
      DurableProofs!DurableAssumption, DurableRun!AttemptsAssumption,
      DurableProofs!AttemptsAssumption, DurableRun!LeasesAssumption,
      DurableProofs!LeasesAssumption
<1>2. DurableRun!Init => DurableProofs!Init
  BY DEF DurableRun!Init, DurableProofs!Init, DurableRun!NoRun, DurableProofs!NoRun,
         DurableRun!Schedule, DurableProofs!Schedule, DurableRun!Done, DurableProofs!Done
<1>3. DurableProofs!OutputOfTheHolder => DurableRun!OutputOfTheHolder
  BY DEF DurableRun!OutputOfTheHolder, DurableProofs!OutputOfTheHolder, DurableRun!Done,
         DurableProofs!Done
<1>4. DurableProofs!LeasedUnitsHaveLeases => DurableRun!LeasedUnitsHaveLeases
  BY DEF DurableRun!LeasedUnitsHaveLeases, DurableProofs!LeasedUnitsHaveLeases
<1>5. DurableProofs!PrerequisitesFirst => DurableRun!PrerequisitesFirst
  BY DEF DurableRun!PrerequisitesFirst, DurableProofs!PrerequisitesFirst, DurableRun!Done,
         DurableProofs!Done
<1>6. DurableProofs!ReadyUnitsHaveAttempts => DurableRun!ReadyUnitsHaveAttempts
  BY DEF DurableRun!ReadyUnitsHaveAttempts, DurableProofs!ReadyUnitsHaveAttempts
<1>7. DurableProofs!EndedUnitsStay => DurableRun!EndedUnitsStay
  BY DEF DurableRun!EndedUnitsStay, DurableProofs!EndedUnitsStay, DurableRun!TerminalUnits,
         DurableProofs!TerminalUnits
<1> QED
  BY <1>1, <1>2, <1>3, <1>4, <1>5, <1>6, <1>7

LEMMA DurableRunNext == DurableRun!Next => DurableProofs!Next
BY DEF DurableRun!TerminalRuns, DurableProofs!TerminalRuns, DurableRun!TerminalUnits,
       DurableProofs!TerminalUnits, DurableRun!Done, DurableProofs!Done,
       DurableRun!Schedule, DurableProofs!Schedule, DurableRun!Refreshed,
       DurableProofs!Refreshed, DurableRun!Exists, DurableProofs!Exists,
       DurableRun!Terminal, DurableProofs!Terminal, DurableRun!Active, DurableProofs!Active,
       DurableRun!LiveLeases, DurableProofs!LiveLeases, DurableRun!Create,
       DurableProofs!Create, DurableRun!Approve, DurableProofs!Approve, DurableRun!Stopped,
       DurableProofs!Stopped, DurableRun!Reject, DurableProofs!Reject, DurableRun!Stop,
       DurableProofs!Stop, DurableRun!Leasable, DurableProofs!Leasable,
       DurableRun!LeaseOverdue, DurableProofs!LeaseOverdue, DurableRun!CountLeases,
       DurableProofs!CountLeases, DurableRun!LeaseNone, DurableProofs!LeaseNone,
       DurableRun!Counted, DurableProofs!Counted, DurableRun!LeaseNext,
       DurableProofs!LeaseNext, DurableRun!Fenced, DurableProofs!Fenced,
       DurableRun!Heartbeat, DurableProofs!Heartbeat, DurableRun!PublishOutput,
       DurableProofs!PublishOutput, DurableRun!SubmitReview, DurableProofs!SubmitReview,
       DurableRun!GivenUp, DurableProofs!GivenUp, DurableRun!FailUnit,
       DurableProofs!FailUnit, DurableRun!Recover, DurableProofs!Recover, DurableRun!Expire,
       DurableProofs!Expire, DurableRun!BecomeOverdue, DurableProofs!BecomeOverdue,
       DurableRun!Next, DurableProofs!Next, DurableRun!Cardinality,
       DurableProofs!Cardinality

LEMMA SharedRunsSame ==
  /\ SharedProofs!ExecutionAssumption
  /\ SharedRuns!Init => SharedProofs!Init
  /\ SharedProofs!LeasesWithinQuota => SharedRuns!LeasesWithinQuota
<1>1. SharedProofs!ExecutionAssumption
  BY EnginesAssumption
  DEF SharedProofs!ExecutionAssumption, SharedRuns!NeedsAssumption,
      SharedProofs!NeedsAssumption, SharedRuns!DurableAssumption,
      SharedProofs!DurableAssumption, SharedRuns!AttemptsAssumption,
      SharedProofs!AttemptsAssumption, SharedRuns!LeasesAssumption,
      SharedProofs!LeasesAssumption
<1>2. SharedRuns!Init => SharedProofs!Init
  BY DEF SharedRuns!Init, SharedProofs!Init, SharedRuns!NoRun, SharedProofs!NoRun,
         SharedRuns!Schedule, SharedProofs!Schedule, SharedRuns!Done, SharedProofs!Done
<1>3. SharedProofs!LeasesWithinQuota => SharedRuns!LeasesWithinQuota
  BY DEF SharedRuns!LeasesWithinQuota, SharedProofs!LeasesWithinQuota,
         SharedRuns!LiveLeases, SharedProofs!LiveLeases, SharedRuns!Cardinality,
         SharedProofs!Cardinality
<1> QED
  BY <1>1, <1>2, <1>3

LEMMA SharedRunsNext == SharedRuns!Next => SharedProofs!Next
BY DEF SharedRuns!TerminalRuns, SharedProofs!TerminalRuns, SharedRuns!TerminalUnits,
       SharedProofs!TerminalUnits, SharedRuns!Done, SharedProofs!Done, SharedRuns!Schedule,
       SharedProofs!Schedule, SharedRuns!Refreshed, SharedProofs!Refreshed,
       SharedRuns!Exists, SharedProofs!Exists, SharedRuns!Terminal, SharedProofs!Terminal,
       SharedRuns!Active, SharedProofs!Active, SharedRuns!LiveLeases,
       SharedProofs!LiveLeases, SharedRuns!Create, SharedProofs!Create, SharedRuns!Approve,
       SharedProofs!Approve, SharedRuns!Stopped, SharedProofs!Stopped, SharedRuns!Reject,
       SharedProofs!Reject, SharedRuns!Stop, SharedProofs!Stop, SharedRuns!Leasable,
       SharedProofs!Leasable, SharedRuns!LeaseOverdue, SharedProofs!LeaseOverdue,
       SharedRuns!CountLeases, SharedProofs!CountLeases, SharedRuns!LeaseNone,
       SharedProofs!LeaseNone, SharedRuns!Counted, SharedProofs!Counted,
       SharedRuns!LeaseNext, SharedProofs!LeaseNext, SharedRuns!Fenced, SharedProofs!Fenced,
       SharedRuns!Heartbeat, SharedProofs!Heartbeat, SharedRuns!PublishOutput,
       SharedProofs!PublishOutput, SharedRuns!SubmitReview, SharedProofs!SubmitReview,
       SharedRuns!GivenUp, SharedProofs!GivenUp, SharedRuns!FailUnit, SharedProofs!FailUnit,
       SharedRuns!Recover, SharedProofs!Recover, SharedRuns!Expire, SharedProofs!Expire,
       SharedRuns!BecomeOverdue, SharedProofs!BecomeOverdue, SharedRuns!Next,
       SharedProofs!Next, SharedRuns!Cardinality, SharedProofs!Cardinality

ExecutionsInv ==
  /\ part = "execution" => MemoryProofs!RunsInv /\ MemoryProofs!CountedInv
  /\ part = "durable execution" => DurableProofs!RunsInv /\ DurableProofs!CountedInv
  /\ part = "shared executions" => SharedProofs!RunsInv /\ SharedProofs!QuotaInv

LEMMA ExecutionsBegin == EnginesInit => ExecutionsInv
<1> SUFFICES ASSUME EnginesInit PROVE ExecutionsInv
  OBVIOUS
<1>1. ASSUME part = "execution" PROVE MemoryProofs!RunsInv /\ MemoryProofs!CountedInv
  <2>1. MemoryProofs!Init
    BY <1>1, MemorySame DEF EnginesInit
  <2> QED
    BY <2>1, MemorySame, MemoryProofs!InitRuns DEF MemoryProofs!Init, MemoryProofs!CountedInv
<1>2. ASSUME part = "durable execution" PROVE DurableProofs!RunsInv /\ DurableProofs!CountedInv
  <2>1. DurableProofs!Init
    BY <1>2, DurableRunSame DEF EnginesInit
  <2> QED
    BY <2>1, DurableRunSame, DurableProofs!InitRuns DEF DurableProofs!Init, DurableProofs!CountedInv
<1>3. ASSUME part = "shared executions" PROVE SharedProofs!RunsInv /\ SharedProofs!QuotaInv
  <2>1. SharedProofs!Init
    BY <1>3, SharedRunsSame DEF EnginesInit
  <2>2. SharedProofs!LiveLeases = {} /\ counted = 0
    BY <2>1 DEF SharedProofs!Init, SharedProofs!LiveLeases, SharedProofs!NoRun
  <2>3. SharedProofs!QuotaInv
    BY <2>2, FS_EmptySet
    DEF SharedProofs!QuotaInv, SharedProofs!CountedInv, SharedProofs!Cardinality, Cardinality,
        SharedProofs!IsFiniteSet, IsFiniteSet
  <2> QED
    BY <2>1, <2>3, SharedRunsSame, SharedProofs!InitRuns
<1> QED
  BY <1>1, <1>2, <1>3 DEF ExecutionsInv

\* A step of the executions of a part, or of another part.
LEMMA ExecutionsGoOn ==
  ASSUME [EnginesNext]_enginesVars
  PROVE  /\ part' = part
         /\ part = "execution" => [MemoryProofs!Next]_(MemoryProofs!vars)
         /\ part = "durable execution" => [DurableProofs!Next]_(DurableProofs!vars)
         /\ part = "shared executions" => [SharedProofs!Next]_(SharedProofs!vars)
<1>1. /\ part' = part
      /\ \/ part = "execution" /\ Memory!Next
         \/ part = "durable execution" /\ DurableRun!Next
         \/ part = "shared executions" /\ SharedRuns!Next
         \/ UNCHANGED executionVars
  BY DEF EnginesNext, enginesVars, Delivering, Executing, Reasoning, Invoking, Collaborating,
         Working, Serving
<1> QED
  BY <1>1, MemoryNext, DurableRunNext, SharedRunsNext
  DEF executionVars, MemoryProofs!vars, DurableProofs!vars, SharedProofs!vars

LEMMA ExecutionsStep ==
  ASSUME ExecutionsInv, [EnginesNext]_enginesVars
  PROVE  ExecutionsInv'
<1>1. ASSUME part = "execution" PROVE MemoryProofs!RunsInv' /\ MemoryProofs!CountedInv'
  <2>1. MemoryProofs!RunsInv /\ MemoryProofs!CountedInv /\ [MemoryProofs!Next]_(MemoryProofs!vars)
    BY <1>1, ExecutionsGoOn DEF ExecutionsInv
  <2> QED
    BY <2>1, MemorySame, MemoryProofs!RunsStep, MemoryProofs!CountedStep
<1>2. ASSUME part = "durable execution" PROVE DurableProofs!RunsInv' /\ DurableProofs!CountedInv'
  <2>1. DurableProofs!RunsInv /\ DurableProofs!CountedInv /\ [DurableProofs!Next]_(DurableProofs!vars)
    BY <1>2, ExecutionsGoOn DEF ExecutionsInv
  <2> QED
    BY <2>1, DurableRunSame, DurableProofs!RunsStep, DurableProofs!CountedStep
<1>3. ASSUME part = "shared executions" PROVE SharedProofs!RunsInv' /\ SharedProofs!QuotaInv'
  <2>1. /\ SharedProofs!RunsInv /\ SharedProofs!QuotaInv
        /\ [SharedProofs!Next]_(SharedProofs!vars)
    BY <1>3, ExecutionsGoOn DEF ExecutionsInv
  <2> QED
    BY <2>1, SharedRunsSame, SharedProofs!RunsStep, SharedProofs!QuotaStep
<1> QED
  BY <1>1, <1>2, <1>3, ExecutionsGoOn DEF ExecutionsInv

LEMMA ExecutionsSay ==
  ASSUME ExecutionsInv
  PROVE  /\ part = "execution" => /\ Memory!OutputOfTheHolder /\ Memory!LeasedUnitsHaveLeases
                                  /\ Memory!PrerequisitesFirst /\ Memory!ReadyUnitsHaveAttempts
         /\ part = "durable execution" =>
              /\ DurableRun!OutputOfTheHolder /\ DurableRun!LeasedUnitsHaveLeases
              /\ DurableRun!PrerequisitesFirst /\ DurableRun!ReadyUnitsHaveAttempts
         /\ part = "shared executions" => SharedRuns!LeasesWithinQuota
<1>1. MemoryProofs!RunsInv =>
        /\ MemoryProofs!OutputOfTheHolder /\ MemoryProofs!LeasedUnitsHaveLeases
        /\ MemoryProofs!PrerequisitesFirst /\ MemoryProofs!ReadyUnitsHaveAttempts
  BY DEF MemoryProofs!RunsInv, MemoryProofs!RunInv, MemoryProofs!UnitsInv,
         MemoryProofs!Authored, MemoryProofs!Out, MemoryProofs!Begun, MemoryProofs!Prepared,
         MemoryProofs!Attempts, MemoryProofs!OutputOfTheHolder,
         MemoryProofs!LeasedUnitsHaveLeases, MemoryProofs!PrerequisitesFirst,
         MemoryProofs!ReadyUnitsHaveAttempts
<1>2. DurableProofs!RunsInv =>
        /\ DurableProofs!OutputOfTheHolder /\ DurableProofs!LeasedUnitsHaveLeases
        /\ DurableProofs!PrerequisitesFirst /\ DurableProofs!ReadyUnitsHaveAttempts
  BY DEF DurableProofs!RunsInv, DurableProofs!RunInv, DurableProofs!UnitsInv,
         DurableProofs!Authored, DurableProofs!Out, DurableProofs!Begun,
         DurableProofs!Prepared, DurableProofs!Attempts, DurableProofs!OutputOfTheHolder,
         DurableProofs!LeasedUnitsHaveLeases, DurableProofs!PrerequisitesFirst,
         DurableProofs!ReadyUnitsHaveAttempts
<1>3. SharedProofs!QuotaInv => SharedProofs!LeasesWithinQuota
  BY DEF SharedProofs!QuotaInv, SharedProofs!LeasesWithinQuota
<1> QED
  BY <1>1, <1>2, <1>3, MemorySame, DurableRunSame, SharedRunsSame DEF ExecutionsInv

\* What has ended stays, in a step of whatever part.
LEMMA ExecutionsStand ==
  ASSUME ExecutionsInv, [EnginesNext]_enginesVars
  PROVE  /\ part = "execution" => Memory!EndedUnitsStay /\ Memory!EndedRunsStay
         /\ part = "durable execution" => DurableRun!EndedUnitsStay
<1>1. ASSUME part = "execution" PROVE Memory!EndedUnitsStay /\ Memory!EndedRunsStay
  <2>1. MemoryProofs!RunsInv /\ [MemoryProofs!Next]_(MemoryProofs!vars)
    BY <1>1, ExecutionsGoOn DEF ExecutionsInv
  <2>2. CASE MemoryProofs!Next
    BY <2>1, <2>2, MemorySame, MemoryProofs!EndsStep
  <2>3. CASE UNCHANGED MemoryProofs!vars
    <3>1. MemoryProofs!EndedUnitsStay /\ MemoryProofs!EndedRunsStay
      BY <2>3 DEF MemoryProofs!vars, MemoryProofs!EndedUnitsStay, MemoryProofs!EndedRunsStay
    <3> QED
      BY <3>1, MemorySame
  <2> QED
    BY <2>1, <2>2, <2>3
<1>2. ASSUME part = "durable execution" PROVE DurableRun!EndedUnitsStay
  <2>1. DurableProofs!RunsInv /\ [DurableProofs!Next]_(DurableProofs!vars)
    BY <1>2, ExecutionsGoOn DEF ExecutionsInv
  <2>2. CASE DurableProofs!Next
    BY <2>1, <2>2, DurableRunSame, DurableProofs!EndsStep
  <2>3. CASE UNCHANGED DurableProofs!vars
    <3>1. DurableProofs!EndedUnitsStay
      BY <2>3 DEF DurableProofs!vars, DurableProofs!EndedUnitsStay
    <3> QED
      BY <3>1, DurableRunSame
  <2> QED
    BY <2>1, <2>2, <2>3
<1> QED
  BY <1>1, <1>2

LEMMA ExecutionsTyped ==
  ASSUME ExecutionsInv
  PROVE  /\ part = "execution" => Memory!TypeOK
         /\ part = "durable execution" => DurableRun!TypeOK
         /\ part = "shared executions" => SharedRuns!TypeOK
<1>1. MemoryProofs!RunsInv /\ MemoryProofs!CountedInv => Memory!TypeOK
  BY DEF MemoryProofs!RunsInv, MemoryProofs!CountedInv, Memory!Run, MemoryProofs!Run,
         Memory!TerminalRuns, MemoryProofs!TerminalRuns, Memory!TerminalUnits,
         MemoryProofs!TerminalUnits, Memory!TypeOK
<1>2. DurableProofs!RunsInv /\ DurableProofs!CountedInv => DurableRun!TypeOK
  BY DEF DurableProofs!RunsInv, DurableProofs!CountedInv, DurableRun!Run, DurableProofs!Run,
         DurableRun!TerminalRuns, DurableProofs!TerminalRuns, DurableRun!TerminalUnits,
         DurableProofs!TerminalUnits, DurableRun!TypeOK
<1>3. SharedProofs!RunsInv /\ SharedProofs!QuotaInv => SharedRuns!TypeOK
  BY DEF SharedProofs!RunsInv, SharedProofs!CountedInv, SharedProofs!QuotaInv,
         SharedRuns!Run, SharedProofs!Run, SharedRuns!TerminalRuns,
         SharedProofs!TerminalRuns, SharedRuns!TerminalUnits, SharedProofs!TerminalUnits,
         SharedRuns!TypeOK
<1> QED
  BY <1>1, <1>2, <1>3 DEF ExecutionsInv

-----------------------------------------------------------------------------
(* The collaboration of agents.                                             *)

UnderWay == {"assigned", "running", "awaiting_review"}
UnitRow(v) ==
  [status: UnderWay \union {"blocked", "ready", "succeeded", "failed"},
   owner: v.participants \union {None}, output: Nat, retryCount: Nat]
ParticipantRow(v) ==
  [status: {"none", "registered", "active", "abandoned"}, assigned: SUBSET v.units]
ReviewRow(v) ==
  [unit: v.units, output: Nat, asked: v.participants, reviewer: v.participants,
   requester: v.participants, status: {"pending", "approved", "rejected", "cancelled"}]
SessionRow(v) ==
  [lifecycle: {"created", "assembling", "active", "paused", "completed", "failed", "cancelled",
               "superseded"},
   unit: [v.units -> UnitRow(v)], participant: [v.participants -> ParticipantRow(v)],
   reviews: Seq(ReviewRow(v)), full: BOOLEAN]

\* A unit has an owner when it is under way or succeeded, what it builds on has
\* succeeded unless it waits for that, and it has been retried within the limit.
UnitSound(v, s, u) ==
  /\ s.unit[u].owner = None <=> s.unit[u].status \in {"blocked", "ready", "failed"}
  /\ s.unit[u].status \notin {"blocked", "failed"} =>
       \A q \in v.prerequisites[u] : s.unit[q].status = "succeeded"
  /\ s.unit[u].retryCount <= v.retries
\* The lists of the participants are what they have under way.
ListSound(s, u, p) ==
  u \in s.participant[p].assigned <=> s.unit[u].owner = p /\ s.unit[u].status \in UnderWay
\* A review is another's than who asked for it, of an output there was; that of
\* the output which waits for it was asked for by the owner.
ReviewSound(s, i) ==
  LET review == s.reviews[i]
      unit == s.unit[review.unit]
  IN /\ review.reviewer # review.requester
     /\ review.output <= unit.output
     /\ unit.status = "awaiting_review" /\ review.output = unit.output =>
          review.requester = unit.owner
ApprovalOf(s, u, unit, i) ==
  /\ s.reviews[i].unit = u /\ s.reviews[i].status = "approved"
  /\ s.reviews[i].output = unit.output /\ s.reviews[i].reviewer # unit.owner
ApprovedSound(s, u) ==
  s.unit[u].status = "succeeded" => \E i \in 1..Len(s.reviews) : ApprovalOf(s, u, s.unit[u], i)
Sound(v, s) ==
  /\ s \in SessionRow(v)
  /\ \A u \in v.units : UnitSound(v, s, u)
  /\ \A u \in v.units, p \in v.participants : ListSound(s, u, p)
  /\ \A i \in 1..Len(s.reviews) : ReviewSound(s, i)
  /\ \A u \in v.reviewed : ApprovedSound(s, u)

\* The session ends with its units.
Ends(v, s) ==
  /\ s.lifecycle = "completed" <=> \A u \in v.units : s.unit[u].status = "succeeded"
  /\ (\E u \in v.units : s.unit[u].status = "failed") => s.lifecycle = "failed"

Assumed(v) ==
  /\ None \notin v.participants /\ v.participants \subseteq Nat
  /\ IsFiniteSet(v.units) /\ v.units # {} /\ v.reviewed \subseteq v.units
  /\ v.eligible \in [v.units -> SUBSET v.participants]
  /\ v.prerequisites \in [v.units -> SUBSET v.units]
  /\ Len(v.order) \in Nat /\ \A n \in 1..Len(v.order) : v.order[n] \in v.units
  /\ v.retries \in Nat

LEMMA AssumedIs == ASSUME NEW v, Meeting(v)!CollaborationAssumption PROVE Assumed(v)
BY DEF Meeting!CollaborationAssumption, Assumed, Meeting!IsFiniteSet, IsFiniteSet

\* What the parts of a session are.
LEMMA RowsOf ==
  ASSUME NEW v, NEW s \in SessionRow(v)
  PROVE  /\ s.unit \in [v.units -> UnitRow(v)]
         /\ s.participant \in [v.participants -> ParticipantRow(v)]
         /\ s.reviews \in Seq(ReviewRow(v)) /\ s.full \in BOOLEAN
         /\ Len(s.reviews) \in Nat /\ DOMAIN s.reviews = 1..Len(s.reviews)
         /\ \A i \in 1..Len(s.reviews) : s.reviews[i] \in ReviewRow(v)
         /\ s.lifecycle \in {"created", "assembling", "active", "paused", "completed", "failed",
                             "cancelled", "superseded"}
<1>1. s.reviews \in Seq(ReviewRow(v))
  BY DEF SessionRow
<1>2. /\ Len(s.reviews) \in Nat /\ DOMAIN s.reviews = 1..Len(s.reviews)
      /\ \A i \in 1..Len(s.reviews) : s.reviews[i] \in ReviewRow(v)
  BY <1>1, LenProperties
<1> QED
  BY <1>1, <1>2 DEF SessionRow

\* The session with other units, participants or reviews.
With(s, unit, participant) == [s EXCEPT !.unit = unit, !.participant = participant]
LEMMA NextSession ==
  ASSUME NEW v, NEW s \in SessionRow(v), NEW unit \in [v.units -> UnitRow(v)],
         NEW participant \in [v.participants -> ParticipantRow(v)],
         NEW r, r = With(s, unit, participant)
  PROVE  /\ r \in SessionRow(v)
         /\ r.unit = unit /\ r.participant = participant /\ r.reviews = s.reviews
         /\ r.lifecycle = s.lifecycle /\ r.full = s.full
BY DEF SessionRow, With

\* One unit of a session is changed, with the lists it is on.
UnitBecomes(v, s, u, x, r) ==
  /\ r \in SessionRow(v) /\ x \in UnitRow(v) /\ r.unit[u] = x
  /\ \A t \in v.units : t # u => r.unit[t] = s.unit[t]
  /\ \A p \in v.participants :
       r.participant[p].assigned =
         IF x.status \in UnderWay /\ x.owner = p THEN s.participant[p].assigned \union {u}
         ELSE s.participant[p].assigned \ {u}
\* What such a change may be.
MayBecome(v, s, u, x) ==
  /\ x.owner = None <=> x.status \in {"blocked", "ready", "failed"}
  /\ x.retryCount <= v.retries /\ x.output >= s.unit[u].output
  /\ x.status = "awaiting_review" /\ x.output = s.unit[u].output =>
       s.unit[u].status = "awaiting_review" /\ s.unit[u].owner = x.owner
  /\ x.status \notin {"blocked", "failed"} =>
       \A q \in v.prerequisites[u] : s.unit[q].status = "succeeded"

LEMMA OneChange ==
  ASSUME NEW v, Assumed(v), NEW s, Sound(v, s), NEW u \in v.units, NEW x, NEW r,
         s.unit[u].status # "succeeded", UnitBecomes(v, s, u, x, r), MayBecome(v, s, u, x),
         r.reviews = s.reviews,
         u \in v.reviewed => ApprovedSound(r, u)
  PROVE  Sound(v, r)
<1>1. s \in SessionRow(v) /\ r \in SessionRow(v)
  BY DEF Sound, UnitBecomes
<1>2. r.unit[u] = x /\ \A t \in v.units : t # u => r.unit[t] = s.unit[t]
  BY <1>1, RowsOf DEF UnitBecomes
<1>3. ASSUME NEW t \in v.units PROVE UnitSound(v, r, t)
  <2>1. ASSUME NEW q \in v.prerequisites[t], s.unit[q].status = "succeeded"
        PROVE  r.unit[q].status = "succeeded"
    <3>1. q \in v.units
      BY DEF Assumed
    <3> QED
      BY <1>2, <2>1, <3>1
  <2>2. UnitSound(v, s, t)
    BY DEF Sound
  <2>3. CASE t = u
    BY <1>2, <2>1, <2>3 DEF UnitSound, MayBecome
  <2>4. CASE t # u
    BY <1>2, <2>1, <2>2, <2>4 DEF UnitSound
  <2> QED
    BY <2>3, <2>4
<1>4. ASSUME NEW t \in v.units, NEW p \in v.participants PROVE ListSound(r, t, p)
  <2>1. ListSound(s, t, p)
    BY DEF Sound
  <2>2. r.participant[p].assigned =
          IF x.status \in UnderWay /\ x.owner = p THEN s.participant[p].assigned \union {u}
          ELSE s.participant[p].assigned \ {u}
    BY DEF UnitBecomes
  <2>3. CASE t = u
    BY <1>2, <2>2, <2>3 DEF ListSound
  <2>4. CASE t # u
    <3>1. t \in r.participant[p].assigned <=> t \in s.participant[p].assigned
      BY <2>2, <2>4
    <3> QED
      BY <1>2, <2>1, <2>4, <3>1 DEF ListSound
  <2> QED
    BY <2>3, <2>4
<1>5. ASSUME NEW i \in 1..Len(r.reviews) PROVE ReviewSound(r, i)
  <2>1. ReviewSound(s, i) /\ i \in 1..Len(s.reviews)
    BY DEF Sound
  <2>2. s.reviews[i] \in ReviewRow(v) /\ s.unit \in [v.units -> UnitRow(v)]
    BY <1>1, <2>1, RowsOf
  <2>3. /\ s.reviews[i].unit \in v.units /\ s.reviews[i].output \in Nat
        /\ s.unit[s.reviews[i].unit].output \in Nat /\ x.output \in Nat
    BY <2>2 DEF ReviewRow, UnitRow, UnitBecomes
  <2>4. CASE s.reviews[i].unit = u
    BY <1>2, <2>1, <2>3, <2>4 DEF ReviewSound, MayBecome
  <2>5. CASE s.reviews[i].unit # u
    BY <1>2, <2>1, <2>3, <2>5 DEF ReviewSound
  <2> QED
    BY <2>4, <2>5
<1>6. ASSUME NEW t \in v.reviewed PROVE ApprovedSound(r, t)
  <2>1. t \in v.units /\ ApprovedSound(s, t)
    BY DEF Assumed, Sound
  <2>2. CASE t # u
    BY <1>2, <2>1, <2>2 DEF ApprovedSound, ApprovalOf
  <2> QED
    BY <1>6, <2>2
<1> QED
  BY <1>1, <1>3, <1>4, <1>5, <1>6 DEF Sound

\* Reviews are decided, cancelled or given to others, as long as they stay of
\* the same output and approvals stay.
LEMMA OtherReviews ==
  ASSUME NEW v, Assumed(v), NEW s, Sound(v, s), NEW r \in SessionRow(v),
         r.unit = s.unit, \A p \in v.participants : r.participant[p].assigned = s.participant[p].assigned,
         Len(r.reviews) = Len(s.reviews),
         \A i \in 1..Len(s.reviews) :
           /\ r.reviews[i].unit = s.reviews[i].unit /\ r.reviews[i].output = s.reviews[i].output
           /\ r.reviews[i].requester = s.reviews[i].requester
           /\ r.reviews[i].reviewer # r.reviews[i].requester
           /\ s.reviews[i].status = "approved" =>
                r.reviews[i].status = "approved" /\ r.reviews[i].reviewer = s.reviews[i].reviewer
  PROVE  Sound(v, r)
<1>1. \A u \in v.units : UnitSound(v, r, u)
  BY DEF Sound, UnitSound
<1>2. \A u \in v.units, p \in v.participants : ListSound(r, u, p)
  BY DEF Sound, ListSound
<1>3. ASSUME NEW i \in 1..Len(r.reviews) PROVE ReviewSound(r, i)
  BY <1>3 DEF Sound, ReviewSound
<1>4. ASSUME NEW u \in v.reviewed PROVE ApprovedSound(r, u)
  <2>1. ApprovedSound(s, u)
    BY DEF Sound
  <2> QED
    BY <2>1 DEF ApprovedSound, ApprovalOf
<1> QED
  BY <1>1, <1>2, <1>3, <1>4 DEF Sound

\* Only the lifecycle, the quota's flag or the participants' statuses change.
LEMMA SameWork ==
  ASSUME NEW v, NEW s, Sound(v, s), NEW r \in SessionRow(v),
         r.unit = s.unit, \A p \in v.participants : r.participant[p].assigned = s.participant[p].assigned,
         r.reviews = s.reviews
  PROVE  Sound(v, r)
BY DEF Sound, UnitSound, ListSound, ReviewSound, ApprovedSound, ApprovalOf

\* A unit's readiness is that of what it builds on.
LEMMA PropagatedIs ==
  ASSUME NEW v, NEW s \in SessionRow(v)
  PROVE  LET r == Meeting(v)!Propagated(s)
         IN  /\ r \in SessionRow(v)
             /\ r.participant = s.participant /\ r.reviews = s.reviews
             /\ r.lifecycle = s.lifecycle /\ r.full = s.full
             /\ \A u \in v.units :
                  /\ r.unit[u].owner = s.unit[u].owner /\ r.unit[u].output = s.unit[u].output
                  /\ r.unit[u].retryCount = s.unit[u].retryCount
                  /\ r.unit[u].status = Meeting(v)!Readiness(s, u)
<1> DEFINE unit == [u \in v.units |-> [s.unit[u] EXCEPT !.status = Meeting(v)!Readiness(s, u)]]
           r == Meeting(v)!Propagated(s)
<1>1. r = [s EXCEPT !.unit = unit]
  BY DEF Meeting!Propagated
<1>2. ASSUME NEW u \in v.units
      PROVE  /\ unit[u] \in UnitRow(v)
             /\ unit[u].owner = s.unit[u].owner /\ unit[u].output = s.unit[u].output
             /\ unit[u].retryCount = s.unit[u].retryCount
             /\ unit[u].status = Meeting(v)!Readiness(s, u)
  <2>1. s.unit[u] \in UnitRow(v)
    BY RowsOf
  <2>2. Meeting(v)!Readiness(s, u) \in UnderWay \union {"blocked", "ready", "succeeded", "failed"}
    BY <2>1 DEF Meeting!Readiness, UnitRow
  <2> QED
    BY <2>1, <2>2 DEF UnitRow
<1>3. unit \in [v.units -> UnitRow(v)]
  BY <1>2
<1> HIDE DEF unit
<1>4. r \in SessionRow(v) /\ r.unit = unit /\ r.participant = s.participant /\ r.reviews = s.reviews
      /\ r.lifecycle = s.lifecycle /\ r.full = s.full
  BY <1>1, <1>3 DEF SessionRow
<1> QED
  BY <1>2, <1>4

\* What has succeeded, failed or is under way is not touched by it.
LEMMA ReadinessIs ==
  ASSUME NEW v, NEW s, NEW u \in v.units
  PROVE  LET status == Meeting(v)!Readiness(s, u)
         IN  \/ s.unit[u].status \notin {"blocked", "ready"} /\ status = s.unit[u].status
             \/ /\ s.unit[u].status \in {"blocked", "ready"} /\ status \in {"blocked", "ready"}
                /\ status = "ready" => \A q \in v.prerequisites[u] : s.unit[q].status = "succeeded"
BY DEF Meeting!Readiness

LEMMA PropagatedSound ==
  ASSUME NEW v, Assumed(v), NEW s, Sound(v, s)
  PROVE  Sound(v, Meeting(v)!Propagated(s))
<1> DEFINE r == Meeting(v)!Propagated(s)
<1>1. /\ r \in SessionRow(v)
      /\ r.participant = s.participant /\ r.reviews = s.reviews
      /\ \A u \in v.units :
           /\ r.unit[u].owner = s.unit[u].owner /\ r.unit[u].output = s.unit[u].output
           /\ r.unit[u].retryCount = s.unit[u].retryCount
           /\ \/ s.unit[u].status \notin {"blocked", "ready"} /\ r.unit[u].status = s.unit[u].status
              \/ /\ s.unit[u].status \in {"blocked", "ready"} /\ r.unit[u].status \in {"blocked", "ready"}
                 /\ r.unit[u].status = "ready" =>
                      \A q \in v.prerequisites[u] : s.unit[q].status = "succeeded"
  BY PropagatedIs, ReadinessIs DEF Sound
<1> HIDE DEF r
<1>2. ASSUME NEW u \in v.units PROVE UnitSound(v, r, u)
  <2>1. UnitSound(v, s, u)
    BY DEF Sound
  <2>2. \A q \in v.prerequisites[u] : s.unit[q].status = "succeeded" => r.unit[q].status = "succeeded"
    BY <1>1 DEF Assumed
  <2> QED
    BY <1>1, <2>1, <2>2 DEF UnitSound
<1>3. ASSUME NEW u \in v.units, NEW p \in v.participants PROVE ListSound(r, u, p)
  <2>1. ListSound(s, u, p)
    BY DEF Sound
  <2> QED
    BY <1>1, <2>1 DEF ListSound, UnderWay
<1>4. ASSUME NEW i \in 1..Len(r.reviews) PROVE ReviewSound(r, i)
  <2>1. ReviewSound(s, i) /\ i \in 1..Len(s.reviews)
    BY <1>1 DEF Sound
  <2>2. s.reviews[i].unit \in v.units
    BY <2>1, RowsOf DEF Sound, ReviewRow
  <2> QED
    BY <1>1, <2>1, <2>2 DEF ReviewSound
<1>5. ASSUME NEW u \in v.reviewed PROVE ApprovedSound(r, u)
  <2>1. ApprovedSound(s, u) /\ u \in v.units
    BY DEF Sound, Assumed
  <2> QED
    BY <1>1, <2>1 DEF ApprovedSound, ApprovalOf
<1>6. Sound(v, r)
  BY <1>1, <1>2, <1>3, <1>4, <1>5 DEF Sound
<1> QED
  BY <1>6 DEF r

\* A session that has not ended ends with its units.
LEMMA FinishedSound ==
  ASSUME NEW v, Assumed(v), NEW s, Sound(v, s), s.lifecycle # "completed"
  PROVE  /\ Sound(v, Meeting(v)!Finished(s)) /\ Ends(v, Meeting(v)!Finished(s))
         /\ \A u \in v.units : Meeting(v)!Finished(s).unit[u].output = s.unit[u].output
<1> DEFINE p == Meeting(v)!Propagated(s)
           lifecycle == IF \E u \in v.units : s.unit[u].status = "failed" THEN "failed"
                        ELSE IF \A u \in v.units : s.unit[u].status = "succeeded" THEN "completed"
                        ELSE s.lifecycle
           r == Meeting(v)!Finished(s)
<1>1. /\ p \in SessionRow(v) /\ p.lifecycle = s.lifecycle
      /\ \A u \in v.units :
           /\ p.unit[u].output = s.unit[u].output
           /\ p.unit[u].status = "failed" <=> s.unit[u].status = "failed"
           /\ p.unit[u].status = "succeeded" <=> s.unit[u].status = "succeeded"
  BY PropagatedIs, ReadinessIs DEF Sound
<1>2. Sound(v, p)
  BY PropagatedSound
<1>3. r = [p EXCEPT !.lifecycle = lifecycle]
  BY <1>1 DEF Meeting!Finished
<1>4. lifecycle \in {"created", "assembling", "active", "paused", "completed", "failed", "cancelled",
                     "superseded"}
  BY RowsOf DEF Sound
<1> HIDE DEF p
<1>5. /\ r \in SessionRow(v) /\ r.unit = p.unit /\ r.participant = p.participant
      /\ r.reviews = p.reviews /\ r.lifecycle = lifecycle
  BY <1>1, <1>3, <1>4 DEF SessionRow
<1> HIDE DEF r
<1>6. Sound(v, r)
  BY <1>2, <1>5, SameWork
<1>7. Ends(v, r)
  <2>1. v.units # {}
    BY DEF Assumed
  <2> QED
    BY <1>1, <1>5, <2>1 DEF Ends
<1> QED
  BY <1>1, <1>5, <1>6, <1>7 DEF r

\* A unit is changed, and a participant's list.
LEMMA NextUnit ==
  ASSUME NEW v, NEW s \in SessionRow(v), NEW u \in v.units, NEW x \in UnitRow(v),
         NEW p \in v.participants, NEW list \in SUBSET v.units,
         NEW r, r = Meeting(v)!Replaced(s, u, x, p, list)
  PROVE  /\ r \in SessionRow(v)
         /\ r.unit[u] = x /\ \A t \in v.units : t # u => r.unit[t] = s.unit[t]
         /\ r.participant[p].assigned = list
         /\ \A t \in v.participants : t # p => r.participant[t] = s.participant[t]
         /\ r.reviews = s.reviews /\ r.lifecycle = s.lifecycle /\ r.full = s.full
<1> DEFINE row == [status |-> s.participant[p].status, assigned |-> list]
           unit == [s.unit EXCEPT ![u] = x]
           participant == [s.participant EXCEPT ![p] = row]
<1>1. row \in ParticipantRow(v) /\ row.assigned = list
  BY RowsOf DEF ParticipantRow
<1>2. r = With(s, unit, participant)
  BY DEF Meeting!Replaced, With
<1> HIDE DEF row
<1>3. /\ unit \in [v.units -> UnitRow(v)] /\ participant \in [v.participants -> ParticipantRow(v)]
      /\ unit[u] = x /\ \A t \in v.units : t # u => unit[t] = s.unit[t]
      /\ participant[p] = row
      /\ \A t \in v.participants : t # p => participant[t] = s.participant[t]
  BY <1>1, RowsOf
<1> HIDE DEF unit, participant
<1>5. /\ r \in SessionRow(v) /\ r.unit = unit /\ r.participant = participant
      /\ r.reviews = s.reviews /\ r.lifecycle = s.lifecycle /\ r.full = s.full
  BY <1>2, <1>3, NextSession
<1> QED
  BY <1>1, <1>3, <1>5

\* What an owner has under way is on its list alone.
LEMMA OwnersList ==
  ASSUME NEW v, NEW s, Sound(v, s), NEW u \in v.units, s.unit[u].status \in UnderWay
  PROVE  /\ s.unit[u] \in UnitRow(v) /\ s.unit[u].owner \in v.participants
         /\ s.participant[s.unit[u].owner] \in ParticipantRow(v)
         /\ UnitSound(v, s, u) /\ s.unit[u].status # "succeeded"
         /\ \A p \in v.participants : u \in s.participant[p].assigned <=> p = s.unit[u].owner
<1>1. s.unit[u] \in UnitRow(v) /\ UnitSound(v, s, u)
  BY RowsOf DEF Sound
<1>2. s.unit[u].owner \in v.participants
  BY <1>1 DEF UnitSound, UnitRow, UnderWay
<1> QED
  BY <1>1, <1>2, RowsOf DEF Sound, ListSound, UnderWay

\* A unit under way becomes x, and the list of its owner what that makes it.
OwnersStep(v, s, u, x, owner, list, r) ==
  /\ u \in v.units /\ s.unit[u].status \in UnderWay /\ owner = s.unit[u].owner
  /\ x \in UnitRow(v) /\ MayBecome(v, s, u, x)
  /\ x.status \in UnderWay => x.owner = owner /\ list = s.participant[owner].assigned
  /\ x.status \notin UnderWay => list = s.participant[owner].assigned \ {u}
  /\ u \in v.reviewed /\ x.status = "succeeded" =>
       \E i \in 1..Len(s.reviews) : ApprovalOf(s, u, x, i)
  /\ r = Meeting(v)!Replaced(s, u, x, owner, list)

\* Work is off its owner's list, or stays on it.
LEMMA OwnersWork ==
  ASSUME NEW v, Assumed(v), NEW s, Sound(v, s), NEW u, NEW x, NEW owner, NEW list, NEW r,
         OwnersStep(v, s, u, x, owner, list, r)
  PROVE  /\ Sound(v, r) /\ r.lifecycle = s.lifecycle /\ r.full = s.full
         /\ r.unit[u] = x /\ \A t \in v.units : t # u => r.unit[t] = s.unit[t]
         /\ r.reviews = s.reviews
<1>0. /\ u \in v.units /\ s.unit[u].status \in UnderWay /\ owner = s.unit[u].owner
      /\ x \in UnitRow(v) /\ MayBecome(v, s, u, x)
      /\ x.status \in UnderWay => x.owner = owner /\ list = s.participant[owner].assigned
      /\ x.status \notin UnderWay => list = s.participant[owner].assigned \ {u}
      /\ r = Meeting(v)!Replaced(s, u, x, owner, list)
  BY DEF OwnersStep
<1>1. /\ owner \in v.participants /\ s.participant[owner] \in ParticipantRow(v)
      /\ s.unit[u].status # "succeeded"
      /\ \A p \in v.participants : u \in s.participant[p].assigned <=> p = owner
  BY <1>0, OwnersList
<1>2. s \in SessionRow(v) /\ list \in SUBSET v.units
  BY <1>0, <1>1 DEF Sound, ParticipantRow
<1>5. /\ r \in SessionRow(v)
      /\ r.unit[u] = x /\ \A t \in v.units : t # u => r.unit[t] = s.unit[t]
      /\ r.participant[owner].assigned = list
      /\ \A p \in v.participants : p # owner => r.participant[p] = s.participant[p]
      /\ r.reviews = s.reviews /\ r.lifecycle = s.lifecycle /\ r.full = s.full
  BY <1>0, <1>1, <1>2, NextUnit
<1>6. ASSUME NEW p \in v.participants
      PROVE  r.participant[p].assigned =
               IF x.status \in UnderWay /\ x.owner = p THEN s.participant[p].assigned \union {u}
               ELSE s.participant[p].assigned \ {u}
  <2>0. s.participant[p] \in ParticipantRow(v)
    BY <1>2, RowsOf
  <2> DEFINE old == s.participant[p].assigned
             new == r.participant[p].assigned
  <2>1. old \in SUBSET v.units
    BY <2>0 DEF ParticipantRow
  <2>2. /\ u \in old <=> p = owner
        /\ new = IF p = owner /\ x.status \notin UnderWay THEN old \ {u} ELSE old
    BY <1>0, <1>1, <1>5
  <2>3. x.status \in UnderWay => x.owner = owner
    BY <1>0
  <2> HIDE DEF old, new
  <2>4. new = IF x.status \in UnderWay /\ x.owner = p THEN old \union {u} ELSE old \ {u}
    <3>1. u \in old => old \union {u} = old
      OBVIOUS
    <3>2. u \notin old => old \ {u} = old
      OBVIOUS
    <3> QED
      BY <2>2, <2>3, <3>1, <3>2
  <2> QED
    BY <2>4 DEF old, new
<1>7. UnitBecomes(v, s, u, x, r)
  BY <1>0, <1>5, <1>6 DEF UnitBecomes
<1>8. u \in v.reviewed => ApprovedSound(r, u)
  <2> SUFFICES ASSUME u \in v.reviewed, x.status = "succeeded" PROVE ApprovedSound(r, u)
    BY <1>5 DEF ApprovedSound
  <2>1. PICK i \in 1..Len(s.reviews) : ApprovalOf(s, u, x, i)
    BY DEF OwnersStep
  <2>2. i \in 1..Len(r.reviews) /\ ApprovalOf(r, u, r.unit[u], i)
    BY <1>5, <2>1 DEF ApprovalOf
  <2> QED
    BY <2>2 DEF ApprovedSound
<1>9. Sound(v, r)
  BY <1>0, <1>1, <1>5, <1>7, <1>8, OneChange
<1> QED
  BY <1>5, <1>9

\* Work that is taken from its owner.
LEMMA ReleasedSound ==
  ASSUME NEW v, Assumed(v), NEW s, Sound(v, s), NEW u \in v.units, s.unit[u].status \in UnderWay,
         NEW again \in BOOLEAN, again => s.unit[u].retryCount < v.retries,
         NEW r, r = Meeting(v)!Released(s, u, again)
  PROVE  /\ Sound(v, r) /\ r.lifecycle = s.lifecycle /\ r.full = s.full
         /\ r.unit[u].output = s.unit[u].output
         /\ r.unit[u].status = IF again THEN "ready" ELSE "failed"
         /\ \A t \in v.units : t # u => r.unit[t] = s.unit[t]
<1> DEFINE x == IF again THEN Meeting(v)!Work("ready", None, s.unit[u].output, s.unit[u].retryCount + 1)
                ELSE Meeting(v)!Work("failed", None, s.unit[u].output, s.unit[u].retryCount)
           owner == s.unit[u].owner
           list == s.participant[owner].assigned \ {u}
<1>1. s.unit[u] \in UnitRow(v) /\ v.retries \in Nat /\ UnitSound(v, s, u)
  BY OwnersList DEF Assumed
<1>2. /\ x \in UnitRow(v) /\ x.status = IF again THEN "ready" ELSE "failed"
      /\ x.owner = None /\ x.output = s.unit[u].output /\ x.retryCount <= v.retries
  BY <1>1 DEF UnitRow, UnitSound, Meeting!Work
<1>3. r = Meeting(v)!Replaced(s, u, x, owner, list)
  BY DEF Meeting!Released
<1> HIDE DEF x
<1>4. x.status \notin UnderWay /\ x.status # "succeeded" /\ s.unit[u].output \in Nat
  BY <1>1, <1>2 DEF UnderWay, UnitRow
<1>5. MayBecome(v, s, u, x)
  BY <1>1, <1>2, <1>4 DEF MayBecome, UnitSound, UnderWay
<1>6. /\ x.status \in UnderWay => list = s.participant[owner].assigned
      /\ x.status \notin UnderWay => list = s.participant[owner].assigned \ {u}
  BY <1>4
<1>7. owner = s.unit[u].owner
  OBVIOUS
<1>9. OwnersStep(v, s, u, x, owner, list, r)
  BY <1>1, <1>2, <1>3, <1>4, <1>5, <1>6, <1>7 DEF OwnersStep
<1> HIDE DEF list, owner
<1>8. /\ Sound(v, r) /\ r.lifecycle = s.lifecycle /\ r.full = s.full
      /\ r.unit[u] = x /\ \A t \in v.units : t # u => r.unit[t] = s.unit[t]
  BY <1>9, OwnersWork
<1> QED
  BY <1>2, <1>8

\* Work goes on with its owner.
LEMMA GoingSound ==
  ASSUME NEW v, Assumed(v), NEW s, Sound(v, s), NEW u \in v.units, s.unit[u].status \in UnderWay,
         NEW status \in UnderWay, NEW output \in Nat, output >= s.unit[u].output,
         status = "awaiting_review" => output # s.unit[u].output,
         NEW r, r = Meeting(v)!Going(s, u, status, output)
  PROVE  /\ Sound(v, r) /\ r.lifecycle = s.lifecycle /\ r.full = s.full
         /\ r.unit[u].output = output /\ r.unit[u].status = status
         /\ \A t \in v.units : t # u => r.unit[t] = s.unit[t]
<1> DEFINE owner == s.unit[u].owner
           x == Meeting(v)!Work(status, owner, output, s.unit[u].retryCount)
           list == s.participant[owner].assigned
<1>1. /\ s.unit[u] \in UnitRow(v) /\ UnitSound(v, s, u)
      /\ status \in UnderWay /\ output \in Nat
  BY OwnersList
<1>2. /\ x \in UnitRow(v) /\ x.status = status /\ x.owner = owner /\ x.output = output
      /\ x.retryCount = s.unit[u].retryCount
  BY <1>1 DEF UnitRow, Meeting!Work
<1>3. r = Meeting(v)!Replaced(s, u, x, owner, list)
  BY DEF Meeting!Going
<1> HIDE DEF x
<1>4. x.status # "succeeded" /\ x.status \in UnderWay
  BY <1>2 DEF UnderWay
<1>5. MayBecome(v, s, u, x)
  BY <1>1, <1>2 DEF MayBecome, UnitSound, UnderWay
<1>6. /\ x.status \in UnderWay => list = s.participant[owner].assigned
      /\ x.status \notin UnderWay => list = s.participant[owner].assigned \ {u}
  BY <1>4
<1>7. owner = s.unit[u].owner
  OBVIOUS
<1>9. OwnersStep(v, s, u, x, owner, list, r)
  BY <1>1, <1>2, <1>3, <1>4, <1>5, <1>6, <1>7 DEF OwnersStep
<1> HIDE DEF list, owner
<1>8. /\ Sound(v, r) /\ r.lifecycle = s.lifecycle /\ r.full = s.full
      /\ r.unit[u] = x /\ \A t \in v.units : t # u => r.unit[t] = s.unit[t]
  BY <1>9, OwnersWork
<1> QED
  BY <1>2, <1>8

\* Work succeeds, approved if it has to be.
LEMMA SucceededSound ==
  ASSUME NEW v, Assumed(v), NEW s, Sound(v, s), NEW u \in v.units, s.unit[u].status \in UnderWay,
         NEW output \in Nat, output >= s.unit[u].output,
         u \in v.reviewed => \E i \in 1..Len(s.reviews) :
                              ApprovalOf(s, u, [output |-> output, owner |-> s.unit[u].owner], i),
         NEW r, r = Meeting(v)!Succeeded(s, u, output)
  PROVE  /\ Sound(v, r) /\ r.lifecycle = s.lifecycle /\ r.full = s.full
         /\ r.unit[u].output = output
         /\ \A t \in v.units : t # u => r.unit[t] = s.unit[t]
<1> DEFINE owner == s.unit[u].owner
           x == Meeting(v)!Work("succeeded", owner, output, s.unit[u].retryCount)
           list == s.participant[owner].assigned \ {u}
<1>1. /\ s.unit[u] \in UnitRow(v) /\ UnitSound(v, s, u) /\ s.unit[u].status \in UnderWay
      /\ output \in Nat
  BY OwnersList
<1>2. /\ x \in UnitRow(v) /\ x.status = "succeeded" /\ x.owner = owner
      /\ x.output = output /\ x.retryCount = s.unit[u].retryCount
  BY <1>1 DEF UnitRow, Meeting!Work
<1>3. r = Meeting(v)!Replaced(s, u, x, owner, list)
  BY DEF Meeting!Succeeded
<1> HIDE DEF x
<1>4. x.status \notin UnderWay
  BY <1>2 DEF UnderWay
<1>5. MayBecome(v, s, u, x)
  BY <1>1, <1>2 DEF MayBecome, UnitSound, UnderWay
<1>6. u \in v.reviewed => \E i \in 1..Len(s.reviews) : ApprovalOf(s, u, x, i)
  BY <1>2 DEF ApprovalOf
<1>7. /\ x.status \in UnderWay => list = s.participant[owner].assigned
      /\ x.status \notin UnderWay => list = s.participant[owner].assigned \ {u}
  BY <1>4
<1>8. owner = s.unit[u].owner
  OBVIOUS
<1>10. OwnersStep(v, s, u, x, owner, list, r)
  BY <1>1, <1>2, <1>3, <1>4, <1>5, <1>6, <1>7, <1>8 DEF OwnersStep
<1> HIDE DEF list, owner
<1>9. /\ Sound(v, r) /\ r.lifecycle = s.lifecycle /\ r.full = s.full
      /\ r.unit[u] = x /\ \A t \in v.units : t # u => r.unit[t] = s.unit[t]
  BY <1>10, OwnersWork
<1> QED
  BY <1>2, <1>9

-----------------------------------------------------------------------------
(* Least elements, and steps that are repeated.                             *)

\* A set of natural numbers that is not empty has a least element.
LEMMA LeastNatural ==
  ASSUME NEW T, T \subseteq Nat, T # {}
  PROVE  \E x \in T : \A y \in T : ~(y < x)
<1>1. IsWellFoundedOn(OpToRel(<, Nat), Nat)
  BY NatLessThanWellFounded
<1>2. \E x \in T : \A y \in T : ~(<<y, x>> \in OpToRel(<, Nat))
  BY <1>1, WFMin
<1> QED
  BY <1>2, Zenon DEF OpToRel

\* What is least by a measure.
LEMMA LeastBy ==
  ASSUME NEW S, S # {}, NEW f, \A p \in S : f[p] \in Nat
  PROVE  \E p \in S : \A q \in S : f[p] <= f[q]
<1> DEFINE T == {f[p] : p \in S}
<1>1. T \subseteq Nat /\ T # {}
  OBVIOUS
<1>2. PICK x \in T : \A y \in T : ~(y < x)
  BY <1>1, LeastNatural
<1>3. PICK p \in S : f[p] = x
  BY <1>2
<1>4. ASSUME NEW q \in S PROVE f[p] <= f[q]
  <2>1. f[q] \in T
    OBVIOUS
  <2> QED
    BY <1>2, <1>3, <2>1
<1> QED
  BY <1>4

\* A set with 0 and the successor of every natural number in it holds them all.
LEMMA AllNaturals ==
  ASSUME NEW S, 0 \in S, \A n \in Nat : n \in S => n + 1 \in S
  PROVE  Nat \subseteq S
<1> DEFINE T == Nat \ S
<1>1. SUFFICES ASSUME T # {} PROVE FALSE
  OBVIOUS
<1>2. PICK x \in T : \A y \in T : ~(y < x)
  BY <1>1, LeastNatural
<1>3. x # 0 /\ x - 1 \in Nat /\ x - 1 < x
  BY <1>2
<1>4. x - 1 \in S
  BY <1>2, <1>3
<1> QED
  BY <1>2, <1>3, <1>4

\* What begins in a set and never leaves it by a step ends in it.
LEMMA StaysIn ==
  ASSUME NEW X, NEW f, NEW N \in Nat, f[0] \in X,
         \A n \in 1..N : f[n - 1] \in X => f[n] \in X
  PROVE  f[N] \in X
<1> DEFINE S == {n \in Nat : n <= N => f[n] \in X}
<1>1. 0 \in S
  OBVIOUS
<1>2. ASSUME NEW n \in Nat, n \in S PROVE n + 1 \in S
  <2> SUFFICES ASSUME n + 1 <= N PROVE f[n + 1] \in X
    OBVIOUS
  <2>1. n + 1 \in 1..N /\ (n + 1) - 1 = n /\ f[n] \in X
    BY <1>2
  <2> QED
    BY <2>1
<1> HIDE DEF S
<1>3. Nat \subseteq S
  BY <1>1, <1>2, AllNaturals
<1> QED
  BY <1>3 DEF S

\* There is what the steps make of a beginning that is in a set they stay in.
LEMMA Iterated ==
  ASSUME NEW X, NEW s \in X, NEW N \in Nat, NEW F \in [X \X (1..N) -> X]
  PROVE  \E f : f = [n \in 0..N |-> IF n = 0 THEN s ELSE F[<<f[n - 1], n>>]] /\ f \in [0..N -> X]
<1> DEFINE Upto(n1, f) == /\ f \in [0..n1 -> X] /\ f[0] = s
                          /\ \A n \in 1..n1 : f[n] = F[<<f[n - 1], n>>]
           S == {n1 \in Nat : n1 <= N => \E f : Upto(n1, f)}
<1>1. 0 \in S
  <2> DEFINE f == [n \in 0..0 |-> s]
  <2>1. Upto(0, f)
    OBVIOUS
  <2> QED
    BY <2>1
<1>2. ASSUME NEW n1 \in Nat, n1 \in S PROVE n1 + 1 \in S
  <2> SUFFICES ASSUME n1 + 1 <= N PROVE \E f : Upto(n1 + 1, f)
    OBVIOUS
  <2>1. PICK f : Upto(n1, f)
    BY <1>2
  <2> DEFINE last == F[<<f[n1], n1 + 1>>]
             more == [n \in 0..n1 + 1 |-> IF n = n1 + 1 THEN last ELSE f[n]]
  <2>2. f[n1] \in X /\ n1 + 1 \in 1..N
    BY <2>1
  <2>3. last \in X
    BY <2>2
  <2>4. more \in [0..n1 + 1 -> X] /\ more[n1 + 1] = last /\ \A n \in 0..n1 : more[n] = f[n]
    BY <2>1, <2>3
  <2> HIDE DEF more
  <2>5. ASSUME NEW n \in 1..n1 + 1 PROVE more[n] = F[<<more[n - 1], n>>]
    <3>1. CASE n = n1 + 1
      <4>1. n - 1 = n1 /\ n1 \in 0..n1
        BY <3>1
      <4> QED
        BY <2>4, <3>1, <4>1
    <3>2. CASE n # n1 + 1
      <4>1. n \in 1..n1 /\ n \in 0..n1 /\ n - 1 \in 0..n1
        BY <3>2
      <4> QED
        BY <2>1, <2>4, <4>1
    <3> QED
      BY <3>1, <3>2
  <2>6. more[0] = s
    BY <2>1, <2>4
  <2>7. Upto(n1 + 1, more)
    BY <2>4, <2>5, <2>6
  <2> QED
    BY <2>7
<1> HIDE DEF S
<1>3. Nat \subseteq S
  BY <1>1, <1>2, AllNaturals
<1>4. \E f : Upto(N, f)
  <2>1. N \in S
    BY <1>3
  <2> HIDE DEF Upto
  <2> QED
    BY <2>1 DEF S
<1>7. PICK f : Upto(N, f)
  BY <1>4
<1>5. ASSUME NEW n \in 0..N PROVE f[n] = IF n = 0 THEN s ELSE F[<<f[n - 1], n>>]
  <2>1. n = 0 \/ n \in 1..N
    OBVIOUS
  <2> QED
    BY <1>7, <2>1
<1>6. f = [n \in 0..N |-> IF n = 0 THEN s ELSE F[<<f[n - 1], n>>]] /\ f \in [0..N -> X]
  BY <1>5, <1>7
<1> QED
  BY <1>6

-----------------------------------------------------------------------------
(* Units are assigned.                                                      *)

LEMMA CountIs ==
  ASSUME NEW v, NEW S
  PROVE  Meeting(v)!Cardinality(S) = Cardinality(S)
BY Zenon DEF Meeting!Cardinality, Cardinality

\* The least loaded of those a unit may be given to is one of them.
LEMMA ChosenIs ==
  ASSUME NEW v, Assumed(v), NEW s \in SessionRow(v), NEW A, A \subseteq v.participants, A # {}
  PROVE  \E p \in A : \A q \in A :
           LET load(t) == Meeting(v)!Cardinality(s.participant[t].assigned)
           IN  load(p) < load(q) \/ (load(p) = load(q) /\ p <= q)
<1> DEFINE load == [p \in A |-> Meeting(v)!Cardinality(s.participant[p].assigned)]
<1>1. A \subseteq Nat /\ IsFiniteSet(v.units)
  BY DEF Assumed
<1>2. ASSUME NEW p \in A PROVE load[p] \in Nat
  <2>1. s.participant[p].assigned \in SUBSET v.units
    BY RowsOf DEF ParticipantRow
  <2> QED
    BY <1>1, <2>1, FS_Subset, FS_CardinalityType, CountIs
<1>3. \A p \in A : load[p] = Meeting(v)!Cardinality(s.participant[p].assigned)
  OBVIOUS
<1> HIDE DEF load
<1>4. PICK least \in A : \A q \in A : load[least] <= load[q]
  BY <1>2, LeastBy
<1> DEFINE B == {p \in A : load[p] = load[least]}
<1>5. PICK p \in B : \A q \in B : ~(q < p)
  <2>1. B \subseteq Nat /\ B # {}
    BY <1>1, <1>4
  <2> QED
    BY <2>1, LeastNatural
<1>6. ASSUME NEW q \in A PROVE load[p] < load[q] \/ (load[p] = load[q] /\ p <= q)
  BY <1>1, <1>2, <1>4, <1>5
<1> QED
  BY <1>3, <1>5, <1>6

\* What has ended, the outputs and the lifecycle stay.
Keeps(v, s, r) ==
  /\ r.lifecycle = s.lifecycle
  /\ \A u \in v.units :
       /\ r.unit[u].output >= s.unit[u].output
       /\ r.unit[u].status = "succeeded" <=> s.unit[u].status = "succeeded"
       /\ r.unit[u].status = "failed" <=> s.unit[u].status = "failed"

LEMMA KeepsTwice ==
  ASSUME NEW v, NEW s \in SessionRow(v), NEW r \in SessionRow(v), NEW t \in SessionRow(v),
         Keeps(v, s, r), Keeps(v, r, t)
  PROVE  Keeps(v, s, t)
<1>1. \A u \in v.units : s.unit[u].output \in Nat /\ r.unit[u].output \in Nat /\ t.unit[u].output \in Nat
  BY RowsOf DEF UnitRow
<1> QED
  BY <1>1 DEF Keeps

LEMMA KeepsItself ==
  ASSUME NEW v, NEW s \in SessionRow(v)
  PROVE  Keeps(v, s, s)
BY RowsOf DEF Keeps, UnitRow

LEMMA KeepsEnds ==
  ASSUME NEW v, NEW s, NEW r, Keeps(v, s, r), Ends(v, s)
  PROVE  Ends(v, r)
BY DEF Keeps, Ends

LEMMA AssignedSound ==
  ASSUME NEW v, Assumed(v), NEW s, Sound(v, s), NEW u \in v.units,
         NEW r, r = Meeting(v)!Assigned(s, u)
  PROVE  Sound(v, r) /\ Keeps(v, s, r)
<1> DEFINE available == {p \in v.eligible[u] : s.participant[p].status = "active"}
           load(p) == Meeting(v)!Cardinality(s.participant[p].assigned)
           chosen == CHOOSE p \in available : \A q \in available :
                       load(p) < load(q) \/ (load(p) = load(q) /\ p <= q)
           x == Meeting(v)!Work("assigned", chosen, s.unit[u].output, s.unit[u].retryCount)
           list == s.participant[chosen].assigned \union {u}
<1>0. s \in SessionRow(v)
  BY DEF Sound
<1>1. CASE ~(s.unit[u].status = "ready" /\ available # {})
  <2>1. r = s
    BY <1>1 DEF Meeting!Assigned
  <2> QED
    BY <1>0, <2>1, KeepsItself
<1>2. CASE s.unit[u].status = "ready" /\ available # {}
  <2>1. available \subseteq v.participants
    BY DEF Assumed
  <2>2. chosen \in available
    <3> HIDE DEF available
    <3> QED
      BY <1>0, <1>2, <2>1, ChosenIs
  <2>3. r = Meeting(v)!Replaced(s, u, x, chosen, list)
    BY <1>2, Zenon DEF Meeting!Assigned
  <2>4. chosen \in v.participants
    BY <2>1, <2>2
  <2> HIDE DEF available, chosen
  <2>5. /\ s.unit[u] \in UnitRow(v) /\ s.participant[chosen] \in ParticipantRow(v)
        /\ UnitSound(v, s, u)
    BY <1>0, <2>4, RowsOf DEF Sound
  <2>6. /\ x \in UnitRow(v) /\ x.status = "assigned" /\ x.owner = chosen
        /\ x.output = s.unit[u].output /\ x.retryCount = s.unit[u].retryCount
    BY <2>4, <2>5 DEF UnitRow, Meeting!Work, UnderWay
  <2>7. list \in SUBSET v.units
    BY <2>5 DEF ParticipantRow
  <2>8. list = s.participant[chosen].assigned \union {u}
    OBVIOUS
  <2> HIDE DEF x, list
  <2>9. /\ r \in SessionRow(v)
        /\ r.unit[u] = x /\ \A t \in v.units : t # u => r.unit[t] = s.unit[t]
        /\ r.participant[chosen].assigned = list
        /\ \A p \in v.participants : p # chosen => r.participant[p] = s.participant[p]
        /\ r.reviews = s.reviews /\ r.lifecycle = s.lifecycle /\ r.full = s.full
    BY <1>0, <2>3, <2>4, <2>6, <2>7, NextUnit
  <2>10. \A p \in v.participants : u \notin s.participant[p].assigned
    BY <1>2 DEF Sound, ListSound, UnderWay
  <2>11. ASSUME NEW p \in v.participants
         PROVE  r.participant[p].assigned =
                  IF x.status \in UnderWay /\ x.owner = p THEN s.participant[p].assigned \union {u}
                  ELSE s.participant[p].assigned \ {u}
    <3>1. CASE p = chosen
      BY <2>6, <2>8, <2>9, <3>1 DEF UnderWay
    <3>2. CASE p # chosen
      <4>0. s.participant[p].assigned \in SUBSET v.units
        BY <1>0, RowsOf DEF ParticipantRow
      <4> DEFINE old == s.participant[p].assigned
      <4>1. u \notin old /\ r.participant[p].assigned = old
        BY <2>9, <2>10, <3>2
      <4> HIDE DEF old
      <4>2. old \ {u} = old
        BY <4>1
      <4>3. r.participant[p].assigned = old \ {u}
        BY <4>1, <4>2
      <4> QED
        BY <2>6, <3>2, <4>3 DEF old
    <3> QED
      BY <3>1, <3>2
  <2>12. UnitBecomes(v, s, u, x, r)
    BY <2>6, <2>9, <2>11 DEF UnitBecomes
  <2>13. MayBecome(v, s, u, x)
    <3>1. chosen # None
      BY <2>4 DEF Assumed
    <3>2. s.unit[u].output \in Nat
      BY <2>5 DEF UnitRow
    <3> QED
      BY <1>2, <2>5, <2>6, <3>1, <3>2 DEF MayBecome, UnitSound
  <2>14. u \in v.reviewed => ApprovedSound(r, u)
    BY <2>6, <2>9 DEF ApprovedSound
  <2>15. s.unit[u].status # "succeeded"
    BY <1>2
  <2>16. Sound(v, r)
    BY <2>9, <2>12, <2>13, <2>14, <2>15, OneChange
  <2>17. Keeps(v, s, r)
    <3>1. \A t \in v.units : s.unit[t].output \in Nat
      BY <1>0, RowsOf DEF UnitRow
    <3>2. ASSUME NEW t \in v.units
          PROVE  /\ r.unit[t].output = s.unit[t].output
                 /\ r.unit[t].status = "succeeded" <=> s.unit[t].status = "succeeded"
                 /\ r.unit[t].status = "failed" <=> s.unit[t].status = "failed"
      BY <1>2, <2>6, <2>9
    <3> QED
      BY <2>9, <3>1, <3>2 DEF Keeps
  <2> QED
    BY <2>16, <2>17
<1> QED
  BY <1>1, <1>2

\* All of the order are.
LEMMA AllAssignedSound ==
  ASSUME NEW v, Assumed(v), NEW s, Sound(v, s),
         NEW r, r = Meeting(v)!AllAssigned(s)[Len(v.order)]
  PROVE  Sound(v, r) /\ Keeps(v, s, r)
<1> DEFINE X == {t \in SessionRow(v) : Sound(v, t) /\ Keeps(v, s, t)}
           N == Len(v.order)
           F == [y \in X \X (1..N) |-> Meeting(v)!Assigned(y[1], v.order[y[2]])]
           after == CHOOSE f : f = [n \in 0..N |-> IF n = 0 THEN s
                                                 ELSE Meeting(v)!Assigned(f[n - 1], v.order[n])]
<1>1. s \in X
  BY KeepsItself DEF Sound
<1>2. N \in Nat /\ \A n \in 1..N : v.order[n] \in v.units
  BY DEF Assumed
<1>3. ASSUME NEW t \in X, NEW n \in 1..N PROVE Meeting(v)!Assigned(t, v.order[n]) \in X
  <2> DEFINE a == Meeting(v)!Assigned(t, v.order[n])
  <2>1. t \in SessionRow(v) /\ Sound(v, t) /\ Keeps(v, s, t)
    OBVIOUS
  <2>2. Sound(v, a) /\ Keeps(v, t, a)
    BY <1>2, <2>1, AssignedSound
  <2> HIDE DEF a
  <2>3. a \in SessionRow(v) /\ s \in SessionRow(v)
    BY <2>2 DEF Sound
  <2>4. Keeps(v, s, a)
    BY <2>1, <2>2, <2>3, KeepsTwice
  <2> QED
    BY <2>2, <2>3, <2>4 DEF a
<1>4. r = after[N]
  BY DEF Meeting!AllAssigned
<1> HIDE DEF X, N
<1>5. F \in [X \X (1..N) -> X] /\ \A t \in X, n \in 1..N : F[<<t, n>>] = Meeting(v)!Assigned(t, v.order[n])
  BY <1>3
<1> HIDE DEF F
<1>6. PICK f : f = [n \in 0..N |-> IF n = 0 THEN s ELSE F[<<f[n - 1], n>>]] /\ f \in [0..N -> X]
  BY <1>1, <1>2, <1>5, Iterated
<1>7. ASSUME NEW n \in 0..N
      PROVE  f[n] = IF n = 0 THEN s ELSE Meeting(v)!Assigned(f[n - 1], v.order[n])
  <2>1. f[n] = IF n = 0 THEN s ELSE F[<<f[n - 1], n>>]
    BY <1>6
  <2>2. n # 0 => n \in 1..N /\ f[n - 1] \in X
    BY <1>2, <1>6
  <2> QED
    BY <1>5, <2>1, <2>2
<1>8. f = [n \in 0..N |-> IF n = 0 THEN s ELSE Meeting(v)!Assigned(f[n - 1], v.order[n])]
  BY <1>6, <1>7
<1>9. after = [n \in 0..N |-> IF n = 0 THEN s ELSE Meeting(v)!Assigned(after[n - 1], v.order[n])]
  BY <1>8, Zenon
<1> HIDE DEF after
<1>10. after[0] = s /\ \A n \in 1..N : after[n] = Meeting(v)!Assigned(after[n - 1], v.order[n])
  <2>1. ASSUME NEW n \in 0..N
        PROVE  after[n] = IF n = 0 THEN s ELSE Meeting(v)!Assigned(after[n - 1], v.order[n])
    BY <1>9
  <2>2. after[0] = s
    <3>1. 0 \in 0..N
      BY <1>2
    <3> QED
      BY <2>1, <3>1
  <2>3. ASSUME NEW n \in 1..N PROVE after[n] = Meeting(v)!Assigned(after[n - 1], v.order[n])
    <3>1. n \in 0..N /\ n # 0
      BY <1>2
    <3> QED
      BY <2>1, <3>1
  <2> QED
    BY <2>2, <2>3
<1>11. after[N] \in X
  BY <1>1, <1>2, <1>3, <1>10, StaysIn
<1> QED
  BY <1>4, <1>11 DEF X

-----------------------------------------------------------------------------
(* Reviews are asked for, given to others and decided.                      *)

\* Who is asked first for a review is one of those who can be asked.
LEMMA FirstIs ==
  ASSUME NEW v, Assumed(v), NEW s \in SessionRow(v), NEW requester,
         Meeting(v)!Reviewers(s, requester) # {}
  PROVE  /\ Meeting(v)!FirstReviewer(s, requester) \in Meeting(v)!Reviewers(s, requester)
         /\ Meeting(v)!FirstReviewer(s, requester) \in v.participants \ {requester}
<1> DEFINE A == Meeting(v)!Reviewers(s, requester)
           busy == [p \in A |-> Meeting(v)!Cardinality(Meeting(v)!PendingOf(s, p))]
<1>1. /\ A \subseteq v.participants \ {requester} /\ A \subseteq Nat
      /\ \A p \in A : v.role[p] \in {"reviewer", "coordinator"}
  BY DEF Meeting!Reviewers, Assumed
<1>2. ASSUME NEW p \in A PROVE busy[p] \in Nat
  <2>1. Meeting(v)!PendingOf(s, p) \subseteq 1..Len(s.reviews) /\ Len(s.reviews) \in Nat
    BY RowsOf DEF Meeting!PendingOf
  <2>2. IsFiniteSet(1..Len(s.reviews))
    BY <2>1, FS_Interval
  <2> QED
    BY <2>1, <2>2, FS_Subset, FS_CardinalityType, CountIs
<1>3. \A p \in A : busy[p] = Meeting(v)!Cardinality(Meeting(v)!PendingOf(s, p))
  OBVIOUS
<1> HIDE DEF busy
<1>4. A # {}
  OBVIOUS
<1>5. Meeting(v)!FirstReviewer(s, requester) =
        CHOOSE p \in A : \A q \in A :
          \/ Meeting(v)!Cardinality(Meeting(v)!PendingOf(s, p)) <
                 Meeting(v)!Cardinality(Meeting(v)!PendingOf(s, q))
          \/ (Meeting(v)!Cardinality(Meeting(v)!PendingOf(s, p)) =
                  Meeting(v)!Cardinality(Meeting(v)!PendingOf(s, q))
              /\ v.role[p] = "reviewer" /\ v.role[q] # "reviewer")
          \/ (Meeting(v)!Cardinality(Meeting(v)!PendingOf(s, p)) =
                  Meeting(v)!Cardinality(Meeting(v)!PendingOf(s, q))
              /\ v.role[p] = v.role[q] /\ p <= q)
  BY DEF Meeting!FirstReviewer
<1> HIDE DEF A
<1>6. PICK least \in A : \A q \in A : busy[least] <= busy[q]
  BY <1>2, <1>4, LeastBy
<1> DEFINE B == {p \in A : busy[p] = busy[least]}
           C == {p \in B : v.role[p] = "reviewer"}
           D == IF C # {} THEN C ELSE B
<1>7. D \subseteq Nat /\ D # {}
  BY <1>1, <1>6
<1>8. PICK p \in D : \A q \in D : ~(q < p)
  <2> HIDE DEF D
  <2> QED
    BY <1>7, LeastNatural
<1>9. p \in A /\ busy[p] = busy[least]
  BY <1>8
<1>10. ASSUME NEW q \in A
       PROVE  \/ busy[p] < busy[q]
              \/ busy[p] = busy[q] /\ v.role[p] = "reviewer" /\ v.role[q] # "reviewer"
              \/ busy[p] = busy[q] /\ v.role[p] = v.role[q] /\ p <= q
  <2>1. busy[p] <= busy[q] /\ busy[p] \in Nat /\ busy[q] \in Nat /\ p \in Nat /\ q \in Nat
    BY <1>1, <1>2, <1>6, <1>9
  <2> SUFFICES ASSUME busy[q] = busy[p]
               PROVE  \/ v.role[p] = "reviewer" /\ v.role[q] # "reviewer"
                      \/ v.role[p] = v.role[q] /\ p <= q
    BY <2>1
  <2>2. q \in B /\ p \in B
    BY <1>9
  <2>3. CASE C # {}
    BY <1>8, <2>1, <2>2, <2>3
  <2>4. CASE C = {}
    BY <1>1, <1>8, <2>1, <2>2, <2>4
  <2> QED
    BY <2>3, <2>4
<1>11. Meeting(v)!FirstReviewer(s, requester) \in A
  <2>1. ASSUME NEW q \in A
        PROVE  \/ Meeting(v)!Cardinality(Meeting(v)!PendingOf(s, p)) <
                      Meeting(v)!Cardinality(Meeting(v)!PendingOf(s, q))
               \/ (Meeting(v)!Cardinality(Meeting(v)!PendingOf(s, p)) =
                       Meeting(v)!Cardinality(Meeting(v)!PendingOf(s, q))
                   /\ v.role[p] = "reviewer" /\ v.role[q] # "reviewer")
               \/ (Meeting(v)!Cardinality(Meeting(v)!PendingOf(s, p)) =
                       Meeting(v)!Cardinality(Meeting(v)!PendingOf(s, q))
                   /\ v.role[p] = v.role[q] /\ p <= q)
    BY <1>3, <1>9, <1>10
  <2> QED
    BY <1>5, <1>9, <2>1, Zenon
<1> QED
  BY <1>1, <1>11 DEF A

\* A review is replaced by another of the same output.
LEMMA ReviewReplaced ==
  ASSUME NEW v, Assumed(v), NEW s, Sound(v, s), NEW i \in 1..Len(s.reviews),
         NEW review \in ReviewRow(v), review.unit = s.reviews[i].unit,
         review.output = s.reviews[i].output, review.requester = s.reviews[i].requester,
         review.reviewer # review.requester, s.reviews[i].status # "approved",
         NEW r, r = Meeting(v)!WithReview(s, i, review)
  PROVE  /\ Sound(v, r) /\ r.unit = s.unit /\ r.participant = s.participant
         /\ r.lifecycle = s.lifecycle /\ r.full = s.full
         /\ Len(r.reviews) = Len(s.reviews) /\ r.reviews[i] = review
<1> DEFINE reviews == [s.reviews EXCEPT ![i] = review]
<1>0. s \in SessionRow(v)
  BY DEF Sound
<1>1. r = [s EXCEPT !.reviews = reviews]
  BY DEF Meeting!WithReview
<1>2. /\ reviews \in Seq(ReviewRow(v)) /\ Len(reviews) = Len(s.reviews)
      /\ \A j \in 1..Len(s.reviews) : reviews[j] = IF j = i THEN review ELSE s.reviews[j]
  BY <1>0, RowsOf, ExceptSeq
<1> HIDE DEF reviews
<1>3. /\ r \in SessionRow(v) /\ r.unit = s.unit /\ r.participant = s.participant
      /\ r.reviews = reviews /\ r.lifecycle = s.lifecycle /\ r.full = s.full
  BY <1>0, <1>1, <1>2 DEF SessionRow
<1>4. ASSUME NEW j \in 1..Len(s.reviews)
      PROVE  /\ r.reviews[j].unit = s.reviews[j].unit /\ r.reviews[j].output = s.reviews[j].output
             /\ r.reviews[j].requester = s.reviews[j].requester
             /\ r.reviews[j].reviewer # r.reviews[j].requester
             /\ s.reviews[j].status = "approved" =>
                  r.reviews[j].status = "approved" /\ r.reviews[j].reviewer = s.reviews[j].reviewer
  <2>1. s.reviews[j].reviewer # s.reviews[j].requester
    BY DEF Sound, ReviewSound
  <2> QED
    BY <1>2, <1>3, <2>1
<1>5. Sound(v, r)
  BY <1>2, <1>3, <1>4, OtherReviews
<1> QED
  BY <1>2, <1>3, <1>5

\* Another review is asked for, of the output that waits for it.
LEMMA ReviewAsked ==
  ASSUME NEW v, Assumed(v), NEW s, Sound(v, s), NEW review \in ReviewRow(v),
         review.reviewer # review.requester, review.output = s.unit[review.unit].output,
         review.requester = s.unit[review.unit].owner,
         NEW r, r = [s EXCEPT !.reviews = Append(s.reviews, review)]
  PROVE  Sound(v, r) /\ Keeps(v, s, r)
<1> DEFINE reviews == Append(s.reviews, review)
<1>0. s \in SessionRow(v)
  BY DEF Sound
<1>1. r = [s EXCEPT !.reviews = reviews]
  OBVIOUS
<1>2. /\ reviews \in Seq(ReviewRow(v)) /\ Len(reviews) = Len(s.reviews) + 1
      /\ Len(s.reviews) \in Nat /\ reviews[Len(s.reviews) + 1] = review
      /\ \A j \in 1..Len(s.reviews) : reviews[j] = s.reviews[j]
  BY <1>0, RowsOf, AppendProperties
<1> HIDE DEF reviews
<1>3. /\ r \in SessionRow(v) /\ r.unit = s.unit /\ r.participant = s.participant
      /\ r.reviews = reviews /\ r.lifecycle = s.lifecycle /\ r.full = s.full
  BY <1>0, <1>1, <1>2 DEF SessionRow
<1>4. \A u \in v.units : UnitSound(v, r, u)
  BY <1>3 DEF Sound, UnitSound
<1>5. \A u \in v.units, p \in v.participants : ListSound(r, u, p)
  BY <1>3 DEF Sound, ListSound
<1>6. ASSUME NEW i \in 1..Len(r.reviews) PROVE ReviewSound(r, i)
  <2>1. CASE i = Len(s.reviews) + 1
    <3>1. r.reviews[i] = review
      BY <1>2, <1>3, <2>1
    <3>2. s.unit[review.unit].output \in Nat
      BY <1>0, RowsOf DEF ReviewRow, UnitRow
    <3> QED
      BY <1>3, <3>1, <3>2 DEF ReviewSound
  <2>2. CASE i # Len(s.reviews) + 1
    <3>1. i \in 1..Len(s.reviews)
      BY <1>2, <1>3, <2>2
    <3>2. r.reviews[i] = s.reviews[i] /\ ReviewSound(s, i)
      BY <1>2, <1>3, <3>1 DEF Sound
    <3> QED
      BY <1>3, <3>2 DEF ReviewSound
  <2> QED
    BY <2>1, <2>2
<1>7. ASSUME NEW u \in v.reviewed PROVE ApprovedSound(r, u)
  <2>1. ApprovedSound(s, u)
    BY DEF Sound
  <2>2. \A i \in 1..Len(s.reviews) : i \in 1..Len(r.reviews) /\ r.reviews[i] = s.reviews[i]
    BY <1>2, <1>3
  <2> QED
    BY <1>3, <2>1, <2>2 DEF ApprovedSound, ApprovalOf
<1>8. Keeps(v, s, r)
  BY <1>0, <1>3, RowsOf DEF Keeps, UnitRow
<1> QED
  BY <1>3, <1>4, <1>5, <1>6, <1>7, <1>8 DEF Sound

\* A message uses the quota up, or not.
LEMMA MessageSound ==
  ASSUME NEW v, NEW s, Sound(v, s), NEW r \in Meeting(v)!Appended(s)
  PROVE  /\ Sound(v, r) /\ Keeps(v, s, r) /\ r.lifecycle = s.lifecycle
         /\ r.unit = s.unit
<1>0. s \in SessionRow(v)
  BY DEF Sound
<1>1. r = s \/ r = [s EXCEPT !.full = TRUE]
  BY DEF Meeting!Appended
<1>2. /\ r \in SessionRow(v) /\ r.unit = s.unit /\ r.participant = s.participant
      /\ r.reviews = s.reviews /\ r.lifecycle = s.lifecycle
  BY <1>0, <1>1 DEF SessionRow
<1>3. Sound(v, r)
  BY <1>2, SameWork
<1>4. Keeps(v, s, r)
  BY <1>0, <1>2, RowsOf DEF Keeps, UnitRow
<1> QED
  BY <1>2, <1>3, <1>4

-----------------------------------------------------------------------------
(* Recovery.                                                                *)

LEMMA ReleasedIs ==
  ASSUME NEW v, NEW s \in SessionRow(v), NEW u \in v.units, s.unit[u].owner \in v.participants,
         NEW again \in BOOLEAN
  PROVE  Meeting(v)!Released(s, u, again).unit[u] =
           IF again THEN Meeting(v)!Work("ready", None, s.unit[u].output, s.unit[u].retryCount + 1)
           ELSE Meeting(v)!Work("failed", None, s.unit[u].output, s.unit[u].retryCount)
<1> DEFINE x == IF again THEN Meeting(v)!Work("ready", None, s.unit[u].output, s.unit[u].retryCount + 1)
                ELSE Meeting(v)!Work("failed", None, s.unit[u].output, s.unit[u].retryCount)
           owner == s.unit[u].owner
           list == s.participant[owner].assigned \ {u}
           r == Meeting(v)!Released(s, u, again)
<1>1. r = Meeting(v)!Replaced(s, u, x, owner, list)
  BY DEF Meeting!Released
<1>2. owner \in v.participants /\ s.unit[u] \in UnitRow(v) /\ s.participant[owner] \in ParticipantRow(v)
  BY RowsOf
<1>3. x \in UnitRow(v) /\ list \in SUBSET v.units
  BY <1>2 DEF UnitRow, ParticipantRow, Meeting!Work
<1> HIDE DEF x, owner, list, r
<1>4. r.unit[u] = x
  BY <1>1, <1>2, <1>3, NextUnit
<1> QED
  BY <1>4 DEF r, x

\* What the abandoned own is released.
LEMMA WithoutAbandonedSound ==
  ASSUME NEW v, Assumed(v), Sound(v, session), NEW r, r = Meeting(v)!WithoutAbandoned
  PROVE  /\ Sound(v, r) /\ r.lifecycle = session.lifecycle
         /\ r.reviews = session.reviews
         /\ \A u \in v.units : r.unit[u].output = session.unit[u].output
<1> DEFINE A == Meeting(v)!Abandoned
           lost == {u \in v.units : /\ session.unit[u].owner \in A
                                    /\ session.unit[u].status \notin {"succeeded", "failed"}}
           new(u) == Meeting(v)!Released(session, u, Meeting(v)!CanRetry(session, u)).unit[u]
           unit == [u \in v.units |-> IF u \in lost THEN new(u) ELSE session.unit[u]]
           participant == [p \in v.participants |->
              IF p \in A THEN [status |-> "abandoned", assigned |-> session.participant[p].assigned \ lost]
              ELSE session.participant[p]]
<1>0. session \in SessionRow(v)
  BY DEF Sound
<1>1. r = With(session, unit, participant)
  BY DEF Meeting!WithoutAbandoned, With
<1>2. A \subseteq v.participants
  BY DEF Meeting!Abandoned
<1> HIDE DEF A
<1>3. ASSUME NEW u \in lost
      PROVE  /\ u \in v.units /\ session.unit[u].status \in UnderWay
             /\ session.unit[u].owner \in A /\ session.unit[u].owner # None
             /\ new(u) \in UnitRow(v) /\ new(u).status \in {"ready", "failed"}
             /\ new(u).owner = None /\ new(u).output = session.unit[u].output
             /\ new(u).retryCount <= v.retries
  <2> DEFINE again == Meeting(v)!CanRetry(session, u)
  <2>1. /\ u \in v.units /\ session.unit[u].owner \in A
        /\ session.unit[u].status \notin {"succeeded", "failed"}
    OBVIOUS
  <2>2. session.unit[u] \in UnitRow(v) /\ UnitSound(v, session, u)
    BY <1>0, <2>1, RowsOf DEF Sound
  <2>3. session.unit[u].owner \in v.participants /\ session.unit[u].owner # None
    BY <1>2, <2>1 DEF Assumed
  <2>4. session.unit[u].status \in UnderWay
    BY <2>1, <2>2, <2>3 DEF UnitSound, UnitRow
  <2>5. again \in BOOLEAN /\ (again => session.unit[u].retryCount < v.retries)
    BY DEF Meeting!CanRetry
  <2> HIDE DEF again
  <2>6. new(u) = IF again
                   THEN Meeting(v)!Work("ready", None, session.unit[u].output, session.unit[u].retryCount + 1)
                 ELSE Meeting(v)!Work("failed", None, session.unit[u].output, session.unit[u].retryCount)
    <3>1. Meeting(v)!Released(session, u, again).unit[u] =
            IF again
              THEN Meeting(v)!Work("ready", None, session.unit[u].output, session.unit[u].retryCount + 1)
            ELSE Meeting(v)!Work("failed", None, session.unit[u].output, session.unit[u].retryCount)
      BY <1>0, <2>1, <2>3, <2>5, ReleasedIs
    <3> QED
      BY <3>1 DEF again
  <2>7. v.retries \in Nat /\ session.unit[u].retryCount <= v.retries
    BY <2>2 DEF Assumed, UnitSound
  <2> HIDE DEF lost, new
  <2> QED
    BY <2>1, <2>2, <2>3, <2>4, <2>5, <2>6, <2>7 DEF UnitRow, Meeting!Work
<1>4. \A u \in v.units : unit[u] = IF u \in lost THEN new(u) ELSE session.unit[u]
  OBVIOUS
<1> HIDE DEF new
<1>5. unit \in [v.units -> UnitRow(v)]
  BY <1>0, <1>3, RowsOf
<1>6. ASSUME NEW p \in v.participants
      PROVE  /\ participant[p].assigned = IF p \in A THEN session.participant[p].assigned \ lost
                                          ELSE session.participant[p].assigned
             /\ participant[p] \in ParticipantRow(v)
  <2>1. session.participant[p] \in ParticipantRow(v)
    BY <1>0, RowsOf
  <2>2. CASE p \in A
    BY <2>1, <2>2 DEF ParticipantRow
  <2>3. CASE p \notin A
    BY <2>1, <2>3
  <2> QED
    BY <2>2, <2>3
<1>7. participant \in [v.participants -> ParticipantRow(v)]
  BY <1>6
<1>8. \A u \in lost : u \in v.units
  OBVIOUS
<1> HIDE DEF unit, participant, lost
<1>9. /\ r \in SessionRow(v) /\ r.unit = unit /\ r.participant = participant
      /\ r.reviews = session.reviews /\ r.lifecycle = session.lifecycle
  BY <1>0, <1>1, <1>5, <1>7, NextSession
<1>10. ASSUME NEW u \in v.units
       PROVE  \/ /\ u \in lost /\ r.unit[u].status \in {"ready", "failed"} /\ r.unit[u].owner = None
                 /\ r.unit[u].output = session.unit[u].output /\ r.unit[u].retryCount <= v.retries
              \/ u \notin lost /\ r.unit[u] = session.unit[u]
  BY <1>3, <1>4, <1>9
<1>11. ASSUME NEW u \in v.units PROVE UnitSound(v, r, u)
  <2>1. UnitSound(v, session, u)
    BY DEF Sound
  <2>2. ASSUME NEW q \in v.prerequisites[u], session.unit[q].status = "succeeded"
        PROVE  r.unit[q].status = "succeeded"
    <3>1. q \in v.units
      BY DEF Assumed
    <3>2. q \notin lost
      BY <1>3, <2>2 DEF UnderWay
    <3> QED
      BY <1>10, <2>2, <3>1, <3>2
  <2>3. CASE u \in lost
    <3>1. session.unit[u].status \in UnderWay
      BY <1>3, <2>3
    <3>2. \A q \in v.prerequisites[u] : r.unit[q].status = "succeeded"
      BY <2>1, <2>2, <3>1 DEF UnitSound, UnderWay
    <3> QED
      BY <1>10, <2>3, <3>2 DEF UnitSound
  <2>4. CASE u \notin lost
    BY <1>10, <2>1, <2>2, <2>4 DEF UnitSound
  <2> QED
    BY <2>3, <2>4
<1>12. ASSUME NEW u \in v.units, NEW p \in v.participants PROVE ListSound(r, u, p)
  <2>1. ListSound(session, u, p)
    BY DEF Sound
  <2>2. p # None
    BY DEF Assumed
  <2>3. r.participant[p].assigned = IF p \in A THEN session.participant[p].assigned \ lost
                                    ELSE session.participant[p].assigned
    BY <1>6, <1>9
  <2>4. CASE u \in lost
    <3>1. session.unit[u].owner \in A /\ r.unit[u].owner = None
      BY <1>3, <1>10, <2>4
    <3>2. u \notin r.participant[p].assigned
      BY <2>1, <2>3, <2>4, <3>1 DEF ListSound
    <3> QED
      BY <2>2, <3>1, <3>2 DEF ListSound
  <2>5. CASE u \notin lost
    <3>1. r.unit[u] = session.unit[u]
      BY <1>10, <2>5
    <3>2. u \in r.participant[p].assigned <=> u \in session.participant[p].assigned
      BY <2>3, <2>5
    <3> QED
      BY <2>1, <3>1, <3>2 DEF ListSound
  <2> QED
    BY <2>4, <2>5
<1>13. ASSUME NEW i \in 1..Len(r.reviews) PROVE ReviewSound(r, i)
  <2>1. i \in 1..Len(session.reviews) /\ ReviewSound(session, i) /\ session.reviews[i].unit \in v.units
    BY <1>0, <1>9, RowsOf DEF Sound, ReviewRow
  <2>2. r.unit[session.reviews[i].unit].output = session.unit[session.reviews[i].unit].output
    BY <1>10, <2>1
  <2>3. r.unit[session.reviews[i].unit].status = "awaiting_review" =>
          r.unit[session.reviews[i].unit] = session.unit[session.reviews[i].unit]
    BY <1>10, <2>1
  <2> QED
    BY <1>9, <2>1, <2>2, <2>3 DEF ReviewSound
<1>14. ASSUME NEW u \in v.reviewed PROVE ApprovedSound(r, u)
  <2>1. u \in v.units /\ ApprovedSound(session, u)
    BY DEF Assumed, Sound
  <2>2. r.unit[u].status = "succeeded" => r.unit[u] = session.unit[u]
    BY <1>10, <2>1
  <2> QED
    BY <1>9, <2>1, <2>2 DEF ApprovedSound, ApprovalOf
<1>15. Sound(v, r)
  BY <1>9, <1>11, <1>12, <1>13, <1>14 DEF Sound
<1> QED
  BY <1>9, <1>10, <1>15

\* Nothing but the reviews changes.
SameUnits(s, r) ==
  /\ r.unit = s.unit /\ r.participant = s.participant /\ r.lifecycle = s.lifecycle
  /\ Len(r.reviews) = Len(s.reviews)

LEMMA ReroutedSound ==
  ASSUME NEW v, Assumed(v), NEW s, Sound(v, s), NEW i \in 1..Len(s.reviews),
         NEW r, r = Meeting(v)!Rerouted(s, i)
  PROVE  Sound(v, r) /\ SameUnits(s, r)
<1> DEFINE review == s.reviews[i]
           cancelled == [review EXCEPT !.status = "cancelled"]
           first == Meeting(v)!FirstReviewer(s, review.requester)
           given == [review EXCEPT !.reviewer = first]
<1>0. s \in SessionRow(v)
  BY DEF Sound
<1>1. review \in ReviewRow(v) /\ review.reviewer # review.requester
  BY <1>0, RowsOf DEF Sound, ReviewSound
<1>2. CASE ~(review.status = "pending" /\ review.reviewer \in Meeting(v)!Abandoned)
  <2>1. r = s
    BY <1>2 DEF Meeting!Rerouted
  <2> QED
    BY <2>1 DEF SameUnits
<1>3. CASE review.status = "pending" /\ review.reviewer \in Meeting(v)!Abandoned
  <2>1. CASE Meeting(v)!Reviewers(s, review.requester) = {}
    <3>1. r = Meeting(v)!WithReview(s, i, cancelled)
      BY <1>3, <2>1 DEF Meeting!Rerouted
    <3>2. /\ cancelled \in ReviewRow(v) /\ cancelled.unit = review.unit
          /\ cancelled.output = review.output /\ cancelled.requester = review.requester
          /\ cancelled.reviewer # cancelled.requester
      BY <1>1 DEF ReviewRow
    <3> HIDE DEF cancelled
    <3> QED
      BY <1>3, <3>1, <3>2, ReviewReplaced DEF SameUnits
  <2>2. CASE Meeting(v)!Reviewers(s, review.requester) # {}
    <3>1. r = Meeting(v)!WithReview(s, i, given)
      BY <1>3, <2>2 DEF Meeting!Rerouted
    <3>2. first \in v.participants \ {review.requester}
      BY <1>0, <2>2, FirstIs
    <3> HIDE DEF first
    <3>3. /\ given \in ReviewRow(v) /\ given.unit = review.unit
          /\ given.output = review.output /\ given.requester = review.requester
          /\ given.reviewer # given.requester
      BY <1>1, <3>2 DEF ReviewRow
    <3> HIDE DEF given
    <3> QED
      BY <1>3, <3>1, <3>3, ReviewReplaced DEF SameUnits
  <2> QED
    BY <2>1, <2>2
<1> QED
  BY <1>2, <1>3

LEMMA AllReroutedSound ==
  ASSUME NEW v, Assumed(v), NEW s, Sound(v, s),
         NEW r, r = Meeting(v)!AllRerouted(s)[Len(s.reviews)]
  PROVE  Sound(v, r) /\ SameUnits(s, r)
<1> DEFINE X == {t \in SessionRow(v) : Sound(v, t) /\ SameUnits(s, t)}
           N == Len(s.reviews)
           F == [y \in X \X (1..N) |-> Meeting(v)!Rerouted(y[1], y[2])]
           after == CHOOSE f : f = [n \in 0..N |-> IF n = 0 THEN s
                                                 ELSE Meeting(v)!Rerouted(f[n - 1], n)]
<1>1. s \in X
  BY DEF Sound, SameUnits
<1>2. N \in Nat
  BY RowsOf DEF Sound
<1>3. ASSUME NEW t \in X, NEW n \in 1..N PROVE Meeting(v)!Rerouted(t, n) \in X
  <2> DEFINE a == Meeting(v)!Rerouted(t, n)
  <2>1. t \in SessionRow(v) /\ Sound(v, t) /\ SameUnits(s, t) /\ n \in 1..Len(t.reviews)
    BY DEF SameUnits
  <2>2. Sound(v, a) /\ SameUnits(t, a)
    BY <2>1, ReroutedSound
  <2> HIDE DEF a
  <2>3. a \in SessionRow(v) /\ SameUnits(s, a)
    BY <2>1, <2>2 DEF Sound, SameUnits
  <2> QED
    BY <2>2, <2>3 DEF a
<1>4. r = after[N]
  BY DEF Meeting!AllRerouted
<1> HIDE DEF X, N
<1>5. F \in [X \X (1..N) -> X] /\ \A t \in X, n \in 1..N : F[<<t, n>>] = Meeting(v)!Rerouted(t, n)
  BY <1>3
<1> HIDE DEF F
<1>6. PICK f : f = [n \in 0..N |-> IF n = 0 THEN s ELSE F[<<f[n - 1], n>>]] /\ f \in [0..N -> X]
  BY <1>1, <1>2, <1>5, Iterated
<1>7. ASSUME NEW n \in 0..N
      PROVE  f[n] = IF n = 0 THEN s ELSE Meeting(v)!Rerouted(f[n - 1], n)
  <2>1. f[n] = IF n = 0 THEN s ELSE F[<<f[n - 1], n>>]
    BY <1>6
  <2>2. n # 0 => n \in 1..N /\ f[n - 1] \in X
    BY <1>2, <1>6
  <2> QED
    BY <1>5, <2>1, <2>2
<1>8. f = [n \in 0..N |-> IF n = 0 THEN s ELSE Meeting(v)!Rerouted(f[n - 1], n)]
  BY <1>6, <1>7
<1>9. after = [n \in 0..N |-> IF n = 0 THEN s ELSE Meeting(v)!Rerouted(after[n - 1], n)]
  BY <1>8, Zenon
<1> HIDE DEF after
<1>10. after[0] = s /\ \A n \in 1..N : after[n] = Meeting(v)!Rerouted(after[n - 1], n)
  <2>1. ASSUME NEW n \in 0..N
        PROVE  after[n] = IF n = 0 THEN s ELSE Meeting(v)!Rerouted(after[n - 1], n)
    BY <1>9
  <2>2. after[0] = s
    <3>1. 0 \in 0..N
      BY <1>2
    <3> QED
      BY <2>1, <3>1
  <2>3. ASSUME NEW n \in 1..N PROVE after[n] = Meeting(v)!Rerouted(after[n - 1], n)
    <3>1. n \in 0..N /\ n # 0
      BY <1>2
    <3> QED
      BY <2>1, <3>1
  <2> QED
    BY <2>2, <2>3
<1>11. after[N] \in X
  BY <1>1, <1>2, <1>3, <1>10, StaysIn
<1> QED
  BY <1>4, <1>11 DEF X

-----------------------------------------------------------------------------
(* The session as stored, and what the servers are about to save.           *)

Closed == {"completed", "failed", "cancelled", "superseded"}
Grows(v, s, r) == \A u \in v.units : r.unit[u].output >= s.unit[u].output
\* What may be saved for the stored session.
Offered(v, s) ==
  Sound(v, s) /\ Ends(v, s) /\ session.lifecycle \notin Closed /\ Grows(v, session, s)
\* The stored session agrees with itself, and so does every outcome; one whose
\* version is the stored one's takes nothing back, and the session has not ended.
MeetingInv(v) ==
  /\ Sound(v, session) /\ Ends(v, session)
  /\ outcome = [w \in v.servers |-> outcome[w]]
  /\ \A w \in v.servers : outcome[w] # None =>
       /\ Sound(v, outcome[w]) /\ Ends(v, outcome[w])
       /\ w \notin stale => Offered(v, outcome[w])
  /\ stale \subseteq v.servers /\ expired \subseteq v.participants

SessionStands(v) == Grows(v, session, session') /\ (session.lifecycle \in Closed => session' = session)

LEMMA GrowsItself ==
  ASSUME NEW v, NEW s, Sound(v, s)
  PROVE  Grows(v, s, s)
BY RowsOf DEF Sound, Grows, UnitRow

LEMMA PrepareKeeps ==
  ASSUME NEW v, MeetingInv(v), NEW w \in v.servers, NEW s, Offered(v, s),
         Meeting(v)!Prepare(w, s)
  PROVE  MeetingInv(v)' /\ SessionStands(v)
<1>1. /\ outcome' = [outcome EXCEPT ![w] = s] /\ stale' = stale \ {w}
      /\ session' = session /\ expired' = expired
  BY DEF Meeting!Prepare
<1>2. /\ outcome' = [t \in v.servers |-> outcome'[t]] /\ outcome'[w] = s
      /\ \A t \in v.servers : t # w => outcome'[t] = outcome[t]
  BY <1>1 DEF MeetingInv
<1>3. \A t : Offered(v, t)' <=> Offered(v, t)
  BY <1>1 DEF Offered
<1>4. ASSUME NEW t \in v.servers, outcome'[t] # None
      PROVE  /\ Sound(v, outcome'[t]) /\ Ends(v, outcome'[t])
             /\ t \notin stale' => Offered(v, outcome'[t])
  <2>1. CASE t = w
    BY <1>2, <2>1 DEF Offered
  <2>2. CASE t # w
    BY <1>1, <1>2, <1>4, <2>2 DEF MeetingInv
  <2> QED
    BY <2>1, <2>2
<1>5. \A t \in v.servers : t \notin stale' /\ outcome'[t] # None => Offered(v, outcome[t])'
  BY <1>1, <1>4 DEF Offered
<1>6. MeetingInv(v)'
  BY <1>1, <1>2, <1>4, <1>5 DEF MeetingInv
<1>7. SessionStands(v)
  BY <1>1, GrowsItself DEF SessionStands, MeetingInv
<1> QED
  BY <1>6, <1>7

LEMMA PersistKeeps ==
  ASSUME NEW v, MeetingInv(v), NEW w \in v.servers, Meeting(v)!Persist(w)
  PROVE  MeetingInv(v)' /\ SessionStands(v)
<1>1. /\ outcome[w] # None /\ outcome' = [outcome EXCEPT ![w] = None] /\ expired' = expired
      /\ \/ w \in stale /\ session' = session /\ stale' = stale
         \/ w \notin stale /\ session' = outcome[w] /\ stale' = v.servers \ {w}
  BY DEF Meeting!Persist
<1>2. /\ outcome' = [t \in v.servers |-> outcome'[t]] /\ outcome'[w] = None
      /\ \A t \in v.servers : t # w => outcome'[t] = outcome[t]
  BY <1>1 DEF MeetingInv
<1>3. Sound(v, session') /\ Ends(v, session') /\ SessionStands(v)
  BY <1>1, GrowsItself DEF MeetingInv, SessionStands, Offered
<1>4. ASSUME NEW t \in v.servers, outcome'[t] # None
      PROVE  /\ Sound(v, outcome'[t]) /\ Ends(v, outcome'[t])
             /\ t \notin stale' => session' = session /\ Offered(v, outcome'[t])
  BY <1>1, <1>2, <1>4 DEF MeetingInv
<1>5. \A t \in v.servers : t \notin stale' /\ outcome'[t] # None => Offered(v, outcome[t])'
  BY <1>4 DEF Offered
<1>6. MeetingInv(v)'
  BY <1>1, <1>2, <1>3, <1>4, <1>5 DEF MeetingInv
<1> QED
  BY <1>3, <1>6

\* The stored session is left as it is.
LEMMA UnsavedKeeps ==
  ASSUME NEW v, MeetingInv(v), Meeting(v)!RecordConflict \/ \E p \in v.participants : Meeting(v)!Expire(p)
  PROVE  MeetingInv(v)' /\ SessionStands(v)
<1>1. /\ session' = session /\ outcome' = outcome
      /\ \/ stale' = v.servers /\ expired' = expired
         \/ stale' = stale /\ expired' \subseteq v.participants
  BY DEF Meeting!RecordConflict, Meeting!Expire, MeetingInv
<1>2. \A t \in v.servers : t \notin stale' => t \notin stale
  BY <1>1
<1>3. \A t \in v.servers : t \notin stale' /\ outcome'[t] # None => Offered(v, outcome[t])'
  BY <1>1, <1>2 DEF Offered, MeetingInv
<1>4. MeetingInv(v)'
  BY <1>1, <1>3 DEF MeetingInv
<1>5. SessionStands(v)
  BY <1>1, GrowsItself DEF SessionStands, MeetingInv
<1> QED
  BY <1>4, <1>5

\* What keeps the session's work can be saved.
LEMMA KeptIsOffered ==
  ASSUME NEW v, MeetingInv(v), session.lifecycle \notin Closed, NEW s, Sound(v, s),
         Keeps(v, session, s)
  PROVE  Offered(v, s)
BY KeepsEnds DEF MeetingInv, Offered, Keeps, Grows

\* Only lifecycles and statuses of the participants change.
LEMMA SettingOffered ==
  ASSUME NEW v, Assumed(v), MeetingInv(v), session.lifecycle \notin Closed,
         NEW lifecycle \in {"created", "assembling", "active", "paused", "failed", "cancelled", "superseded"},
         NEW participant \in [v.participants -> ParticipantRow(v)],
         \A p \in v.participants : participant[p].assigned = session.participant[p].assigned,
         NEW s, s = [session EXCEPT !.lifecycle = lifecycle, !.participant = participant]
  PROVE  Offered(v, s)
<1>1. Sound(v, session) /\ Ends(v, session) /\ session \in SessionRow(v)
  BY DEF MeetingInv, Sound
<1>2. /\ s \in SessionRow(v) /\ s.unit = session.unit /\ s.participant = participant
      /\ s.reviews = session.reviews /\ s.lifecycle = lifecycle
  BY <1>1 DEF SessionRow
<1>3. Sound(v, s)
  BY <1>1, <1>2, SameWork
<1>4. Ends(v, s)
  BY <1>1, <1>2 DEF Ends, Closed
<1>5. Grows(v, session, s)
  BY <1>1, <1>2, GrowsItself DEF Grows
<1> QED
  BY <1>3, <1>4, <1>5 DEF Offered

LEMMA RegisterKeeps ==
  ASSUME NEW v, Assumed(v), MeetingInv(v), NEW w \in v.servers, NEW p \in v.participants,
         Meeting(v)!RegisterParticipant(w, p)
  PROVE  MeetingInv(v)' /\ SessionStands(v)
<1> DEFINE lifecycle == IF session.lifecycle = "created" THEN "assembling" ELSE session.lifecycle
           status == IF session.lifecycle = "active" THEN "active" ELSE "registered"
           row == [session.participant[p] EXCEPT !.status = status]
           participant == [session.participant EXCEPT ![p] = row]
           s == [session EXCEPT !.lifecycle = lifecycle, !.participant = participant]
<1>0. session \in SessionRow(v) /\ session.participant[p] \in ParticipantRow(v)
  BY RowsOf DEF MeetingInv, Sound
<1>1. session.lifecycle \in {"created", "assembling", "active"} /\ Meeting(v)!Prepare(w, s)
  BY DEF Meeting!RegisterParticipant
<1>2. row \in ParticipantRow(v) /\ row.assigned = session.participant[p].assigned
  BY <1>0 DEF ParticipantRow
<1> HIDE DEF row
<1>3. /\ participant \in [v.participants -> ParticipantRow(v)]
      /\ \A t \in v.participants : participant[t].assigned = session.participant[t].assigned
  BY <1>0, <1>2, RowsOf
<1>4. lifecycle \in {"assembling", "active"} /\ session.lifecycle \notin Closed
  BY <1>1 DEF Closed
<1> HIDE DEF participant, lifecycle
<1>5. Offered(v, s)
  BY <1>3, <1>4, SettingOffered
<1> HIDE DEF s
<1> QED
  BY <1>1, <1>5, PrepareKeeps

LEMMA ActivateKeeps ==
  ASSUME NEW v, Assumed(v), MeetingInv(v), NEW w \in v.servers, Meeting(v)!Activate(w)
  PROVE  MeetingInv(v)' /\ SessionStands(v)
<1> DEFINE participant == [p \in v.participants |->
             [status |-> IF session.participant[p].status = "registered" THEN "active"
                         ELSE session.participant[p].status,
              assigned |-> session.participant[p].assigned]]
           s == [session EXCEPT !.lifecycle = "active", !.participant = participant]
<1>0. session \in SessionRow(v) /\ session.participant \in [v.participants -> ParticipantRow(v)]
  BY RowsOf DEF MeetingInv, Sound
<1>1. session.lifecycle \in {"assembling", "paused", "active"} /\ Meeting(v)!Prepare(w, s)
  BY DEF Meeting!Activate
<1>2. ASSUME NEW p \in v.participants
      PROVE  participant[p] \in ParticipantRow(v) /\ participant[p].assigned = session.participant[p].assigned
  <2>1. session.participant[p] \in ParticipantRow(v)
    BY <1>0
  <2> QED
    BY <2>1 DEF ParticipantRow
<1>3. participant \in [v.participants -> ParticipantRow(v)]
  BY <1>2
<1>4. session.lifecycle \notin Closed
  BY <1>1 DEF Closed
<1> HIDE DEF participant
<1>5. Offered(v, s)
  BY <1>2, <1>3, <1>4, SettingOffered
<1> HIDE DEF s
<1> QED
  BY <1>1, <1>5, PrepareKeeps

LEMMA TransitionKeeps ==
  ASSUME NEW v, Assumed(v), MeetingInv(v), NEW w \in v.servers,
         NEW to \in {"paused", "active", "cancelled", "failed", "superseded"}, Meeting(v)!Transition(w, to)
  PROVE  MeetingInv(v)' /\ SessionStands(v)
<1> DEFINE s == [session EXCEPT !.lifecycle = to]
<1>0. session \in SessionRow(v) /\ session.participant \in [v.participants -> ParticipantRow(v)]
  BY RowsOf DEF MeetingInv, Sound
<1>1. session.lifecycle \in {"created", "assembling", "active", "paused"} /\ Meeting(v)!Prepare(w, s)
  BY DEF Meeting!Transition
<1>2. session.lifecycle \notin Closed
  BY <1>1 DEF Closed
<1>3. s = [session EXCEPT !.lifecycle = to, !.participant = session.participant]
  BY <1>0 DEF SessionRow
<1> HIDE DEF s
<1>4. Offered(v, s)
  BY <1>0, <1>2, <1>3, SettingOffered
<1> QED
  BY <1>1, <1>4, PrepareKeeps

LEMMA ScheduleKeeps ==
  ASSUME NEW v, Assumed(v), MeetingInv(v), NEW w \in v.servers, Meeting(v)!Schedule(w)
  PROVE  MeetingInv(v)' /\ SessionStands(v)
<1> DEFINE ready == Meeting(v)!Propagated(session)
           scheduled == Meeting(v)!AllAssigned(ready)[Len(v.order)]
<1>0. session \in SessionRow(v) /\ Sound(v, session)
  BY DEF MeetingInv, Sound
<1>1. /\ session.lifecycle = "active"
      /\ \E s \in (IF scheduled = ready THEN {ready} ELSE Meeting(v)!Appended(scheduled)) :
           Meeting(v)!Prepare(w, s)
  BY DEF Meeting!Schedule
<1>2. Sound(v, ready) /\ Keeps(v, session, ready)
  <2>1. \A u \in v.units : session.unit[u].output \in Nat
    BY <1>0, RowsOf DEF UnitRow
  <2>2. ready.lifecycle = session.lifecycle /\ \A u \in v.units :
           /\ ready.unit[u].output = session.unit[u].output
           /\ ready.unit[u].status = "succeeded" <=> session.unit[u].status = "succeeded"
           /\ ready.unit[u].status = "failed" <=> session.unit[u].status = "failed"
    BY <1>0, PropagatedIs, ReadinessIs
  <2>3. Sound(v, ready)
    BY <1>0, PropagatedSound
  <2> HIDE DEF ready
  <2> QED
    BY <2>1, <2>2, <2>3 DEF Keeps
<1> HIDE DEF ready
<1>3. Sound(v, scheduled) /\ Keeps(v, ready, scheduled)
  BY <1>2, AllAssignedSound
<1> HIDE DEF scheduled
<1>4. ready \in SessionRow(v) /\ scheduled \in SessionRow(v)
  BY <1>2, <1>3 DEF Sound
<1>5. Keeps(v, session, scheduled)
  BY <1>0, <1>2, <1>3, <1>4, KeepsTwice
<1>6. session.lifecycle \notin Closed
  BY <1>1 DEF Closed
<1>7. PICK s \in (IF scheduled = ready THEN {ready} ELSE Meeting(v)!Appended(scheduled)) :
        Meeting(v)!Prepare(w, s)
  BY <1>1
<1>8. s = ready \/ s \in Meeting(v)!Appended(scheduled)
  BY <1>7
<1>9. Sound(v, s) /\ Keeps(v, session, s)
  <2>1. CASE s = ready
    BY <1>2, <2>1
  <2>2. CASE s \in Meeting(v)!Appended(scheduled)
    <3>1. Sound(v, s) /\ Keeps(v, scheduled, s)
      BY <1>3, <2>2, MessageSound
    <3>2. s \in SessionRow(v)
      BY <3>1 DEF Sound
    <3> QED
      BY <1>0, <1>4, <1>5, <3>1, <3>2, KeepsTwice
  <2> QED
    BY <1>8, <2>1, <2>2
<1>10. Offered(v, s)
  BY <1>6, <1>9, KeptIsOffered
<1> QED
  BY <1>7, <1>10, PrepareKeeps

\* Who may act finds the session active.
LEMMA FencedIs ==
  ASSUME NEW v, MeetingInv(v), NEW p, Meeting(v)!Fenced(p)
  PROVE  /\ session.lifecycle = "active" /\ session.lifecycle \notin Closed
         /\ Sound(v, session) /\ Ends(v, session) /\ session \in SessionRow(v)
         /\ \A u \in v.units : session.unit[u].output \in Nat /\ session.unit[u] \in UnitRow(v)
BY RowsOf DEF Meeting!Fenced, Closed, MeetingInv, Sound, UnitRow

LEMMA TalkKeeps ==
  ASSUME NEW v, Assumed(v), MeetingInv(v), NEW w \in v.servers, NEW p \in v.participants,
         Meeting(v)!Heartbeat(w, p) \/ Meeting(v)!SendMessage(w, p)
  PROVE  MeetingInv(v)' /\ SessionStands(v)
<1>1. Meeting(v)!Fenced(p)
  BY DEF Meeting!Heartbeat, Meeting!SendMessage
<1>2. \E s : Meeting(v)!Prepare(w, s) /\ (s = session \/ s \in Meeting(v)!Appended(session))
  BY DEF Meeting!Heartbeat, Meeting!SendMessage
<1>3. PICK s : Meeting(v)!Prepare(w, s) /\ (s = session \/ s \in Meeting(v)!Appended(session))
  BY <1>2
<1>4. Sound(v, s) /\ Keeps(v, session, s)
  BY <1>1, <1>3, FencedIs, KeepsItself, MessageSound
<1>5. Offered(v, s)
  BY <1>1, <1>4, FencedIs, KeptIsOffered
<1> QED
  BY <1>3, <1>5, PrepareKeeps

\* One unit under way goes on, or ends, and the others stay.
LEMMA OneKept ==
  ASSUME NEW v, NEW s \in SessionRow(v), NEW r, NEW u \in v.units,
         s.unit[u].status \in UnderWay, r.unit[u].status \in UnderWay \union {"ready"},
         r.unit[u].output >= s.unit[u].output, r.lifecycle = s.lifecycle,
         \A t \in v.units : t # u => r.unit[t] = s.unit[t]
  PROVE  Keeps(v, s, r)
<1>1. \A t \in v.units : s.unit[t].output \in Nat
  BY RowsOf DEF UnitRow
<1> QED
  BY <1>1 DEF Keeps, UnderWay

\* What the units' end makes of a session can be saved.
LEMMA FinishedOffered ==
  ASSUME NEW v, Assumed(v), MeetingInv(v), session.lifecycle \notin Closed, NEW s, Sound(v, s),
         s.lifecycle # "completed", Grows(v, session, s)
  PROVE  Offered(v, Meeting(v)!Finished(s))
<1> DEFINE r == Meeting(v)!Finished(s)
<1>1. Sound(v, r) /\ Ends(v, r) /\ \A u \in v.units : r.unit[u].output = s.unit[u].output
  BY FinishedSound
<1> HIDE DEF r
<1>2. Offered(v, r)
  BY <1>1 DEF Offered, Grows
<1> QED
  BY <1>2 DEF r

LEMMA StartKeeps ==
  ASSUME NEW v, Assumed(v), MeetingInv(v), NEW w \in v.servers, NEW p \in v.participants,
         NEW u \in v.units, Meeting(v)!StartWork(w, p, u)
  PROVE  MeetingInv(v)' /\ SessionStands(v)
<1> DEFINE output == session.unit[u].output
           s == Meeting(v)!Going(session, u, "running", output)
<1>1. /\ Meeting(v)!Fenced(p) /\ session.unit[u].status = "assigned"
      /\ Meeting(v)!Prepare(w, s)
  BY DEF Meeting!StartWork
<1>2. /\ session.unit[u].status \in UnderWay /\ "running" \in UnderWay /\ output \in Nat
      /\ output >= session.unit[u].output
  BY <1>1, FencedIs DEF UnderWay
<1>3. s = Meeting(v)!Going(session, u, "running", output)
  OBVIOUS
<1> HIDE DEF s, output
<1>4. Sound(v, session) /\ session \in SessionRow(v) /\ session.lifecycle \notin Closed
  BY <1>1, FencedIs
<1>5. /\ Sound(v, s) /\ s.lifecycle = session.lifecycle
      /\ s.unit[u].output = output /\ s.unit[u].status = "running"
      /\ \A t \in v.units : t # u => s.unit[t] = session.unit[t]
  BY <1>2, <1>3, <1>4, GoingSound
<1>6. Keeps(v, session, s)
  BY <1>2, <1>4, <1>5, OneKept DEF UnderWay
<1>7. Offered(v, s)
  BY <1>4, <1>5, <1>6, KeptIsOffered
<1> QED
  BY <1>1, <1>7, PrepareKeeps

LEMMA CompleteKeeps ==
  ASSUME NEW v, Assumed(v), MeetingInv(v), NEW w \in v.servers, NEW p \in v.participants,
         NEW u \in v.units, Meeting(v)!CompleteWork(w, p, u)
  PROVE  MeetingInv(v)' /\ SessionStands(v)
<1> DEFINE output == session.unit[u].output + 1
           going == Meeting(v)!Going(session, u, "awaiting_review", output)
           succeeded == Meeting(v)!Succeeded(session, u, output)
<1>1. /\ Meeting(v)!Fenced(p) /\ session.unit[u].status \in {"assigned", "running"}
      /\ \/ u \in v.reviewed /\ \E s \in Meeting(v)!Appended(going) : Meeting(v)!Prepare(w, s)
         \/ /\ u \notin v.reviewed
            /\ \E s \in Meeting(v)!Appended(succeeded) : Meeting(v)!Prepare(w, Meeting(v)!Finished(s))
  BY DEF Meeting!CompleteWork
<1>2. /\ Sound(v, session) /\ session \in SessionRow(v)
      /\ session.lifecycle = "active" /\ session.lifecycle \notin Closed
  BY <1>1, FencedIs
<1>3. /\ session.unit[u].status \in UnderWay /\ "awaiting_review" \in UnderWay /\ output \in Nat
      /\ output > session.unit[u].output /\ session.unit[u].output \in Nat
      /\ \A t \in v.units : session.unit[t].output \in Nat
  BY <1>1, FencedIs DEF UnderWay
<1>4. /\ going = Meeting(v)!Going(session, u, "awaiting_review", output)
      /\ succeeded = Meeting(v)!Succeeded(session, u, output)
  OBVIOUS
<1> HIDE DEF output, going, succeeded
<1>5. CASE u \in v.reviewed /\ \E s \in Meeting(v)!Appended(going) : Meeting(v)!Prepare(w, s)
  <2>1. PICK s \in Meeting(v)!Appended(going) : Meeting(v)!Prepare(w, s)
    BY <1>5
  <2>2. /\ Sound(v, going) /\ going.lifecycle = session.lifecycle
        /\ going.unit[u].output = output /\ going.unit[u].status = "awaiting_review"
        /\ \A t \in v.units : t # u => going.unit[t] = session.unit[t]
    <3>1. output >= session.unit[u].output /\ output # session.unit[u].output
      BY <1>3
    <3> QED
      BY <1>2, <1>3, <1>4, <3>1, GoingSound
  <2>3. going.unit[u].output >= session.unit[u].output /\ going.unit[u].status \in UnderWay
    BY <1>3, <2>2
  <2>4. Keeps(v, session, going)
    BY <1>2, <1>3, <2>2, <2>3, OneKept
  <2>5. Sound(v, s) /\ Keeps(v, going, s)
    BY <2>1, <2>2, MessageSound
  <2>6. going \in SessionRow(v) /\ s \in SessionRow(v)
    BY <2>2, <2>5 DEF Sound
  <2>7. Keeps(v, session, s)
    BY <1>2, <2>4, <2>5, <2>6, KeepsTwice
  <2>8. Offered(v, s)
    BY <1>2, <2>5, <2>7, KeptIsOffered
  <2> QED
    BY <2>1, <2>8, PrepareKeeps
<1>6. CASE /\ u \notin v.reviewed
           /\ \E s \in Meeting(v)!Appended(succeeded) : Meeting(v)!Prepare(w, Meeting(v)!Finished(s))
  <2>1. PICK s \in Meeting(v)!Appended(succeeded) : Meeting(v)!Prepare(w, Meeting(v)!Finished(s))
    BY <1>6
  <2>2. /\ Sound(v, succeeded) /\ succeeded.lifecycle = session.lifecycle
        /\ succeeded.unit[u].output = output
        /\ \A t \in v.units : t # u => succeeded.unit[t] = session.unit[t]
    <3>1. output >= session.unit[u].output /\ u \notin v.reviewed
      BY <1>3, <1>6
    <3>2. u \in v.reviewed => \E i \in 1..Len(session.reviews) :
             ApprovalOf(session, u, [output |-> output, owner |-> session.unit[u].owner], i)
      BY <3>1
    <3> QED
      BY <1>2, <1>3, <1>4, <3>1, <3>2, SucceededSound
  <2>3. Sound(v, s) /\ s.lifecycle = "active" /\ s.unit = succeeded.unit
    BY <1>2, <2>1, <2>2, MessageSound
  <2>4. Grows(v, session, s)
    BY <1>3, <2>2, <2>3 DEF Grows
  <2>5. Offered(v, Meeting(v)!Finished(s))
    BY <1>2, <2>3, <2>4, FinishedOffered
  <2> QED
    BY <2>1, <2>5, PrepareKeeps
<1> QED
  BY <1>1, <1>5, <1>6

LEMMA FailKeeps ==
  ASSUME NEW v, Assumed(v), MeetingInv(v), NEW w \in v.servers, NEW p \in v.participants,
         NEW u \in v.units, NEW retryable \in BOOLEAN, Meeting(v)!FailWork(w, p, u, retryable)
  PROVE  MeetingInv(v)' /\ SessionStands(v)
<1> DEFINE again == retryable /\ Meeting(v)!CanRetry(session, u)
           s == Meeting(v)!Released(session, u, again)
<1>1. /\ Meeting(v)!Fenced(p) /\ session.unit[u].status \in {"assigned", "running"}
      /\ Meeting(v)!Prepare(w, IF again THEN s ELSE Meeting(v)!Finished(s))
  BY DEF Meeting!FailWork
<1>2. /\ Sound(v, session) /\ session \in SessionRow(v)
      /\ session.lifecycle = "active" /\ session.lifecycle \notin Closed
  BY <1>1, FencedIs
<1>3. session.unit[u].status \in UnderWay /\ \A t \in v.units : session.unit[t].output \in Nat
  BY <1>1, FencedIs DEF UnderWay
<1>4. again \in BOOLEAN /\ (again => session.unit[u].retryCount < v.retries)
  BY DEF Meeting!CanRetry
<1>5. s = Meeting(v)!Released(session, u, again)
  OBVIOUS
<1> HIDE DEF s, again
<1>6. /\ Sound(v, s) /\ s.lifecycle = session.lifecycle
      /\ s.unit[u].output = session.unit[u].output
      /\ s.unit[u].status = IF again THEN "ready" ELSE "failed"
      /\ \A t \in v.units : t # u => s.unit[t] = session.unit[t]
  BY <1>2, <1>3, <1>4, <1>5, ReleasedSound
<1>7. CASE again
  <2>1. s.unit[u].output >= session.unit[u].output /\ s.unit[u].status \in UnderWay \union {"ready"}
    BY <1>3, <1>6, <1>7
  <2>2. Keeps(v, session, s)
    BY <1>2, <1>3, <1>6, <2>1, OneKept
  <2>3. Offered(v, s)
    BY <1>2, <1>6, <2>2, KeptIsOffered
  <2>4. Meeting(v)!Prepare(w, s)
    BY <1>1, <1>7
  <2> QED
    BY <2>3, <2>4, PrepareKeeps
<1>8. CASE ~again
  <2>1. Grows(v, session, s)
    BY <1>3, <1>6 DEF Grows
  <2>2. Offered(v, Meeting(v)!Finished(s))
    BY <1>2, <1>6, <2>1, FinishedOffered
  <2>3. Meeting(v)!Prepare(w, Meeting(v)!Finished(s))
    BY <1>1, <1>8
  <2> QED
    BY <2>2, <2>3, PrepareKeeps
<1> QED
  BY <1>7, <1>8

LEMMA RequestKeeps ==
  ASSUME NEW v, Assumed(v), MeetingInv(v), NEW w \in v.servers, NEW p \in v.participants,
         NEW u \in v.units, Meeting(v)!RequestReview(w, p, u)
  PROVE  MeetingInv(v)' /\ SessionStands(v)
<1> DEFINE asked == Meeting(v)!FirstReviewer(session, p)
           review == [unit |-> u, output |-> session.unit[u].output, asked |-> asked,
                      reviewer |-> asked, requester |-> p, status |-> "pending"]
           more == [session EXCEPT !.reviews = Append(session.reviews, review)]
<1>1. /\ Meeting(v)!Fenced(p) /\ session.unit[u].owner = p
      /\ Meeting(v)!Reviewers(session, p) # {}
      /\ \/ Meeting(v)!Prepare(w, session)
         \/ \E s \in Meeting(v)!Appended(more) : Meeting(v)!Prepare(w, s)
  BY DEF Meeting!RequestReview
<1>2. Sound(v, session) /\ session \in SessionRow(v) /\ session.lifecycle \notin Closed
  BY <1>1, FencedIs
<1>3. asked \in v.participants \ {p} /\ session.unit[u].output \in Nat
  BY <1>1, <1>2, FirstIs, FencedIs
<1> HIDE DEF asked
<1>4. /\ review \in ReviewRow(v) /\ review.reviewer # review.requester
      /\ review.output = session.unit[review.unit].output
      /\ review.requester = session.unit[review.unit].owner
  BY <1>1, <1>3 DEF ReviewRow
<1> HIDE DEF review
<1>5. Sound(v, more) /\ Keeps(v, session, more)
  BY <1>2, <1>4, ReviewAsked
<1> HIDE DEF more
<1>6. CASE Meeting(v)!Prepare(w, session)
  <2>1. Offered(v, session)
    BY <1>2, KeepsItself, KeptIsOffered
  <2> QED
    BY <1>6, <2>1, PrepareKeeps
<1>7. CASE \E s \in Meeting(v)!Appended(more) : Meeting(v)!Prepare(w, s)
  <2>1. PICK s \in Meeting(v)!Appended(more) : Meeting(v)!Prepare(w, s)
    BY <1>7
  <2>2. Sound(v, s) /\ Keeps(v, more, s)
    BY <1>5, <2>1, MessageSound
  <2>3. more \in SessionRow(v) /\ s \in SessionRow(v)
    BY <1>5, <2>2 DEF Sound
  <2>4. Keeps(v, session, s)
    BY <1>2, <1>5, <2>2, <2>3, KeepsTwice
  <2>5. Offered(v, s)
    BY <1>2, <2>2, <2>4, KeptIsOffered
  <2> QED
    BY <2>1, <2>5, PrepareKeeps
<1> QED
  BY <1>1, <1>6, <1>7

LEMMA SubmitKeeps ==
  ASSUME NEW v, Assumed(v), MeetingInv(v), NEW w \in v.servers, NEW p \in v.participants,
         NEW i \in DOMAIN session.reviews, NEW approved \in BOOLEAN,
         Meeting(v)!SubmitReview(w, p, i, approved)
  PROVE  MeetingInv(v)' /\ SessionStands(v)
<1> DEFINE review == session.reviews[i]
           u == review.unit
           decided == [review EXCEPT !.status = IF approved THEN "approved" ELSE "rejected"]
           told == Meeting(v)!WithReview(session, i, decided)
           again == Meeting(v)!CanRetry(session, u)
           output == session.unit[u].output
           judged == IF approved THEN Meeting(v)!Succeeded(told, u, output)
                     ELSE Meeting(v)!Released(told, u, again)
<1>1. /\ Meeting(v)!Fenced(p) /\ review.status = "pending" /\ review.reviewer = p
      /\ session.unit[u].status = "awaiting_review" /\ session.unit[u].output = review.output
      /\ \E s \in Meeting(v)!Appended(judged) : Meeting(v)!Prepare(w, Meeting(v)!Finished(s))
  BY DEF Meeting!SubmitReview, Meeting!StillWanted
<1>2. /\ Sound(v, session) /\ session \in SessionRow(v)
      /\ session.lifecycle = "active" /\ session.lifecycle \notin Closed
      /\ \A t \in v.units : session.unit[t].output \in Nat
  BY <1>1, FencedIs
<1>3. i \in 1..Len(session.reviews) /\ review \in ReviewRow(v) /\ ReviewSound(session, i)
  BY <1>2, RowsOf DEF Sound
<1>4. /\ u \in v.units /\ output \in Nat /\ output >= session.unit[u].output
      /\ review.reviewer # review.requester /\ review.requester = session.unit[u].owner
  BY <1>1, <1>2, <1>3 DEF ReviewRow, ReviewSound
<1>5. /\ decided \in ReviewRow(v) /\ decided.unit = u /\ decided.output = review.output
      /\ decided.requester = review.requester /\ decided.reviewer = review.reviewer
      /\ decided.status = IF approved THEN "approved" ELSE "rejected"
  BY <1>3 DEF ReviewRow
<1>6. again => session.unit[u].retryCount < v.retries
  BY DEF Meeting!CanRetry
<1>7. again \in BOOLEAN
  BY DEF Meeting!CanRetry
<1>8. told = Meeting(v)!WithReview(session, i, decided)
  OBVIOUS
<1> HIDE DEF decided, again, told
<1>9. /\ Sound(v, told) /\ told.unit = session.unit /\ told.participant = session.participant
      /\ told.lifecycle = session.lifecycle
      /\ Len(told.reviews) = Len(session.reviews) /\ told.reviews[i] = decided
  BY <1>1, <1>2, <1>3, <1>4, <1>5, <1>8, ReviewReplaced
<1>10. told.unit[u].status \in UnderWay /\ output >= told.unit[u].output
  BY <1>1, <1>4, <1>9 DEF UnderWay
<1>11. /\ Sound(v, judged) /\ judged.lifecycle = told.lifecycle
       /\ judged.unit[u].output = session.unit[u].output
       /\ \A t \in v.units : t # u => judged.unit[t] = told.unit[t]
  <2>1. CASE approved
    <3> DEFINE x == [output |-> output, owner |-> told.unit[u].owner]
    <3>1. judged = Meeting(v)!Succeeded(told, u, output)
      BY <2>1
    <3>2. ApprovalOf(told, u, x, i) /\ i \in 1..Len(told.reviews)
      BY <1>1, <1>3, <1>4, <1>5, <1>9, <2>1 DEF ApprovalOf
    <3>3. \E j \in 1..Len(told.reviews) : ApprovalOf(told, u, x, j)
      BY <3>2
    <3>4. output = session.unit[u].output
      OBVIOUS
    <3> HIDE DEF judged, output, u
    <3> QED
      BY <1>4, <1>9, <1>10, <3>1, <3>3, <3>4, SucceededSound
  <2>2. CASE ~approved
    <3>1. judged = Meeting(v)!Released(told, u, again)
      BY <2>2
    <3>2. again => told.unit[u].retryCount < v.retries
      BY <1>6, <1>9
    <3> HIDE DEF judged, u
    <3> QED
      BY <1>4, <1>7, <1>9, <1>10, <3>1, <3>2, ReleasedSound
  <2> QED
    BY <2>1, <2>2
<1> HIDE DEF judged, u
<1>12. PICK s \in Meeting(v)!Appended(judged) : Meeting(v)!Prepare(w, Meeting(v)!Finished(s))
  BY <1>1
<1>13. Sound(v, s) /\ s.lifecycle = "active" /\ s.unit = judged.unit
  BY <1>2, <1>9, <1>11, <1>12, MessageSound
<1>14. Grows(v, session, s)
  BY <1>2, <1>9, <1>11, <1>13 DEF Grows
<1>15. Offered(v, Meeting(v)!Finished(s))
  BY <1>2, <1>13, <1>14, FinishedOffered
<1> QED
  BY <1>12, <1>15, PrepareKeeps

LEMMA RecoverKeeps ==
  ASSUME NEW v, Assumed(v), MeetingInv(v), NEW w \in v.servers, Meeting(v)!Recover(w)
  PROVE  MeetingInv(v)' /\ SessionStands(v)
<1> DEFINE without == Meeting(v)!WithoutAbandoned
           routed == Meeting(v)!AllRerouted(without)[Len(session.reviews)]
           idle == \A p \in v.participants : routed.participant[p].status # "active"
           recovered == IF session.lifecycle = "active" /\ idle
                        THEN [routed EXCEPT !.lifecycle = "paused"] ELSE routed
<1>1. session.lifecycle \notin Closed /\ Meeting(v)!Prepare(w, Meeting(v)!Finished(recovered))
  BY DEF Meeting!Recover, Meeting!Terminal, Closed
<1>2. Sound(v, session) /\ session \in SessionRow(v)
  BY DEF MeetingInv, Sound
<1>3. /\ Sound(v, without) /\ without.lifecycle = session.lifecycle
      /\ without.reviews = session.reviews
      /\ \A u \in v.units : without.unit[u].output = session.unit[u].output
  BY <1>2, WithoutAbandonedSound
<1> HIDE DEF without
<1>4. Sound(v, routed) /\ SameUnits(without, routed)
  BY <1>3, AllReroutedSound
<1> HIDE DEF routed
<1>5. /\ Sound(v, recovered) /\ recovered.unit = routed.unit
      /\ recovered.lifecycle \in {session.lifecycle, "paused"}
  <2>1. routed \in SessionRow(v) /\ routed.lifecycle = session.lifecycle
    BY <1>3, <1>4 DEF Sound, SameUnits
  <2>2. \/ recovered = routed \/ recovered = [routed EXCEPT !.lifecycle = "paused"]
    OBVIOUS
  <2> HIDE DEF recovered
  <2>3. CASE recovered = routed
    BY <1>4, <2>1, <2>3
  <2>4. CASE recovered = [routed EXCEPT !.lifecycle = "paused"]
    <3>1. /\ recovered \in SessionRow(v) /\ recovered.unit = routed.unit
          /\ recovered.participant = routed.participant /\ recovered.reviews = routed.reviews
          /\ recovered.lifecycle = "paused"
      BY <2>1, <2>4 DEF SessionRow
    <3> QED
      BY <1>4, <3>1, SameWork
  <2> QED
    BY <2>2, <2>3, <2>4
<1> HIDE DEF recovered
<1>6. Grows(v, session, recovered)
  <2>1. \A u \in v.units : session.unit[u].output \in Nat
    BY <1>2, RowsOf DEF UnitRow
  <2> QED
    BY <1>3, <1>4, <1>5, <2>1 DEF Grows, SameUnits
<1>7. recovered.lifecycle # "completed"
  BY <1>1, <1>5 DEF Closed
<1>8. Offered(v, Meeting(v)!Finished(recovered))
  BY <1>1, <1>5, <1>6, <1>7, FinishedOffered
<1> QED
  BY <1>1, <1>8, PrepareKeeps

LEMMA MeetingBegins ==
  ASSUME NEW v, Assumed(v), Meeting(v)!Init
  PROVE  MeetingInv(v)
<1> DEFINE unit == [u \in v.units |->
             [status |-> IF v.prerequisites[u] = {} THEN "ready" ELSE "blocked",
              owner |-> None, output |-> 0, retryCount |-> 0]]
           participant == [p \in v.participants |-> [status |-> "none", assigned |-> {}]]
<1>1. /\ session = [lifecycle |-> "created", unit |-> unit, participant |-> participant,
                    reviews |-> <<>>, full |-> FALSE]
      /\ outcome = [w \in v.servers |-> None] /\ stale = {} /\ expired = {}
  BY DEF Meeting!Init
<1>2. ASSUME NEW u \in v.units
      PROVE  /\ unit[u] \in UnitRow(v) /\ unit[u].owner = None
             /\ unit[u].status \in {"blocked", "ready"} /\ unit[u].retryCount = 0
             /\ unit[u].status = "ready" => v.prerequisites[u] = {}
  BY DEF UnitRow
<1>3. \A p \in v.participants : participant[p] \in ParticipantRow(v) /\ participant[p].assigned = {}
  BY DEF ParticipantRow
<1>4. unit \in [v.units -> UnitRow(v)] /\ participant \in [v.participants -> ParticipantRow(v)]
  BY <1>2, <1>3
<1> HIDE DEF unit, participant
<1>5. /\ session \in SessionRow(v) /\ session.unit = unit /\ session.participant = participant
      /\ session.lifecycle = "created" /\ Len(session.reviews) = 0
  BY <1>1, <1>4 DEF SessionRow
<1>6. Sound(v, session)
  <2>1. \A u \in v.units : UnitSound(v, session, u)
    BY <1>2, <1>5 DEF UnitSound, Assumed
  <2>2. \A u \in v.units, p \in v.participants : ListSound(session, u, p)
    BY <1>2, <1>3, <1>5 DEF ListSound, UnderWay
  <2>3. \A u \in v.reviewed : ApprovedSound(session, u)
    BY <1>2, <1>5 DEF ApprovedSound, Assumed
  <2> QED
    BY <1>5, <2>1, <2>2, <2>3 DEF Sound
<1>7. Ends(v, session)
  BY <1>2, <1>5 DEF Ends, Assumed
<1> QED
  BY <1>1, <1>6, <1>7 DEF MeetingInv

\* Whatever is done, and by whichever server.
LEMMA MeetingStep ==
  ASSUME NEW v, Assumed(v), MeetingInv(v), Meeting(v)!Next
  PROVE  MeetingInv(v)' /\ SessionStands(v)
<1>1. ASSUME NEW w \in v.servers, NEW p \in v.participants, Meeting(v)!ParticipantStep(w, p)
      PROVE  MeetingInv(v)' /\ SessionStands(v)
  <2>1. ASSUME NEW u \in v.units,
               \/ Meeting(v)!StartWork(w, p, u) \/ Meeting(v)!CompleteWork(w, p, u)
               \/ \E retryable \in BOOLEAN : Meeting(v)!FailWork(w, p, u, retryable)
               \/ Meeting(v)!RequestReview(w, p, u)
        PROVE  MeetingInv(v)' /\ SessionStands(v)
    BY <2>1, StartKeeps, CompleteKeeps, FailKeeps, RequestKeeps
  <2> QED
    BY <1>1, <2>1, RegisterKeeps, TalkKeeps, SubmitKeeps DEF Meeting!ParticipantStep
<1>2. ASSUME NEW w \in v.servers,
             \/ Meeting(v)!Persist(w) \/ Meeting(v)!Activate(w) \/ Meeting(v)!Schedule(w)
             \/ \E to \in {"paused", "active", "cancelled", "failed", "superseded"} :
                  Meeting(v)!Transition(w, to)
             \/ Meeting(v)!Recover(w)
      PROVE  MeetingInv(v)' /\ SessionStands(v)
  BY <1>2, PersistKeeps, ActivateKeeps, ScheduleKeeps, TransitionKeeps, RecoverKeeps
<1> QED
  BY <1>1, <1>2, UnsavedKeeps DEF Meeting!Next

LEMMA MeetingStutters ==
  ASSUME NEW v, MeetingInv(v), UNCHANGED <<session, outcome, stale, expired>>
  PROVE  MeetingInv(v)' /\ SessionStands(v)
<1>1. SessionStands(v)
  BY GrowsItself DEF SessionStands, MeetingInv
<1>2. MeetingInv(v)'
  BY DEF MeetingInv, Offered
<1> QED
  BY <1>1, <1>2

\* What the properties say follows.
LEMMA MeetingImplies ==
  ASSUME NEW v, Assumed(v), MeetingInv(v)
  PROVE  /\ Meeting(v)!TypeOK /\ Meeting(v)!PrerequisitesFirst /\ Meeting(v)!ListsAgree
         /\ Meeting(v)!ApprovedByAnother /\ Meeting(v)!EndsWithItsUnits
         /\ Meeting(v)!RetriesBounded
<1>1. ASSUME NEW s \in SessionRow(v) PROVE Meeting(v)!IsSession(s)
  <2>1. /\ Meeting(v)!Unit = UnitRow(v) /\ Meeting(v)!Participant = ParticipantRow(v)
        /\ Meeting(v)!Review = ReviewRow(v)
    <3>1. UnderWay \union {"blocked", "ready", "succeeded", "failed"}
            = {"blocked", "ready", "assigned", "running", "awaiting_review", "succeeded", "failed"}
      BY DEF UnderWay
    <3> QED
      BY <3>1, Zenon DEF Meeting!Unit, Meeting!Participant, Meeting!Review, UnitRow,
         ParticipantRow, ReviewRow
  <2> QED
    BY <2>1, RowsOf DEF Meeting!IsSession, Meeting!Terminal
<1>2. Meeting(v)!TypeOK
  BY <1>1 DEF Meeting!TypeOK, MeetingInv, Sound
<1>3. session \in SessionRow(v) /\ DOMAIN session.reviews = 1..Len(session.reviews)
  BY RowsOf DEF MeetingInv, Sound
<1>4. Meeting(v)!PrerequisitesFirst
  BY DEF Meeting!PrerequisitesFirst, MeetingInv, Sound, UnitSound
<1>5. Meeting(v)!ListsAgree
  BY DEF Meeting!ListsAgree, MeetingInv, Sound, ListSound, UnderWay
<1>6. Meeting(v)!ApprovedByAnother
  BY <1>3 DEF Meeting!ApprovedByAnother, MeetingInv, Sound, ApprovedSound, ApprovalOf
<1>7. Meeting(v)!EndsWithItsUnits /\ Meeting(v)!RetriesBounded
  BY DEF Meeting!EndsWithItsUnits, Meeting!RetriesBounded, MeetingInv, Sound, UnitSound, Ends
<1> QED
  BY <1>2, <1>4, <1>5, <1>6, <1>7

\* Any collaboration, of any units, participants, roles and servers, with any
\* prerequisites, order, retries and quota of reviews: prerequisites come
\* first, reviewed work is approved by another, lists and retries are kept, it
\* ends with its units, and no server's save takes back another's.
THEOREM AnyCollaboration ==
  ASSUME NEW v, Meeting(v)!CollaborationAssumption
  PROVE  Meeting(v)!Spec =>
           /\ [](/\ Meeting(v)!TypeOK /\ Meeting(v)!PrerequisitesFirst /\ Meeting(v)!ListsAgree
                /\ Meeting(v)!ApprovedByAnother /\ Meeting(v)!EndsWithItsUnits
                /\ Meeting(v)!RetriesBounded)
           /\ [][Meeting(v)!NothingIsLost]_<<session, outcome, stale, expired>>
<1> DEFINE Agrees == /\ Meeting(v)!TypeOK /\ Meeting(v)!PrerequisitesFirst /\ Meeting(v)!ListsAgree
                     /\ Meeting(v)!ApprovedByAnother /\ Meeting(v)!EndsWithItsUnits
                     /\ Meeting(v)!RetriesBounded
           kept == <<session, outcome, stale, expired>>
<1>1. Assumed(v)
  BY AssumedIs
<1>2. Meeting(v)!Init => MeetingInv(v)
  BY <1>1, MeetingBegins
<1>3. ASSUME MeetingInv(v), [Meeting(v)!Next]_kept PROVE MeetingInv(v)' /\ SessionStands(v)
  BY <1>1, <1>3, MeetingStep, MeetingStutters
<1>4. MeetingInv(v) => Agrees
  BY <1>1, MeetingImplies
<1>5. SessionStands(v) => Meeting(v)!NothingIsLost
  BY DEF SessionStands, Grows, Closed, Meeting!NothingIsLost, Meeting!Terminal
<1>6. MeetingInv(v) /\ [Meeting(v)!Next]_kept => MeetingInv(v)' /\ [Meeting(v)!NothingIsLost]_kept
  BY <1>3, <1>5
<1>7. Meeting(v)!Spec => Meeting(v)!Init /\ [][Meeting(v)!Next]_kept
  BY DEF Meeting!Spec, Meeting!vars
<1> QED
  BY <1>2, <1>4, <1>6, <1>7, PTL

-----------------------------------------------------------------------------
(* The change pipeline: with quick callers, with callers that take their    *)
(* time, and with those and more versions of the artifact.                  *)

PipelineProofs == INSTANCE ChangePipelineProofs
SlowProofs == INSTANCE ChangePipelineProofs WITH
  SlowCallers <- TRUE,
  MaxVersion <- [n \in Names |-> IF n = "transaction" THEN 0 ELSE 1]
LateProofs == INSTANCE ChangePipelineProofs WITH
  SlowCallers <- TRUE,
  MaxVersion <- [n \in Names |->
                   CASE n = "workspace" -> 1 [] n \in Artifacts -> 2 [] OTHER -> 0]

LEMMA PipelineSame ==
  /\ PipelineProofs!NamesAssumption
  /\ [Next]_vars => [PipelineProofs!Next]_(PipelineProofs!vars)
  /\ Init => PipelineProofs!Init
  /\ PipelineProofs!TypeOK => TypeOK
<1>1. PipelineProofs!NamesAssumption
  BY NamesAssumption DEF PipelineProofs!NamesAssumption, PipelineProofs!Names, Names
<1>2. Next => PipelineProofs!Next
  BY DEF PipelineProofs!Next, Next, PipelineProofs!WorkspaceStep, WorkspaceStep,
         PipelineProofs!When, When, PipelineProofs!ArtifactStep, ArtifactStep,
         PipelineProofs!ReviewStep, ReviewStep, PipelineProofs!ProposalStep, ProposalStep,
         PipelineProofs!TransactionStep, TransactionStep, PipelineProofs!RecoveryStep,
         RecoveryStep, PipelineProofs!Names, Names, PipelineProofs!Lapse, Lapse,
         PipelineProofs!ChangeRevision, ChangeRevision, PipelineProofs!Load, Load,
         PipelineProofs!GiveUp, GiveUp, PipelineProofs!CreateWorkspace, CreateWorkspace,
         PipelineProofs!Prepare, Prepare, PipelineProofs!MarkReady, MarkReady,
         PipelineProofs!Claim, Claim, PipelineProofs!Activate, Activate,
         PipelineProofs!Heartbeat, Heartbeat, PipelineProofs!BeginValidation, BeginValidation,
         PipelineProofs!GeneratePatch, GeneratePatch, PipelineProofs!RejectCall, RejectCall,
         PipelineProofs!Transition, Transition, PipelineProofs!Generate, Generate,
         PipelineProofs!Decisions, Decisions, PipelineProofs!ReviewArtifact, ReviewArtifact,
         PipelineProofs!ArchiveArtifact, ArchiveArtifact, PipelineProofs!CreateReview,
         CreateReview, PipelineProofs!DecideReview, DecideReview, PipelineProofs!ArchiveReview,
         ArchiveReview, PipelineProofs!Assemble, Assemble, PipelineProofs!DecideProposal,
         DecideProposal, PipelineProofs!ArchiveProposal, ArchiveProposal,
         PipelineProofs!PrepareTransaction, PrepareTransaction, PipelineProofs!Confirm,
         Confirm, PipelineProofs!ArchiveTransaction, ArchiveTransaction,
         PipelineProofs!RecoverWorkspace, RecoverWorkspace, PipelineProofs!RecoverProposal,
         RecoverProposal, PipelineProofs!RecoverTransaction, RecoverTransaction,
         PipelineProofs!RecoverArtifact, RecoverArtifact, PipelineProofs!RecoverReview,
         RecoverReview, PipelineProofs!Awaiting, Awaiting, PipelineProofs!Own, Own,
         PipelineProofs!Move, Move, PipelineProofs!Fenced, Fenced, PipelineProofs!Keep, Keep,
         PipelineProofs!Replace, Replace, PipelineProofs!Version, Version, PipelineProofs!Of,
         Of, PipelineProofs!Save, Save, PipelineProofs!MayGenerate, MayGenerate,
         PipelineProofs!View, View, PipelineProofs!NewVersion, NewVersion,
         PipelineProofs!Decide, Decide, PipelineProofs!Archive, Archive,
         PipelineProofs!MayReview, MayReview, PipelineProofs!Live, Live,
         PipelineProofs!ApprovedFor, ApprovedFor, PipelineProofs!MayPrepare, MayPrepare,
         PipelineProofs!Recover, Recover, PipelineProofs!VersionHeld, VersionHeld,
         PipelineProofs!Accepts, Accepts, PipelineProofs!Archivable, Archivable,
         PipelineProofs!Latest, Latest, PipelineProofs!On, On, PipelineProofs!ToRecover,
         ToRecover, PipelineProofs!Recovered, Recovered, PipelineProofs!AcceptsArtifact,
         AcceptsArtifact, PipelineProofs!AcceptsReview, AcceptsReview,
         PipelineProofs!AcceptsProposal, AcceptsProposal, PipelineProofs!AcceptsTransaction,
         AcceptsTransaction, PipelineProofs!Prior, Prior, PipelineProofs!Stands, Stands
<1>3. Init => PipelineProofs!Init
  BY DEF PipelineProofs!Init, Init, PipelineProofs!Names, Names, PipelineProofs!Absent, Absent
<1>4. PipelineProofs!TypeOK => TypeOK
  BY DEF PipelineProofs!TypeOK, TypeOK, PipelineProofs!Names, Names, PipelineProofs!Row, Row,
         PipelineProofs!Lifecycles, Lifecycles, PipelineProofs!Basis, Basis
<1> QED
  BY <1>1, <1>2, <1>3, <1>4 DEF PipelineProofs!vars, vars

LEMMA SlowSame ==
  /\ SlowProofs!NamesAssumption
  /\ [Slow!Next]_vars => [SlowProofs!Next]_(SlowProofs!vars)
  /\ Init => SlowProofs!Init
  /\ SlowProofs!TypeOK => TypeOK
<1>1. SlowProofs!NamesAssumption
  BY NamesAssumption DEF SlowProofs!NamesAssumption, SlowProofs!Names, Names
<1>2. Slow!Next => SlowProofs!Next
  BY DEF SlowProofs!Next, Slow!Next, SlowProofs!WorkspaceStep, Slow!WorkspaceStep, SlowProofs!When,
         Slow!When, SlowProofs!ArtifactStep, Slow!ArtifactStep, SlowProofs!ReviewStep,
         Slow!ReviewStep, SlowProofs!ProposalStep, Slow!ProposalStep, SlowProofs!TransactionStep,
         Slow!TransactionStep, SlowProofs!RecoveryStep, Slow!RecoveryStep, SlowProofs!Names,
         Slow!Names, SlowProofs!Lapse, Slow!Lapse, SlowProofs!ChangeRevision, Slow!ChangeRevision,
         SlowProofs!Load, Slow!Load, SlowProofs!GiveUp, Slow!GiveUp, SlowProofs!CreateWorkspace,
         Slow!CreateWorkspace, SlowProofs!Prepare, Slow!Prepare, SlowProofs!MarkReady, Slow!MarkReady,
         SlowProofs!Claim, Slow!Claim, SlowProofs!Activate, Slow!Activate, SlowProofs!Heartbeat,
         Slow!Heartbeat, SlowProofs!BeginValidation, Slow!BeginValidation, SlowProofs!GeneratePatch,
         Slow!GeneratePatch, SlowProofs!RejectCall, Slow!RejectCall, SlowProofs!Transition,
         Slow!Transition, SlowProofs!Generate, Slow!Generate, SlowProofs!Decisions, Slow!Decisions,
         SlowProofs!ReviewArtifact, Slow!ReviewArtifact, SlowProofs!ArchiveArtifact,
         Slow!ArchiveArtifact, SlowProofs!CreateReview, Slow!CreateReview, SlowProofs!DecideReview,
         Slow!DecideReview, SlowProofs!ArchiveReview, Slow!ArchiveReview, SlowProofs!Assemble,
         Slow!Assemble, SlowProofs!DecideProposal, Slow!DecideProposal, SlowProofs!ArchiveProposal,
         Slow!ArchiveProposal, SlowProofs!PrepareTransaction, Slow!PrepareTransaction,
         SlowProofs!Confirm, Slow!Confirm, SlowProofs!ArchiveTransaction, Slow!ArchiveTransaction,
         SlowProofs!RecoverWorkspace, Slow!RecoverWorkspace, SlowProofs!RecoverProposal,
         Slow!RecoverProposal, SlowProofs!RecoverTransaction, Slow!RecoverTransaction,
         SlowProofs!RecoverArtifact, Slow!RecoverArtifact, SlowProofs!RecoverReview,
         Slow!RecoverReview, SlowProofs!Awaiting, Slow!Awaiting, SlowProofs!Own, Slow!Own,
         SlowProofs!Move, Slow!Move, SlowProofs!Fenced, Slow!Fenced, SlowProofs!Keep, Slow!Keep,
         SlowProofs!Replace, Slow!Replace, SlowProofs!Version, Slow!Version, SlowProofs!Of, Slow!Of,
         SlowProofs!Save, Slow!Save, SlowProofs!MayGenerate, Slow!MayGenerate, SlowProofs!View,
         Slow!View, SlowProofs!NewVersion, Slow!NewVersion, SlowProofs!Decide, Slow!Decide,
         SlowProofs!Archive, Slow!Archive, SlowProofs!MayReview, Slow!MayReview, SlowProofs!Live,
         Slow!Live, SlowProofs!ApprovedFor, Slow!ApprovedFor, SlowProofs!MayPrepare, Slow!MayPrepare,
         SlowProofs!Recover, Slow!Recover, SlowProofs!VersionHeld, Slow!VersionHeld,
         SlowProofs!Accepts, Slow!Accepts, SlowProofs!Archivable, Slow!Archivable, SlowProofs!Latest,
         Slow!Latest, SlowProofs!On, Slow!On, SlowProofs!ToRecover, Slow!ToRecover,
         SlowProofs!Recovered, Slow!Recovered, SlowProofs!AcceptsArtifact, Slow!AcceptsArtifact,
         SlowProofs!AcceptsReview, Slow!AcceptsReview, SlowProofs!AcceptsProposal,
         Slow!AcceptsProposal, SlowProofs!AcceptsTransaction, Slow!AcceptsTransaction,
         SlowProofs!Prior, Slow!Prior, SlowProofs!Stands, Slow!Stands
<1>3. Init => SlowProofs!Init
  BY DEF SlowProofs!Init, Init, SlowProofs!Names, Names, SlowProofs!Absent, Absent
<1>4. SlowProofs!TypeOK => TypeOK
  BY DEF SlowProofs!TypeOK, TypeOK, SlowProofs!Names, Names, SlowProofs!Row, Row,
         SlowProofs!Lifecycles, Lifecycles, SlowProofs!Basis, Basis
<1> QED
  BY <1>1, <1>2, <1>3, <1>4 DEF SlowProofs!vars, vars

LEMMA LateSame ==
  /\ LateProofs!NamesAssumption
  /\ [Late!Next]_vars => [LateProofs!Next]_(LateProofs!vars)
  /\ Init => LateProofs!Init
  /\ LateProofs!TypeOK => TypeOK
<1>1. LateProofs!NamesAssumption
  BY NamesAssumption DEF LateProofs!NamesAssumption, LateProofs!Names, Names
<1>2. Late!Next => LateProofs!Next
  BY DEF LateProofs!Next, Late!Next, LateProofs!WorkspaceStep, Late!WorkspaceStep, LateProofs!When,
         Late!When, LateProofs!ArtifactStep, Late!ArtifactStep, LateProofs!ReviewStep,
         Late!ReviewStep, LateProofs!ProposalStep, Late!ProposalStep, LateProofs!TransactionStep,
         Late!TransactionStep, LateProofs!RecoveryStep, Late!RecoveryStep, LateProofs!Names,
         Late!Names, LateProofs!Lapse, Late!Lapse, LateProofs!ChangeRevision, Late!ChangeRevision,
         LateProofs!Load, Late!Load, LateProofs!GiveUp, Late!GiveUp, LateProofs!CreateWorkspace,
         Late!CreateWorkspace, LateProofs!Prepare, Late!Prepare, LateProofs!MarkReady, Late!MarkReady,
         LateProofs!Claim, Late!Claim, LateProofs!Activate, Late!Activate, LateProofs!Heartbeat,
         Late!Heartbeat, LateProofs!BeginValidation, Late!BeginValidation, LateProofs!GeneratePatch,
         Late!GeneratePatch, LateProofs!RejectCall, Late!RejectCall, LateProofs!Transition,
         Late!Transition, LateProofs!Generate, Late!Generate, LateProofs!Decisions, Late!Decisions,
         LateProofs!ReviewArtifact, Late!ReviewArtifact, LateProofs!ArchiveArtifact,
         Late!ArchiveArtifact, LateProofs!CreateReview, Late!CreateReview, LateProofs!DecideReview,
         Late!DecideReview, LateProofs!ArchiveReview, Late!ArchiveReview, LateProofs!Assemble,
         Late!Assemble, LateProofs!DecideProposal, Late!DecideProposal, LateProofs!ArchiveProposal,
         Late!ArchiveProposal, LateProofs!PrepareTransaction, Late!PrepareTransaction,
         LateProofs!Confirm, Late!Confirm, LateProofs!ArchiveTransaction, Late!ArchiveTransaction,
         LateProofs!RecoverWorkspace, Late!RecoverWorkspace, LateProofs!RecoverProposal,
         Late!RecoverProposal, LateProofs!RecoverTransaction, Late!RecoverTransaction,
         LateProofs!RecoverArtifact, Late!RecoverArtifact, LateProofs!RecoverReview,
         Late!RecoverReview, LateProofs!Awaiting, Late!Awaiting, LateProofs!Own, Late!Own,
         LateProofs!Move, Late!Move, LateProofs!Fenced, Late!Fenced, LateProofs!Keep, Late!Keep,
         LateProofs!Replace, Late!Replace, LateProofs!Version, Late!Version, LateProofs!Of, Late!Of,
         LateProofs!Save, Late!Save, LateProofs!MayGenerate, Late!MayGenerate, LateProofs!View,
         Late!View, LateProofs!NewVersion, Late!NewVersion, LateProofs!Decide, Late!Decide,
         LateProofs!Archive, Late!Archive, LateProofs!MayReview, Late!MayReview, LateProofs!Live,
         Late!Live, LateProofs!ApprovedFor, Late!ApprovedFor, LateProofs!MayPrepare, Late!MayPrepare,
         LateProofs!Recover, Late!Recover, LateProofs!VersionHeld, Late!VersionHeld,
         LateProofs!Accepts, Late!Accepts, LateProofs!Archivable, Late!Archivable, LateProofs!Latest,
         Late!Latest, LateProofs!On, Late!On, LateProofs!ToRecover, Late!ToRecover,
         LateProofs!Recovered, Late!Recovered, LateProofs!AcceptsArtifact, Late!AcceptsArtifact,
         LateProofs!AcceptsReview, Late!AcceptsReview, LateProofs!AcceptsProposal,
         Late!AcceptsProposal, LateProofs!AcceptsTransaction, Late!AcceptsTransaction,
         LateProofs!Prior, Late!Prior, LateProofs!Stands, Late!Stands
<1>3. Init => LateProofs!Init
  BY DEF LateProofs!Init, Init, LateProofs!Names, Names, LateProofs!Absent, Absent
<1>4. LateProofs!TypeOK => TypeOK
  BY DEF LateProofs!TypeOK, TypeOK, LateProofs!Names, Names, LateProofs!Row, Row,
         LateProofs!Lifecycles, Lifecycles, LateProofs!Basis, Basis
<1> QED
  BY <1>1, <1>2, <1>3, <1>4 DEF LateProofs!vars, vars

LEMMA LateSeen == LateProofs!DecidedAsSeen => DecidedAsSeen
BY DEF LateProofs!DecidedAsSeen, DecidedAsSeen, LateProofs!Names, Names, LateProofs!Awaiting,
       Awaiting, LateProofs!Decisions, Decisions, LateProofs!Version, Version

\* The rows are kept by every step.
LEMMA PipelinesGoOn ==
  /\ PipelineProofs!IndInv /\ [Next]_vars => PipelineProofs!IndInv'
  /\ SlowProofs!IndInv /\ [Slow!Next]_vars => SlowProofs!IndInv'
  /\ LateProofs!IndInv /\ [Late!Next]_vars => LateProofs!IndInv'
BY PipelineSame, SlowSame, LateSame, PipelineProofs!StepInv, SlowProofs!StepInv, LateProofs!StepInv

LEMMA PipelinesBegin ==
  Init => PipelineProofs!IndInv /\ SlowProofs!IndInv /\ LateProofs!IndInv
BY PipelineSame, SlowSame, LateSame, PipelineProofs!InitInv, SlowProofs!InitInv, LateProofs!InitInv

LEMMA PipelinesSay ==
  /\ PipelineProofs!IndInv \/ SlowProofs!IndInv \/ LateProofs!IndInv => TypeOK
  /\ LateProofs!IndInv /\ [Late!Next]_vars => DecidedAsSeen
<1>1. PipelineProofs!IndInv \/ SlowProofs!IndInv \/ LateProofs!IndInv => TypeOK
  BY PipelineSame, SlowSame, LateSame
  DEF PipelineProofs!IndInv, SlowProofs!IndInv, LateProofs!IndInv
<1>2. LateProofs!IndInv /\ [Late!Next]_vars => DecidedAsSeen
  BY LateSame, LateSeen, LateProofs!SeenStep DEF LateProofs!IndInv
<1> QED
  BY <1>1, <1>2

-----------------------------------------------------------------------------
(* The parts together.                                                      *)

Deliveries == {"pipeline", "slow pipeline", "late decisions"}
EnginesInv ==
  /\ part = "pipeline" => PipelineProofs!IndInv
  /\ part = "slow pipeline" => SlowProofs!IndInv
  /\ part = "late decisions" => LateProofs!IndInv
  /\ part \notin Deliveries => TypeOK
  /\ ExecutionsInv
  /\ part = "agents" => AgentsInv
  /\ part = "tools" => ToolsInv
  /\ part = "collaboration" => MeetingInv(OneUnit)
  /\ part = "chained" => MeetingInv(Chained)
  /\ part = "served twice" => MeetingInv(ServedTwice)
  /\ part = "workflow" => FlowInv(Staged)
  /\ part = "asked twice" => FlowInv(AskedTwice)
  /\ part = "platform" => PlatformInv

LEMMA MeetingsAssumed == Assumed(OneUnit) /\ Assumed(Chained) /\ Assumed(ServedTwice)
BY AssumedIs, EnginesAssumption

LEMMA FlowsGiven == FlowGiven(Staged) /\ FlowGiven(AskedTwice)
BY FlowGivenIs, EnginesAssumption

LEMMA EnginesBegin == EnginesInit => EnginesInv
<1>1. EnginesInit =>
        /\ part = "agents" => Agents!Init
        /\ part = "tools" => Tools!Init
        /\ part = "collaboration" => Meeting(OneUnit)!Init
        /\ part = "chained" => Meeting(Chained)!Init
        /\ part = "served twice" => Meeting(ServedTwice)!Init
        /\ part = "workflow" => Flow(Staged)!Init
        /\ part = "asked twice" => Flow(AskedTwice)!Init
        /\ part = "platform" => Platform!Init
        /\ Init
  BY DEF EnginesInit
<1>2. ASSUME NEW v, Assumed(v) PROVE Meeting(v)!Init => MeetingInv(v)
  BY <1>2, MeetingBegins
<1>3. ASSUME EnginesInit
      PROVE  /\ part = "collaboration" => MeetingInv(OneUnit)
             /\ part = "chained" => MeetingInv(Chained)
             /\ part = "served twice" => MeetingInv(ServedTwice)
  BY <1>1, <1>2, <1>3, MeetingsAssumed
<1>4. ASSUME EnginesInit
      PROVE  /\ part = "workflow" => FlowInv(Staged)
             /\ part = "asked twice" => FlowInv(AskedTwice)
  BY <1>1, <1>4, FlowBegin, FlowsGiven
<1>5. ASSUME EnginesInit
      PROVE  TypeOK /\ PipelineProofs!IndInv /\ SlowProofs!IndInv /\ LateProofs!IndInv
  BY <1>1, <1>5, PipelinesBegin, PipelinesSay
<1> QED
  BY <1>1, <1>3, <1>4, <1>5, ExecutionsBegin, AgentsBegin, ToolsBegin, PlatformBegins
  DEF EnginesInv

\* A step of a meeting, or of another part.
LEMMA MeetingGoesOn ==
  ASSUME NEW v, Assumed(v), MeetingInv(v), Meeting(v)!Next \/ UNCHANGED collaborationVars
  PROVE  MeetingInv(v)' /\ SessionStands(v)
BY MeetingStep, MeetingStutters DEF collaborationVars

\* What a step of a part keeps, and the parts' steps leave as it is.
LEMMA PartsStay ==
  /\ AgentsInv /\ UNCHANGED agentVars => AgentsInv'
  /\ ToolsInv /\ UNCHANGED toolVars => ToolsInv'
  /\ PlatformInv /\ UNCHANGED platformVars => PlatformInv'
<1>1. ASSUME AgentsInv, UNCHANGED agentVars PROVE AgentsInv'
  BY <1>1 DEF AgentsInv, agentVars
<1>2. ASSUME ToolsInv, UNCHANGED toolVars PROVE ToolsInv'
  BY <1>2, ToolsKept DEF toolVars
<1>3. ASSUME PlatformInv, UNCHANGED platformVars PROVE PlatformInv'
  <2>1. UNCHANGED <<version, keyed, forgotten, phase, result, answer>>
    BY <1>3 DEF platformVars
  <2>2. Platform!TypeOK'
    BY <1>3, <2>1 DEF PlatformInv, Platform!TypeOK
  <2> QED
    BY <1>3, <2>1, <2>2 DEF PlatformInv, DoneOnExpected, RecordsOfDone, Platform!CarriedOutOnce,
                      Platform!SameRequest, Platform!AnsweredWasDone
<1> QED
  BY <1>1, <1>2, <1>3

\* A step of the pipeline, or of another part.
LEMMA DeliveryGoesOn ==
  ASSUME [EnginesNext]_enginesVars
  PROVE  /\ part' = part
         /\ part = "pipeline" => [Next]_vars
         /\ part = "slow pipeline" => [Slow!Next]_vars
         /\ part = "late decisions" => [Late!Next]_vars
         /\ part \notin Deliveries => UNCHANGED vars
BY DEF Deliveries, EnginesNext, enginesVars, Delivering, Executing, Reasoning, Invoking,
       Collaborating, Working, Serving

LEMMA DeliveryStep ==
  ASSUME EnginesInv, [EnginesNext]_enginesVars
  PROVE  /\ part' = "pipeline" => PipelineProofs!IndInv'
         /\ part' = "slow pipeline" => SlowProofs!IndInv'
         /\ part' = "late decisions" => LateProofs!IndInv'
         /\ part' \notin Deliveries => TypeOK'
<1>1. /\ part' = "pipeline" => PipelineProofs!IndInv'
      /\ part' = "slow pipeline" => SlowProofs!IndInv'
      /\ part' = "late decisions" => LateProofs!IndInv'
  BY DeliveryGoesOn, PipelinesGoOn DEF EnginesInv
<1>2. ASSUME part' \notin Deliveries PROVE TypeOK'
  BY <1>2, DeliveryGoesOn DEF EnginesInv, vars, TypeOK
<1> QED
  BY <1>1, <1>2

LEMMA EnginesStep == EnginesInv /\ [EnginesNext]_enginesVars => EnginesInv'
<1> SUFFICES ASSUME EnginesInv, [EnginesNext]_enginesVars PROVE EnginesInv'
  OBVIOUS
<1>1. /\ part' = part
      /\ (part = "agents" /\ Agents!Next) \/ UNCHANGED agentVars
      /\ (part = "tools" /\ Tools!Next) \/ UNCHANGED toolVars
      /\ part = "collaboration" => Meeting(OneUnit)!Next \/ UNCHANGED collaborationVars
      /\ part = "chained" => Meeting(Chained)!Next \/ UNCHANGED collaborationVars
      /\ part = "served twice" => Meeting(ServedTwice)!Next \/ UNCHANGED collaborationVars
      /\ part = "workflow" => Flow(Staged)!Next \/ UNCHANGED workflowVars
      /\ part = "asked twice" => Flow(AskedTwice)!Next \/ UNCHANGED workflowVars
      /\ (part = "platform" /\ Platform!Next) \/ UNCHANGED platformVars
  BY DEF EnginesNext, enginesVars, Delivering, Executing, Reasoning, Invoking, Collaborating,
         Working, Serving
<1>2. ExecutionsInv'
  BY ExecutionsStep DEF EnginesInv
<1>3. ASSUME AgentsInv, Agents!Next PROVE AgentsInv'
  BY <1>3, AgentsStep, AgentsKept
<1>4. ASSUME part = "agents" PROVE AgentsInv'
  BY <1>1, <1>3, <1>4, PartsStay DEF EnginesInv
<1>5. ASSUME part = "tools" PROVE ToolsInv'
  BY <1>1, <1>5, ToolsStep, PartsStay DEF EnginesInv
<1>6. ASSUME part = "workflow" PROVE FlowInv(Staged)'
  BY <1>1, <1>6, FlowGoesOn, FlowsGiven DEF EnginesInv
<1>7. ASSUME part = "platform" PROVE PlatformInv'
  BY <1>1, <1>7, PlatformStep, PartsStay DEF EnginesInv
<1>8. ASSUME part = "collaboration" PROVE MeetingInv(OneUnit)'
  BY <1>1, <1>8, MeetingGoesOn, MeetingsAssumed DEF EnginesInv
<1>9. ASSUME part = "chained" PROVE MeetingInv(Chained)'
  BY <1>1, <1>9, MeetingGoesOn, MeetingsAssumed DEF EnginesInv
<1>10. ASSUME part = "served twice" PROVE MeetingInv(ServedTwice)'
  BY <1>1, <1>10, MeetingGoesOn, MeetingsAssumed DEF EnginesInv
<1>11. ASSUME part = "asked twice" PROVE FlowInv(AskedTwice)'
  BY <1>1, <1>11, FlowGoesOn, FlowsGiven DEF EnginesInv
<1> QED
  BY <1>1, <1>2, <1>4, <1>5, <1>6, <1>7, <1>8, <1>9, <1>10, <1>11, DeliveryStep DEF EnginesInv

LEMMA EnginesAlways == EnginesSpec => []EnginesInv
BY EnginesBegin, EnginesStep, PTL DEF EnginesSpec

\* Every part's state is of its types: rows, numbers of versions, attempts and
\* retries, and what the callers hold.
THEOREM TypesHold == EnginesSpec => []TypesKept
<1>1. ASSUME EnginesInv PROVE TypesKept
  <2>1. /\ part = "agents" => Agents!TypeOK
        /\ part = "tools" => Tools!TypeOK
        /\ part = "platform" => Platform!TypeOK
    BY <1>1, AgentsSay DEF EnginesInv, ToolsInv, PlatformInv
  <2>2. /\ part = "collaboration" => Meeting(OneUnit)!TypeOK
        /\ part = "chained" => Meeting(Chained)!TypeOK
        /\ part = "served twice" => Meeting(ServedTwice)!TypeOK
    BY <1>1, MeetingImplies, MeetingsAssumed DEF EnginesInv
  <2>3. /\ part = "workflow" => Flow(Staged)!TypeOK
        /\ part = "asked twice" => Flow(AskedTwice)!TypeOK
    BY <1>1, FlowSays, FlowsGiven DEF EnginesInv
  <2>4. TypeOK
    BY <1>1, PipelinesSay DEF EnginesInv, Deliveries
  <2> QED
    BY <1>1, <2>1, <2>2, <2>3, <2>4, ExecutionsTyped DEF EnginesInv, TypesKept
<1> QED
  BY <1>1, EnginesAlways, PTL

\* A tool runs for one caller of an invocation and everyone is told the end
\* that is stored; a request of the platform that is sent again is not
\* carried out again, and a success is what its operation has made.
THEOREM RepeatedOnce == EnginesSpec => []RepeatedIsDoneOnce
<1>1. ASSUME EnginesInv PROVE RepeatedIsDoneOnce
  <2>1. ASSUME part = "tools" PROVE Tools!BegunOnce /\ Tools!AnswersAgree
    BY <1>1, <2>1 DEF EnginesInv, ToolsInv, BegunAsItSays, Tools!BegunOnce
  <2>2. ASSUME part = "platform" PROVE Platform!CarriedOutOnce /\ Platform!AnsweredWasDone
    BY <1>1, <2>2 DEF EnginesInv, PlatformInv
  <2> QED
    BY <2>1, <2>2 DEF RepeatedIsDoneOnce
<1> QED
  BY <1>1, EnginesAlways, PTL

\* A result that stands is of who held the work last: of the last agent that
\* had a unit, and of the attempt of a stage that was in flight when it was
\* saved; the outputs of an agent's runtime follow one another as its claims
\* do, and a claim has one at most.
THEOREM HoldersResults == EnginesSpec => []ResultsOfTheHolder
<1>1. EnginesInv => ResultsOfTheHolder
  BY ExecutionsSay, AgentsSay, FlowSays, FlowsGiven DEF EnginesInv, ResultsOfTheHolder
<1> QED
  BY <1>1, EnginesAlways, PTL

\* No unit has been given out before its prerequisites are done, and no stage
\* after the execution's begun before the execution is approved.
THEOREM InTheirTime == EnginesSpec => []NothingBeforeItsTime
<1>1. EnginesInv => NothingBeforeItsTime
  BY ExecutionsSay, FlowSays, FlowsGiven DEF EnginesInv, NothingBeforeItsTime
<1> QED
  BY <1>1, EnginesAlways, PTL

\* Units that wait have attempts left, or changes were asked of what their
\* last attempt published; a user's leases exceed the quota by no more than
\* the calls that overlap; and a stage has the attempts that it is allowed.
THEOREM LimitsKept == EnginesSpec => []WithinLimits
<1>1. EnginesInv => WithinLimits
  BY ExecutionsSay, FlowSays, FlowsGiven DEF EnginesInv, WithinLimits
<1> QED
  BY <1>1, EnginesAlways, PTL

\* A collaboration begins a unit when those before it have succeeded, accepts
\* reviewed work by another's approval, keeps every participant's list and the
\* retries, and ends with its units, however often it reassigns, retries,
\* reroutes and recovers in one operation.
THEOREM SessionsInAgreement == EnginesSpec => []SessionsAgree
<1>1. ASSUME EnginesInv PROVE SessionsAgree
  BY <1>1, MeetingImplies, MeetingsAssumed DEF EnginesInv, SessionsAgree
<1> QED
  BY <1>1, EnginesAlways, PTL

\* An ended unit of an execution stays as it ended, and in the memory store an
\* ended execution; what an agent published stays, as its claim's,
\* and a superseded runtime is leased no more; a collaboration keeps its end
\* and what was given to it whoever saves what they had loaded before, a
\* workflow keeps its end, its checkpoints and the requests of its stages, and
\* a decision is on the version that was seen.
THEOREM EndsKept == EnginesSpec => EndsStand
<1> DEFINE Stand == /\ part = "late decisions" => DecidedAsSeen
                    /\ part = "execution" => Memory!EndedUnitsStay /\ Memory!EndedRunsStay
                    /\ part = "durable execution" => DurableRun!EndedUnitsStay
                    /\ part = "agents" => Agents!OutputsStand /\ Agents!SupersededForGood
                    /\ part = "served twice" => Meeting(ServedTwice)!NothingIsLost
                    /\ part = "workflow" => Flow(Staged)!HistoryStands
                    /\ part = "asked twice" => Flow(AskedTwice)!HistoryStands
<1>1. ASSUME EnginesInv, EnginesNext PROVE Stand
  <2>1. /\ part = "execution" => Memory!EndedUnitsStay /\ Memory!EndedRunsStay
        /\ part = "durable execution" => DurableRun!EndedUnitsStay
    BY <1>1, ExecutionsStand DEF EnginesInv
  <2>2. ASSUME part = "agents" PROVE Agents!OutputsStand /\ Agents!SupersededForGood
    <3>1. Agents!Next \/ UNCHANGED agentVars
      BY <1>1, <2>2 DEF EnginesNext, Delivering, Executing, Reasoning, Invoking,
                        Collaborating, Working, Serving
    <3> QED
      BY <1>1, <2>2, <3>1, AgentsStand DEF EnginesInv
  <2>3. /\ part = "workflow" => Flow(Staged)!HistoryStands
        /\ part = "asked twice" => Flow(AskedTwice)!HistoryStands
    <3>1. /\ part = "workflow" => Flow(Staged)!Next \/ UNCHANGED workflowVars
          /\ part = "asked twice" => Flow(AskedTwice)!Next \/ UNCHANGED workflowVars
      BY <1>1 DEF EnginesNext, Delivering, Executing, Reasoning, Invoking, Collaborating,
                  Working, Serving
    <3> QED
      BY <1>1, <3>1, FlowGoesOn, FlowsGiven DEF EnginesInv
  <2>4. ASSUME part = "served twice" PROVE Meeting(ServedTwice)!NothingIsLost
    <3>1. Meeting(ServedTwice)!Next \/ UNCHANGED collaborationVars
      BY <1>1, <2>4 DEF EnginesNext, Delivering, Executing, Reasoning, Invoking,
                        Collaborating, Working, Serving
    <3>2. SessionStands(ServedTwice)
      BY <1>1, <2>4, <3>1, MeetingGoesOn, MeetingsAssumed DEF EnginesInv
    <3> QED
      BY <3>2 DEF SessionStands, Grows, Closed, Meeting!NothingIsLost, Meeting!Terminal, ServedTwice
  <2>5. ASSUME part = "late decisions" PROVE DecidedAsSeen
    BY <1>1, <2>5, DeliveryGoesOn, PipelinesSay DEF EnginesInv
  <2> QED
    BY <2>1, <2>2, <2>3, <2>4, <2>5
<1>2. EnginesInv /\ [EnginesNext]_enginesVars => [Stand]_enginesVars
  BY <1>1
<1> QED
  BY <1>2, EnginesAlways, PTL DEF EnginesSpec, EndsStand
=============================================================================
