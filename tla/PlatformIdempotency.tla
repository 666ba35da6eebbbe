------------------------- MODULE PlatformIdempotency -------------------------
(***************************************************************************)
(* The platform API's operations on one workflow.  A request names the      *)
(* version it expects and carries an idempotency key; it looks for the      *)
(* key's record, carries out its operation, which moves the workflow to its *)
(* next version, and puts the response under the key.  The three are        *)
(* separate calls of the database, and a request may be lost between any    *)
(* two of them; its client sends it again as another request.               *)
(***************************************************************************)
EXTENDS Naturals

CONSTANTS
  Requests,
  Key,       \* of each request
  Expected,  \* of each request: its payload, the version it expects
  None

Keys == {Key[r] : r \in Requests}
Answers ==
  [what: {"none", "success", "conflict", "precondition_failed"}, version: Nat]

IdempotencyAssumption ==
  /\ DOMAIN Key = Requests
  /\ Expected \in [Requests -> Nat \ {0}]
  /\ None \notin Nat

VARIABLES
  version,  \* of the workflow
  record,   \* of each key
  expired,  \* the keys whose record is older than its time to live
  phase,    \* of each request
  result,   \* of the operation it has carried out
  answer    \* that its client has got

vars == <<version, record, expired, phase, result, answer>>

TypeOK ==
  /\ version \in Nat \ {0}
  /\ record \in [Keys -> {None} \union [payload: Nat, response: Nat]]
  /\ expired \subseteq {k \in Keys : record[k] # None}
  /\ phase \in [Requests -> {"new", "operating", "putting", "ended"}]
  /\ result \in [Requests -> Nat \union {None}]
  /\ answer \in [Requests -> Answers]

Init ==
  /\ version = 1
  /\ record = [k \in Keys |-> None]
  /\ expired = {}
  /\ phase = [r \in Requests |-> "new"]
  /\ result = [r \in Requests |-> None]
  /\ answer = [r \in Requests |-> [what |-> "none", version |-> 0]]

Answer(r, what, response) ==
  /\ phase' = [phase EXCEPT ![r] = "ended"]
  /\ answer' = [answer EXCEPT ![r] = [what |-> what, version |-> response]]
Continue(r, next) ==
  /\ phase' = [phase EXCEPT ![r] = next]
  /\ UNCHANGED answer

\* mutant: the payload of the record is not compared
RepeatAny(r) == Answer(r, "success", record[Key[r]].response)
\* The record's response, for the payload it is of.
Repeat(r) ==
  IF record[Key[r]].payload = Expected[r]
  THEN Answer(r, "success", record[Key[r]].response)
  ELSE Answer(r, "conflict", 0)

\* An expired record is not found.
Get(r) ==
  /\ phase[r] = "new"
  /\ IF record[Key[r]] # None /\ Key[r] \notin expired THEN Repeat(r)
     ELSE Continue(r, "operating")
  /\ UNCHANGED <<version, record, expired, result>>

\* mutant: the version is not compared
OperateUnfenced(r) ==
  /\ phase[r] = "operating"
  /\ version' = version + 1 /\ result' = [result EXCEPT ![r] = version + 1]
  /\ Continue(r, "putting")
  /\ UNCHANGED <<record, expired>>
\* What is refused is not recorded.
Operate(r) ==
  /\ phase[r] = "operating"
  /\ IF version = Expected[r]
     THEN /\ version' = version + 1 /\ result' = [result EXCEPT ![r] = version + 1]
          /\ Continue(r, "putting")
     ELSE Answer(r, "precondition_failed", 0) /\ UNCHANGED <<version, result>>
  /\ UNCHANGED <<record, expired>>

\* A record that is there is kept, expired or not.
Put(r) ==
  /\ phase[r] = "putting"
  /\ IF record[Key[r]] # None THEN Repeat(r) /\ UNCHANGED record
     ELSE /\ record' = [record EXCEPT
                ![Key[r]] = [payload |-> Expected[r], response |-> result[r]]]
          /\ Answer(r, "success", result[r])
  /\ UNCHANGED <<version, expired, result>>

Lose(r) ==
  /\ phase[r] \in {"operating", "putting"}
  /\ Continue(r, "ended")
  /\ UNCHANGED <<version, record, expired, result>>

\* mutant: a key that has no record expires
ExpireAny(k) ==
  /\ k \notin expired
  /\ expired' = expired \union {k}
  /\ UNCHANGED <<version, record, phase, result, answer>>
Expire(k) ==
  /\ record[k] # None /\ k \notin expired
  /\ expired' = expired \union {k}
  /\ UNCHANGED <<version, record, phase, result, answer>>

Next ==
  \/ \E r \in Requests: Get(r) \/ Operate(r) \/ Put(r) \/ Lose(r)
  \/ \E k \in Keys: Expire(k)
Spec == Init /\ [][Next]_vars

-----------------------------------------------------------------------------
SameRequest(r, s) == Key[r] = Key[s] /\ Expected[r] = Expected[s]

(* A request that is sent again, at once or after its record has expired,   *)
(* is not carried out again (executeEngineeringApiIdempotent, and the       *)
(* version that every operation compares).                                  *)
CarriedOutOnce ==
  \A r, s \in Requests:
    r # s /\ SameRequest(r, s) /\ result[r] # None => result[s] = None

(* Who is answered a success is answered with what an operation on the      *)
(* version it expects has made of the workflow.                             *)
AnsweredWasDone ==
  \A r \in Requests:
    answer[r].what = "success" =>
      answer[r].version = Expected[r] + 1 /\ answer[r].version <= version
=============================================================================
