---------------------------- MODULE ChatSessions ----------------------------
(***************************************************************************)
(* The questions asked in one chat session.  An ask looks for the turn that *)
(* its idempotency key has stored, retrieves and generates an answer for    *)
(* as long as that takes, and commits the question, the answer and the      *)
(* key's record in one transaction that locks the session.  Messages that   *)
(* are posted directly take their place in the session's order before they  *)
(* wait for that lock.  An answer is named by the ask that generated it.    *)
(*                                                                          *)
(* A request's deadline may pass at any time; what it has sent to the       *)
(* database may be carried out all the same.  The contents of messages, the *)
(* evidence and the selected context are left out.                          *)
(***************************************************************************)
EXTENDS Naturals, FiniteSets

CONSTANTS
  Asks,
  Notes,        \* messages posted directly
  Key,          \* of each ask, chosen by its client or its request's id
  Question,     \* of each ask: what the payload's hash tells apart
  MaxExpiries,  \* bound: how often the record of a key expires
  None

Keys == {Key[a] : a \in Asks}
Answers == Asks
Refusals == {"timeout", "conflict", "not_found", "error"}

ChatAssumption ==
  /\ DOMAIN Key = Asks /\ DOMAIN Question = Asks
  /\ (Asks \union Notes) \intersect ({None} \union Refusals) = {}
  /\ Asks \intersect Notes = {} /\ None \notin Refusals
  /\ MaxExpiries \in Nat

VARIABLES
  open,      \* the session exists
  messages,  \* its messages: who wrote which, and where in the order
  order,     \* the next number of session_message_order_seq
  records,   \* per key: the ask whose answer is its response
  lapsed,    \* the keys whose record has expired
  expiries,  \* how often that has happened to a key
  lock,      \* the transaction that holds the session's row
  phase,     \* what each ask and note is doing
  places,    \* the numbers it has taken
  told       \* what the client of an ask was answered

vars == <<open, messages, order, records, lapsed, expiries, lock, phase, places, told>>

Clients == Asks \union Notes
Message == [by: Clients, role: {"user", "assistant", "note"}, at: Nat]

TypeOK ==
  /\ open \in BOOLEAN
  /\ messages \subseteq Message
  /\ order \in Nat
  /\ records \in [Keys -> Asks \union {None}]
  /\ lapsed \subseteq {k \in Keys : records[k] # None}
  /\ expiries \in [Keys -> 0..MaxExpiries]
  /\ lock \in Asks \union {None}
  /\ phase \in [Clients -> {"idle", "received", "working", "committing", "asked",
                             "answered", "numbered", "done"}]
  /\ places \in [Clients -> SUBSET Nat]
  /\ told \in [Asks -> Answers \union Refusals \union {None}]

Init ==
  /\ open = TRUE
  /\ messages = {}
  /\ order = 1
  /\ records = [k \in Keys |-> None]
  /\ lapsed = {}
  /\ expiries = [k \in Keys |-> 0]
  /\ lock = None
  /\ phase = [c \in Clients |-> "idle"]
  /\ places = [c \in Clients |-> {}]
  /\ told = [a \in Asks |-> None]

stored == <<open, messages, order, records, lapsed, expiries>>

Reply(a, what) ==
  /\ phase' = [phase EXCEPT ![a] = "done"]
  /\ told' = IF told[a] = None THEN [told EXCEPT ![a] = what] ELSE told
Proceed(c, next) ==
  /\ phase' = [phase EXCEPT ![c] = next]
  /\ UNCHANGED told

\* The deadline's signal stops a request between two calls.
Aborted(a) == told[a] = "timeout"

Current(k) == IF k \in lapsed THEN None ELSE records[k]

-----------------------------------------------------------------------------
(* An ask.                                                                  *)

Receive(a) ==
  /\ phase[a] = "idle"
  /\ IF open THEN Proceed(a, "received") ELSE Reply(a, "not_found")
  /\ UNCHANGED <<stored, lock, places>>

\* mutant: the payload of a stored turn is not compared
ReplayAny(a, r) == Reply(a, r)
\* A key is used again for what it was used for, or refused.
Replay(a, r) == Reply(a, IF Question[r] = Question[a] THEN r ELSE "conflict")

\* Of a deleted session nothing is found.
Lookup(a) ==
  /\ phase[a] = "received"
  /\ IF Aborted(a) THEN Reply(a, "timeout")
     ELSE IF Current(Key[a]) # None THEN Replay(a, Current(Key[a]))
     ELSE Proceed(a, "working")
  /\ UNCHANGED <<stored, lock, places>>

\* Retrieval and generation, which fail or take longer than the deadline.
Generate(a) ==
  /\ phase[a] = "working"
  /\ IF Aborted(a) THEN Reply(a, "timeout")
     ELSE Reply(a, "error") \/ Proceed(a, "committing")
  /\ UNCHANGED <<stored, lock, places>>

\* mutant: the session's row is read and not locked
LockNothing(a) == UNCHANGED lock
LockSession(a) == lock = None /\ lock' = a

\* mutant: the record of the key is not looked for under the lock
BeginUnchecked(a) ==
  /\ phase[a] = "committing"
  /\ open
  /\ LockSession(a)
  /\ Proceed(a, "asked")
  /\ places' = [places EXCEPT ![a] = {order}]
  /\ order' = order + 1
  /\ UNCHANGED <<open, messages, records, lapsed, expiries>>
\* The question takes its place.
Begin(a) ==
  /\ phase[a] = "committing"
  /\ open /\ Current(Key[a]) = None
  /\ LockSession(a)
  /\ Proceed(a, "asked")
  /\ places' = [places EXCEPT ![a] = {order}]
  /\ order' = order + 1
  /\ UNCHANGED <<open, messages, records, lapsed, expiries>>

\* mutant: an ask that finds its turn stored answers with what it generated
FindStoredOwn(a) ==
  /\ phase[a] = "committing"
  /\ lock = None
  /\ open /\ Current(Key[a]) # None
  /\ Reply(a, IF Question[Current(Key[a])] = Question[a] THEN a ELSE "conflict")
  /\ UNCHANGED <<stored, lock, places>>
\* Another ask has stored the turn of the key.
FindStored(a) ==
  /\ phase[a] = "committing"
  /\ lock = None
  /\ open /\ Current(Key[a]) # None
  /\ Replay(a, Current(Key[a]))
  /\ UNCHANGED <<stored, lock, places>>

FindDeleted(a) ==
  /\ phase[a] = "committing"
  /\ ~open
  /\ Reply(a, "error")
  /\ UNCHANGED <<stored, lock, places>>

Answer(a) ==
  /\ phase[a] = "asked"
  /\ Proceed(a, "answered")
  /\ places' = [places EXCEPT ![a] = @ \union {order}]
  /\ order' = order + 1
  /\ UNCHANGED <<open, messages, records, lapsed, expiries, lock>>

Turn(a) ==
  {[by |-> a, role |-> "user", at |-> n] : n \in {p \in places[a] : \A q \in places[a] : p <= q}}
    \union
  {[by |-> a, role |-> "assistant", at |-> n] : n \in {p \in places[a] : \A q \in places[a] : p >= q}}

\* The request may fail although the transaction is committed.
Commit(a) ==
  /\ phase[a] = "answered"
  /\ \E heard \in {a, "error"} : Reply(a, heard)
  /\ messages' = messages \union Turn(a)
  /\ records' = [records EXCEPT ![Key[a]] = a]
  /\ lapsed' = lapsed \ {Key[a]}
  /\ lock' = None
  /\ UNCHANGED <<open, order, expiries, places>>

\* A transaction that waits too long, fails or is cut off with its request.
RollBack(a) ==
  /\ phase[a] \in {"committing", "asked", "answered"}
  /\ Reply(a, "error")
  /\ lock' = IF lock = a THEN None ELSE lock
  /\ UNCHANGED <<stored, places>>

\* The request timeout answers, whatever the request is waiting for.
Expire(a) ==
  /\ phase[a] \notin {"idle", "done"}
  /\ told[a] = None
  /\ told' = [told EXCEPT ![a] = "timeout"]
  /\ UNCHANGED <<stored, lock, phase, places>>

-----------------------------------------------------------------------------
(* Posted messages, deletion, and the records' retention.                   *)

Post(n) ==
  /\ phase[n] = "idle"
  /\ open
  /\ Proceed(n, "numbered")
  /\ places' = [places EXCEPT ![n] = {order}]
  /\ order' = order + 1
  /\ UNCHANGED <<open, messages, records, lapsed, expiries, lock>>

\* The foreign key and the trigger wait for the session's row.
StoreNote(n) ==
  /\ phase[n] = "numbered"
  /\ lock = None
  /\ Proceed(n, "done")
  /\ messages' = IF open
                 THEN messages \union {[by |-> n, role |-> "note", at |-> p] : p \in places[n]}
                 ELSE messages
  /\ UNCHANGED <<open, order, records, lapsed, expiries, lock, places>>

Delete ==
  /\ open
  /\ lock = None
  /\ open' = FALSE
  /\ messages' = {}
  /\ records' = [k \in Keys |-> None]
  /\ lapsed' = {}
  /\ UNCHANGED <<order, expiries, lock, phase, places, told>>

Lapse(k) ==
  /\ records[k] # None /\ k \notin lapsed
  /\ expiries[k] < MaxExpiries
  /\ lapsed' = lapsed \union {k}
  /\ expiries' = [expiries EXCEPT ![k] = @ + 1]
  /\ UNCHANGED <<open, messages, order, records, lock, phase, places, told>>

\* mutant: a new backend finds the records as they were
CleanUpNone ==
  /\ lapsed # {}
  /\ records' = [k \in Keys |-> Current(k)]
  /\ UNCHANGED <<open, messages, order, lapsed, expiries, lock, phase, places, told>>
\* At the start of a backend.
CleanUp ==
  /\ lapsed # {}
  /\ records' = [k \in Keys |-> Current(k)]
  /\ lapsed' = {}
  /\ UNCHANGED <<open, messages, order, expiries, lock, phase, places, told>>

Next ==
  \/ \E a \in Asks:
       \/ Receive(a) \/ Lookup(a) \/ Generate(a) \/ Begin(a) \/ FindStored(a)
       \/ FindDeleted(a) \/ Answer(a) \/ Commit(a) \/ RollBack(a) \/ Expire(a)
  \/ \E n \in Notes: Post(n) \/ StoreNote(n)
  \/ Delete \/ CleanUp
  \/ \E k \in Keys: Lapse(k)

Spec == Init /\ [][Next]_vars
-----------------------------------------------------------------------------
(* Properties.                                                              *)

Spoken(a, role) == {m \in messages : m.by = a /\ m.role = role}
StoredTurns == {a \in Asks : Spoken(a, "user") # {} \/ Spoken(a, "assistant") # {}}

\* An answer a client has got is that of a turn for its key and its question,
\* and both messages of that turn are in the session until it is deleted,
\* however many servers worked on it and whichever of them was cut off.
AnswersAreStored ==
  \A a \in Asks : told[a] \in Answers =>
    /\ Key[told[a]] = Key[a] /\ Question[told[a]] = Question[a]
    /\ open => Spoken(told[a], "user") # {} /\ Spoken(told[a], "assistant") # {}

\* A turn is stored once for its key while its record is retained: a retry
\* after a timeout, or two asks at once, do not ask twice.
StoredOncePerKey ==
  \A k \in Keys :
    Cardinality({a \in StoredTurns : Key[a] = k}) <= 1 + expiries[k]

\* While the record of a key is retained its clients get the same answer.
SameAnswer ==
  \A a, b \in Asks :
    /\ Key[a] = Key[b] /\ expiries[Key[a]] = 0
    /\ told[a] \in Answers /\ told[b] \in Answers
    => told[a] = told[b]

\* The messages of two turns do not mix, at whatever time they were committed.
TurnsDoNotInterleave ==
  \A a, b \in StoredTurns : a # b =>
    \A m, n \in Spoken(a, "user") \union Spoken(a, "assistant") :
      ~ \E x \in Spoken(b, "user") \union Spoken(b, "assistant") :
          m.at < x.at /\ x.at < n.at
=============================================================================
