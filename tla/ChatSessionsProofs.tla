------------------------- MODULE ChatSessionsProofs -------------------------
(***************************************************************************)
(* For any number of asks, posted messages and keys: a client is answered   *)
(* with a turn that is stored, a key has one turn for each of its records,  *)
(* the clients of a retained record hear the same answer, and turns do not  *)
(* mix.  The invariant adds what the transaction relies on: the lock is     *)
(* held by the ask whose transaction is under way and whose key has no      *)
(* record; every turn that is stored lies before the places which the       *)
(* holder has taken; a record names a turn of its key that is stored; and   *)
(* the turns of a key are counted by its records, present and expired.      *)
(***************************************************************************)
EXTENDS ChatSessions, FiniteSetTheorems, TLAPS

StoredTyped ==
  /\ open \in BOOLEAN
  /\ messages \subseteq Message
  /\ order \in Nat
  /\ records \in [Keys -> Asks \union {None}]
  /\ lapsed \subseteq {k \in Keys : records[k] # None}
  /\ expiries \in [Keys -> 0..MaxExpiries]

Phases ==
  {"idle", "received", "working", "committing", "asked", "answered", "numbered", "done"}
PhaseTyped == phase \in [Clients -> Phases]
ToldTyped == told \in [Asks -> Answers \union Refusals \union {None}]
LockTyped == lock \in Asks \union {None}
PlacesTyped == places \in [Clients -> SUBSET Nat]

LEMMA TypeOKParts ==
  TypeOK <=> StoredTyped /\ LockTyped /\ PhaseTyped /\ PlacesTyped /\ ToldTyped
BY DEF TypeOK, StoredTyped, LockTyped, PhaseTyped, PlacesTyped, ToldTyped, Phases

LEMMA KeyOfAsk == ASSUME NEW a \in Asks PROVE Key[a] \in Keys /\ a \in Clients
BY DEF Keys, Clients

\* What an ask is answered from the records.
Response(a, w) ==
  \/ w \in Refusals
  \/ /\ w \in Asks
     /\ w = Current(Key[a])
     /\ Question[w] = Question[a]

\* A step of an ask that changes neither the session nor the lock.
Talks(a) ==
  /\ UNCHANGED <<stored, lock, places>>
  /\ \/ phase' = phase
     \/ /\ phase[a] \in {"idle", "received", "working", "committing"}
        /\ \E next \in {"received", "working", "committing", "done"} :
             phase' = [phase EXCEPT ![a] = next]
  /\ \/ told' = told
     \/ \E w : Response(a, w) /\ told[a] = None /\ told' = [told EXCEPT ![a] = w]

LEMMA ReplySays ==
  ASSUME NEW a \in Asks, NEW w, Response(a, w), Reply(a, w)
  PROVE  /\ phase' = [phase EXCEPT ![a] = "done"]
         /\ \/ told' = told
            \/ \E x : Response(a, x) /\ told[a] = None /\ told' = [told EXCEPT ![a] = x]
BY DEF Reply

LEMMA ReplayReplies ==
  ASSUME TypeOK, NEW a \in Asks, Current(Key[a]) # None, Replay(a, Current(Key[a]))
  PROVE  \E w : Response(a, w) /\ Reply(a, w)
<1>1. Current(Key[a]) \in Asks
  BY KeyOfAsk DEF TypeOK, Current
<1> QED
  BY <1>1 DEF Replay, Response, Refusals

\* The steps of an ask but those of its transaction.
LEMMA AsksTalk ==
  ASSUME TypeOK, NEW a \in Asks,
         \/ Receive(a) \/ Lookup(a) \/ Generate(a) \/ FindStored(a) \/ FindDeleted(a)
         \/ Expire(a)
  PROVE  Talks(a)
<1>1. \A w \in Refusals : Response(a, w)
  BY DEF Response
<1>2. "timeout" \in Refusals /\ "not_found" \in Refusals /\ "error" \in Refusals
  BY DEF Refusals
<1>3. ASSUME NEW w, Response(a, w), Reply(a, w), UNCHANGED <<stored, lock, places>>,
             phase[a] \in {"idle", "received", "working", "committing"}
      PROVE  Talks(a)
  BY <1>3, ReplySays DEF Talks
<1>4. ASSUME NEW next \in {"received", "working", "committing"}, Proceed(a, next),
             UNCHANGED <<stored, lock, places>>,
             phase[a] \in {"idle", "received", "working", "committing"}
      PROVE  Talks(a)
  BY <1>4 DEF Talks, Proceed
<1>5. CASE Receive(a)
  BY <1>1, <1>2, <1>3, <1>4, <1>5 DEF Receive
<1>6. CASE Lookup(a)
  BY <1>1, <1>2, <1>3, <1>4, <1>6, ReplayReplies DEF Lookup
<1>7. CASE Generate(a)
  BY <1>1, <1>2, <1>3, <1>4, <1>7 DEF Generate
<1>8. CASE FindStored(a)
  BY <1>3, <1>8, ReplayReplies DEF FindStored
<1>9. CASE FindDeleted(a)
  BY <1>1, <1>2, <1>3, <1>9 DEF FindDeleted
<1>10. CASE Expire(a)
  BY <1>1, <1>2, <1>10 DEF Expire, Talks
<1> QED
  BY <1>5, <1>6, <1>7, <1>8, <1>9, <1>10

-----------------------------------------------------------------------------
(* The invariant.                                                           *)

\* The lock is held by the ask whose transaction it is, while the key has no record.
LockInv ==
  /\ \A a \in Asks : phase[a] \in {"asked", "answered"} => lock = a
  /\ lock # None =>
       phase[lock] \in {"asked", "answered"} /\ open /\ Current(Key[lock]) = None

\* Places are taken in order, the question's before the answer's.
PlacesInv ==
  /\ \A c \in Clients : \A p \in places[c] : p < order
  /\ \A a \in Asks :
       /\ phase[a] = "asked" => \E p \in places[a] : places[a] = {p}
       /\ phase[a] = "answered" => \E p, q \in places[a] : p < q /\ places[a] = {p, q}

\* Turns are stored by asks that are done, each after all that were stored before it.
MessagesInv ==
  \A m \in messages :
    /\ m.at < order
    /\ m.role # "note" =>
         /\ m.by \in Asks /\ phase[m.by] = "done"
         /\ lock # None => \A p \in places[lock] : m.at < p

RecordsInv ==
  /\ \A k \in lapsed : expiries[k] > 0
  /\ \A k \in Keys : records[k] # None =>
       /\ open
       /\ Key[records[k]] = k
       /\ Spoken(records[k], "user") # {} /\ Spoken(records[k], "assistant") # {}

TurnsOf(k) == {a \in StoredTurns : Key[a] = k}

\* A key has one turn for each of its records, the present one and those that expired.
CountInv ==
  \A k \in Keys :
    /\ IsFiniteSet(TurnsOf(k))
    /\ Cardinality(TurnsOf(k)) <= expiries[k] + (IF Current(k) = None THEN 0 ELSE 1)

\* What was answered is what the record says, while it is the key's first.
RecordedInv ==
  \A a \in Asks :
    open /\ told[a] \in Answers /\ expiries[Key[a]] = 0 => records[Key[a]] = told[a]

Inv ==
  /\ TypeOK /\ LockInv /\ PlacesInv /\ MessagesInv /\ RecordsInv /\ CountInv
  /\ RecordedInv /\ AnswersAreStored /\ SameAnswer /\ TurnsDoNotInterleave

LEMMA InitInv == ASSUME ChatAssumption, Init PROVE Inv
<1>1. TypeOK
  BY DEF ChatAssumption, Init, TypeOK, Clients, Answers
<1>2. messages = {} /\ lock = None /\ open /\ lapsed = {} /\ \A k \in Keys : records[k] = None
  BY DEF Init
<1>3. \A a \in Asks : phase[a] = "idle" /\ told[a] = None /\ None \notin Answers
  BY DEF Init, Clients, ChatAssumption, Answers
<1>4. \A c \in Clients : places[c] = {}
  BY DEF Init
<1>5. LockInv /\ PlacesInv /\ MessagesInv /\ RecordsInv
  BY <1>2, <1>3, <1>4 DEF LockInv, PlacesInv, MessagesInv, RecordsInv
<1>6. StoredTurns = {} /\ \A k : TurnsOf(k) = {}
  BY <1>2 DEF StoredTurns, Spoken, TurnsOf
<1>7. CountInv
  BY <1>6, FS_EmptySet DEF CountInv, Init, Current
<1>8. RecordedInv /\ AnswersAreStored /\ SameAnswer
  BY <1>3 DEF RecordedInv, AnswersAreStored, SameAnswer
<1>9. TurnsDoNotInterleave
  BY <1>6 DEF TurnsDoNotInterleave
<1> QED
  BY <1>1, <1>5, <1>7, <1>8, <1>9 DEF Inv

\* What is stored and the lock are as they were.
LEMMA StoredKept ==
  ASSUME Inv, UNCHANGED <<stored, lock>>, PhaseTyped', PlacesTyped', ToldTyped'
  PROVE  /\ TypeOK' /\ RecordsInv' /\ CountInv' /\ TurnsDoNotInterleave'
<1>1. StoredTyped' /\ LockTyped'
  BY TypeOKParts DEF Inv, StoredTyped, LockTyped, stored
<1>2. TypeOK'
  BY <1>1 DEF TypeOK, StoredTyped, LockTyped, PhaseTyped, PlacesTyped, ToldTyped, Phases
<1>3. \A a, role : Spoken(a, role)' = Spoken(a, role)
  BY DEF Spoken, stored
<1>4. StoredTurns' = StoredTurns /\ \A k : TurnsOf(k)' = TurnsOf(k)
  BY <1>3 DEF StoredTurns, TurnsOf
<1>5. \A k : Current(k)' = Current(k)
  BY DEF Current, stored
<1>6. RecordsInv'
  BY <1>3 DEF Inv, RecordsInv, stored
<1>7. CountInv'
  BY <1>4, <1>5 DEF Inv, CountInv, stored
<1>8. TurnsDoNotInterleave'
  BY <1>3, <1>4 DEF Inv, TurnsDoNotInterleave
<1> QED
  BY <1>2, <1>6, <1>7, <1>8

\* Who is answered from the records is answered like those before.
LEMMA ToldKept ==
  ASSUME ChatAssumption, Inv, NEW a \in Asks, stored' = stored,
         \/ told' = told
         \/ \E w : Response(a, w) /\ told[a] = None /\ told' = [told EXCEPT ![a] = w]
  PROVE  ToldTyped' /\ RecordedInv' /\ AnswersAreStored' /\ SameAnswer'
<1>1. ToldTyped /\ UNCHANGED <<open, messages, records, expiries>> /\ lapsed' = lapsed
  BY TypeOKParts DEF Inv, stored
<1>2. \A b, role : Spoken(b, role)' = Spoken(b, role)
  BY <1>1 DEF Spoken
<1>3. CASE told' = told
  <2>1. ToldTyped' /\ RecordedInv' /\ SameAnswer'
    BY <1>1, <1>3 DEF ToldTyped, Inv, RecordedInv, SameAnswer
  <2>2. AnswersAreStored'
    BY <1>1, <1>2, <1>3 DEF Inv, AnswersAreStored
  <2> QED
    BY <2>1, <2>2
<1>4. ASSUME NEW w, Response(a, w), told[a] = None, told' = [told EXCEPT ![a] = w]
      PROVE  ToldTyped' /\ RecordedInv' /\ AnswersAreStored' /\ SameAnswer'
  <2>1. /\ told'[a] = w
        /\ \A b \in Asks : b # a => told'[b] = told[b]
    BY <1>1, <1>4 DEF ToldTyped
  <2>2. /\ w \in Answers \union Refusals
        /\ w \in Answers => /\ records[Key[a]] = w /\ open
                            /\ Key[w] = Key[a] /\ Question[w] = Question[a]
                            /\ Spoken(w, "user") # {} /\ Spoken(w, "assistant") # {}
    <3>1. CASE w \in Refusals
      BY <3>1 DEF ChatAssumption, Answers
    <3>2. CASE w \in Asks /\ w = Current(Key[a]) /\ Question[w] = Question[a]
      <4>1. w # None /\ Key[a] \in Keys
        BY <3>2, KeyOfAsk DEF ChatAssumption
      <4>2. records[Key[a]] = w
        BY <3>2, <4>1 DEF Current
      <4> QED
        BY <3>2, <4>1, <4>2 DEF Inv, RecordsInv, Answers
    <3> QED
      BY <1>4, <3>1, <3>2 DEF Response
  <2>3. ToldTyped'
    BY <1>1, <1>4, <2>2 DEF ToldTyped
  <2>4. RecordedInv'
    BY <1>1, <2>1, <2>2 DEF Inv, RecordedInv
  <2>5. AnswersAreStored'
    BY <1>1, <1>2, <2>1, <2>2 DEF Inv, AnswersAreStored
  <2>6. ASSUME open PROVE SameAnswer'
    BY <1>1, <2>4, <2>6 DEF RecordedInv, SameAnswer
  <2>7. ASSUME ~open PROVE SameAnswer'
    BY <1>1, <2>1, <2>2, <2>7 DEF Inv, SameAnswer
  <2> QED
    BY <2>3, <2>4, <2>5, <2>6, <2>7
<1> QED
  BY <1>3, <1>4

LEMMA TalksInv ==
  ASSUME ChatAssumption, Inv, NEW a \in Asks, Talks(a)
  PROVE  Inv'
<1>1. stored' = stored /\ lock' = lock /\ places' = places
  BY DEF Talks, stored
<1>2. PhaseTyped /\ PlacesTyped /\ a \in Clients /\ LockTyped
  BY TypeOKParts, KeyOfAsk DEF Inv
<1>3. /\ PhaseTyped'
      /\ \A c \in Clients : c # a => phase'[c] = phase[c]
      /\ \/ phase'[a] = phase[a]
         \/ /\ phase[a] \notin {"asked", "answered", "done"}
            /\ phase'[a] \notin {"asked", "answered"}
  BY <1>2 DEF Talks, PhaseTyped, Phases
<1>4. ToldTyped' /\ RecordedInv' /\ AnswersAreStored' /\ SameAnswer'
  BY <1>1, ToldKept DEF Talks
<1>5. TypeOK' /\ RecordsInv' /\ CountInv' /\ TurnsDoNotInterleave'
  BY <1>1, <1>2, <1>3, <1>4, StoredKept DEF PlacesTyped
<1>6. LockInv'
  <2>1. \A c \in Asks : phase'[c] \in {"asked", "answered"} <=> phase[c] \in {"asked", "answered"}
    BY <1>3, KeyOfAsk
  <2>2. \A k : Current(k)' = Current(k)
    BY <1>1 DEF Current, stored
  <2>3. open' = open
    BY <1>1 DEF stored
  <2> QED
    BY <1>1, <1>2, <2>1, <2>2, <2>3 DEF Inv, LockInv, LockTyped
<1>7. PlacesInv'
  BY <1>1, <1>3, KeyOfAsk DEF Inv, PlacesInv, stored
<1>8. MessagesInv'
  BY <1>1, <1>3, KeyOfAsk DEF Inv, MessagesInv, stored
<1> QED
  BY <1>4, <1>5, <1>6, <1>7, <1>8 DEF Inv

LEMMA RollBackInv ==
  ASSUME ChatAssumption, Inv, NEW a \in Asks, RollBack(a)
  PROVE  Inv'
<1>1. stored' = stored /\ places' = places /\ phase[a] \in {"committing", "asked", "answered"}
      /\ lock' = IF lock = a THEN None ELSE lock
  BY DEF RollBack, stored
<1>2. PhaseTyped /\ PlacesTyped /\ a \in Clients /\ LockTyped /\ a # None
  BY TypeOKParts, KeyOfAsk DEF Inv, ChatAssumption
<1>3. Response(a, "error")
  BY DEF Response, Refusals
<1>4. /\ PhaseTyped'
      /\ \A c \in Clients : c # a => phase'[c] = phase[c]
      /\ phase'[a] = "done"
  BY <1>2, <1>3, ReplySays DEF RollBack, PhaseTyped, Phases
<1>5. ToldTyped' /\ RecordedInv' /\ AnswersAreStored' /\ SameAnswer'
  BY <1>1, <1>3, ReplySays, ToldKept DEF RollBack
<1>6. StoredTyped' /\ LockTyped'
  BY <1>1, <1>2, TypeOKParts DEF Inv, StoredTyped, LockTyped, stored
<1>7. TypeOK'
  BY <1>2, <1>1, <1>4, <1>5, <1>6
     DEF TypeOK, StoredTyped, LockTyped, PhaseTyped, PlacesTyped, ToldTyped, Phases
<1>8. /\ \A c, role : Spoken(c, role)' = Spoken(c, role)
      /\ \A k : Current(k)' = Current(k)
      /\ UNCHANGED <<open, messages, order, records, lapsed, expiries>>
  BY <1>1 DEF Spoken, Current, stored
<1>9. StoredTurns' = StoredTurns /\ \A k : TurnsOf(k)' = TurnsOf(k)
  BY <1>8 DEF StoredTurns, TurnsOf
<1>10. RecordsInv' /\ CountInv' /\ TurnsDoNotInterleave'
  BY <1>8, <1>9 DEF Inv, RecordsInv, CountInv, TurnsDoNotInterleave
<1>11. LockInv'
  BY <1>1, <1>2, <1>4, <1>8, KeyOfAsk DEF Inv, LockInv, LockTyped
<1>12. PlacesInv'
  BY <1>1, <1>4, <1>8, KeyOfAsk DEF Inv, PlacesInv
<1>13. MessagesInv'
  BY <1>1, <1>2, <1>4, <1>8, KeyOfAsk DEF Inv, MessagesInv
<1> QED
  BY <1>5, <1>7, <1>10, <1>11, <1>12, <1>13 DEF Inv

\* A step that takes a place in the session's order.
LEMMA NumberKept ==
  ASSUME Inv, UNCHANGED <<open, messages, records, lapsed, expiries, told>>, order' = order + 1
  PROVE  /\ StoredTyped' /\ ToldTyped'
         /\ RecordsInv' /\ CountInv' /\ RecordedInv'
         /\ AnswersAreStored' /\ SameAnswer' /\ TurnsDoNotInterleave'
         /\ \A k : Current(k)' = Current(k)
<1>1. StoredTyped' /\ ToldTyped'
  BY TypeOKParts DEF Inv, StoredTyped, ToldTyped
<1>2. /\ \A c, role : Spoken(c, role)' = Spoken(c, role)
      /\ \A k : Current(k)' = Current(k)
  BY DEF Spoken, Current
<1>3. StoredTurns' = StoredTurns /\ \A k : TurnsOf(k)' = TurnsOf(k)
  BY <1>2 DEF StoredTurns, TurnsOf
<1>4. RecordsInv' /\ CountInv' /\ TurnsDoNotInterleave'
  BY <1>2, <1>3 DEF Inv, RecordsInv, CountInv, TurnsDoNotInterleave
<1>5. RecordedInv' /\ AnswersAreStored' /\ SameAnswer'
  BY <1>2 DEF Inv, RecordedInv, AnswersAreStored, SameAnswer
<1> QED
  BY <1>1, <1>2, <1>4, <1>5

\* The types of a state, from those of its parts.
LEMMA TypeOKPrimed ==
  ASSUME StoredTyped', LockTyped', PhaseTyped', PlacesTyped', ToldTyped'
  PROVE  TypeOK'
BY DEF TypeOK, StoredTyped, LockTyped, PhaseTyped, PlacesTyped, ToldTyped, Phases

LEMMA BeginInv ==
  ASSUME ChatAssumption, Inv, NEW a \in Asks, Begin(a)
  PROVE  Inv'
<1>1. /\ phase[a] = "committing" /\ open /\ Current(Key[a]) = None
      /\ lock = None /\ lock' = a
      /\ phase' = [phase EXCEPT ![a] = "asked"]
      /\ places' = [places EXCEPT ![a] = {order}]
      /\ order' = order + 1
      /\ UNCHANGED <<open, messages, records, lapsed, expiries, told>>
  BY DEF Begin, LockSession, Proceed
<1>2. PhaseTyped /\ PlacesTyped /\ StoredTyped /\ a \in Clients /\ a # None
  BY TypeOKParts, KeyOfAsk DEF Inv, ChatAssumption
<1>3. /\ PhaseTyped'
      /\ \A c \in Clients : c # a => phase'[c] = phase[c]
      /\ phase'[a] = "asked"
  BY <1>1, <1>2 DEF PhaseTyped, Phases
<1>4. /\ PlacesTyped'
      /\ \A c \in Clients : c # a => places'[c] = places[c]
      /\ places'[a] = {order}
      /\ order \in Nat
  BY <1>1, <1>2 DEF PlacesTyped, StoredTyped
<1>5. /\ StoredTyped' /\ ToldTyped'
      /\ RecordsInv' /\ CountInv' /\ RecordedInv'
      /\ AnswersAreStored' /\ SameAnswer' /\ TurnsDoNotInterleave'
      /\ \A k : Current(k)' = Current(k)
  BY <1>1, NumberKept
<1>6. TypeOK'
  BY <1>1, <1>3, <1>4, <1>5, TypeOKPrimed DEF LockTyped
<1>7. LockInv'
  <2>1. \A c \in Asks : phase[c] \notin {"asked", "answered"}
    BY <1>1 DEF Inv, LockInv, ChatAssumption
  <2> QED
    BY <1>1, <1>2, <1>3, <1>5, <2>1, KeyOfAsk DEF LockInv
<1>8. PlacesInv'
  <2>1. \A c \in Clients : \A p \in places[c] : p \in Nat /\ p < order
    BY <1>2 DEF Inv, PlacesInv, PlacesTyped
  <2>2. \A c \in Clients : \A p \in places'[c] : p < order'
    BY <1>1, <1>4, <2>1
  <2> QED
    BY <1>3, <1>4, <2>2, KeyOfAsk DEF Inv, PlacesInv
<1>9. MessagesInv'
  <2>1. \A m \in messages : m.at \in Nat /\ m.at < order
    BY <1>2 DEF Inv, MessagesInv, StoredTyped, Message
  <2>2. \A m \in messages : m.at < order'
    BY <1>1, <1>4, <2>1
  <2>3. \A m \in messages : \A p \in places'[a] : m.at < p
    BY <1>4, <2>1
  <2>4. \A m \in messages : m.role # "note" => m.by \in Asks /\ phase'[m.by] = "done"
    BY <1>1, <1>3, KeyOfAsk DEF Inv, MessagesInv
  <2> QED
    BY <1>1, <2>2, <2>3, <2>4 DEF MessagesInv
<1> QED
  BY <1>5, <1>6, <1>7, <1>8, <1>9 DEF Inv

LEMMA AnswerInv ==
  ASSUME ChatAssumption, Inv, NEW a \in Asks, Answer(a)
  PROVE  Inv'
<1>1. /\ phase[a] = "asked" /\ lock' = lock
      /\ phase' = [phase EXCEPT ![a] = "answered"]
      /\ places' = [places EXCEPT ![a] = @ \union {order}]
      /\ order' = order + 1
      /\ UNCHANGED <<open, messages, records, lapsed, expiries, told>>
  BY DEF Answer, Proceed
<1>2. PhaseTyped /\ PlacesTyped /\ StoredTyped /\ LockTyped /\ a \in Clients /\ lock = a
  BY <1>1, TypeOKParts, KeyOfAsk DEF Inv, LockInv
<1>3. /\ PhaseTyped'
      /\ \A c \in Clients : c # a => phase'[c] = phase[c]
      /\ phase'[a] = "answered"
  BY <1>1, <1>2 DEF PhaseTyped, Phases
<1>4. /\ PlacesTyped'
      /\ \A c \in Clients : c # a => places'[c] = places[c]
      /\ places'[a] = places[a] \union {order}
      /\ order \in Nat
  BY <1>1, <1>2 DEF PlacesTyped, StoredTyped
<1>5. /\ StoredTyped' /\ ToldTyped'
      /\ RecordsInv' /\ CountInv' /\ RecordedInv'
      /\ AnswersAreStored' /\ SameAnswer' /\ TurnsDoNotInterleave'
      /\ \A k : Current(k)' = Current(k)
  BY <1>1, NumberKept
<1>6. TypeOK'
  BY <1>1, <1>2, <1>3, <1>4, <1>5, TypeOKPrimed DEF LockTyped
<1>7. LockInv'
  BY <1>1, <1>2, <1>3, <1>5, KeyOfAsk DEF Inv, LockInv
<1>8. PlacesInv'
  <2>1. \A c \in Clients : \A p \in places[c] : p \in Nat /\ p < order
    BY <1>2 DEF Inv, PlacesInv, PlacesTyped
  <2>2. \A c \in Clients : \A p \in places'[c] : p < order'
    BY <1>1, <1>4, <2>1
  <2>3. PICK p \in places[a] : places[a] = {p}
    BY <1>1 DEF Inv, PlacesInv
  <2>4. p < order /\ p \in places'[a] /\ order \in places'[a] /\ places'[a] = {p, order}
    BY <1>2, <1>4, <2>1, <2>3
  <2>5. \E x, y \in places'[a] : x < y /\ places'[a] = {x, y}
    BY <2>4
  <2> QED
    BY <1>3, <1>4, <2>2, <2>5, KeyOfAsk DEF Inv, PlacesInv
<1>9. MessagesInv'
  <2>1. \A m \in messages : m.at \in Nat /\ m.at < order
    BY <1>2 DEF Inv, MessagesInv, StoredTyped, Message
  <2>2. \A m \in messages : m.at < order'
    BY <1>1, <1>4, <2>1
  <2>3. \A m \in messages : m.role # "note" => \A p \in places'[a] : m.at < p
    BY <1>2, <1>4, <2>1 DEF Inv, MessagesInv, ChatAssumption
  <2>4. \A m \in messages : m.role # "note" => m.by \in Asks /\ phase'[m.by] = "done"
    BY <1>1, <1>3, KeyOfAsk DEF Inv, MessagesInv
  <2> QED
    BY <1>1, <1>2, <2>2, <2>3, <2>4 DEF MessagesInv
<1> QED
  BY <1>5, <1>6, <1>7, <1>8, <1>9 DEF Inv

LEMMA PostInv ==
  ASSUME ChatAssumption, Inv, NEW n \in Notes, Post(n)
  PROVE  Inv'
<1>1. /\ lock' = lock
      /\ phase' = [phase EXCEPT ![n] = "numbered"]
      /\ places' = [places EXCEPT ![n] = {order}]
      /\ order' = order + 1
      /\ UNCHANGED <<open, messages, records, lapsed, expiries, told>>
  BY DEF Post, Proceed
<1>2. /\ PhaseTyped /\ PlacesTyped /\ StoredTyped /\ LockTyped /\ n \in Clients
      /\ \A a \in Asks : a # n /\ a \in Clients
  BY <1>1, TypeOKParts DEF Inv, Clients, ChatAssumption
<1>3. /\ PhaseTyped'
      /\ \A c \in Clients : c # n => phase'[c] = phase[c]
  BY <1>1, <1>2 DEF PhaseTyped, Phases
<1>4. /\ PlacesTyped'
      /\ \A c \in Clients : c # n => places'[c] = places[c]
      /\ places'[n] = {order}
      /\ order \in Nat
  BY <1>1, <1>2 DEF PlacesTyped, StoredTyped
<1>5. /\ StoredTyped' /\ ToldTyped'
      /\ RecordsInv' /\ CountInv' /\ RecordedInv'
      /\ AnswersAreStored' /\ SameAnswer' /\ TurnsDoNotInterleave'
      /\ \A k : Current(k)' = Current(k)
  BY <1>1, NumberKept
<1>6. TypeOK'
  BY <1>1, <1>2, <1>3, <1>4, <1>5, TypeOKPrimed DEF LockTyped
<1>7. LockInv'
  BY <1>1, <1>2, <1>3, <1>5 DEF Inv, LockInv, LockTyped
<1>8. PlacesInv'
  <2>1. \A c \in Clients : \A p \in places[c] : p \in Nat /\ p < order
    BY <1>2 DEF Inv, PlacesInv, PlacesTyped
  <2>2. \A c \in Clients : \A p \in places'[c] : p < order'
    BY <1>1, <1>4, <2>1
  <2> QED
    BY <1>2, <1>3, <1>4, <2>2 DEF Inv, PlacesInv
<1>9. MessagesInv'
  <2>1. \A m \in messages : m.at \in Nat /\ m.at < order
    BY <1>2 DEF Inv, MessagesInv, StoredTyped, Message
  <2>2. \A m \in messages : m.at < order'
    BY <1>1, <1>4, <2>1
  <2>3. lock # None => places'[lock] = places[lock]
    BY <1>2, <1>4 DEF LockTyped
  <2>4. \A m \in messages : m.role # "note" => m.by \in Asks /\ phase'[m.by] = "done"
    BY <1>2, <1>3 DEF Inv, MessagesInv
  <2> QED
    BY <1>1, <2>2, <2>3, <2>4 DEF Inv, MessagesInv
<1> QED
  BY <1>5, <1>6, <1>7, <1>8, <1>9 DEF Inv

LEMMA StoreNoteInv ==
  ASSUME ChatAssumption, Inv, NEW n \in Notes, StoreNote(n)
  PROVE  Inv'
<1>1. /\ lock = None /\ lock' = None
      /\ phase[n] = "numbered" /\ phase' = [phase EXCEPT ![n] = "done"]
      /\ messages' = IF open
                     THEN messages \union {[by |-> n, role |-> "note", at |-> p] : p \in places[n]}
                     ELSE messages
      /\ UNCHANGED <<open, order, records, lapsed, expiries, places, told>>
  BY DEF StoreNote, Proceed
<1>2. /\ PhaseTyped /\ PlacesTyped /\ StoredTyped /\ ToldTyped /\ n \in Clients
      /\ \A a \in Asks : a # n /\ a \in Clients
  BY <1>1, TypeOKParts DEF Inv, Clients, ChatAssumption
<1>3. /\ PhaseTyped'
      /\ \A c \in Clients : c # n => phase'[c] = phase[c]
  BY <1>1, <1>2 DEF PhaseTyped, Phases
<1>4. \A p \in places[n] : p \in Nat /\ p < order
  BY <1>2 DEF Inv, PlacesInv, PlacesTyped
<1>5. /\ messages \subseteq messages'
      /\ \A m \in messages' : m \in messages \/ (m \in Message /\ m.role = "note" /\ m.at < order)
  BY <1>1, <1>2, <1>4 DEF Message
<1>6. messages' \subseteq Message
  BY <1>2, <1>5 DEF StoredTyped
<1>7. TypeOK'
  <2>1. StoredTyped' /\ LockTyped' /\ PlacesTyped' /\ ToldTyped'
    BY <1>1, <1>2, <1>6 DEF StoredTyped, LockTyped, PlacesTyped, ToldTyped
  <2> QED
    BY <1>3, <2>1, TypeOKPrimed
<1>8. /\ \A a : Spoken(a, "user")' = Spoken(a, "user")
      /\ \A a : Spoken(a, "assistant")' = Spoken(a, "assistant")
      /\ \A k : Current(k)' = Current(k)
  BY <1>1, <1>5 DEF Spoken, Current
<1>9. StoredTurns' = StoredTurns /\ \A k : TurnsOf(k)' = TurnsOf(k)
  BY <1>8 DEF StoredTurns, TurnsOf
<1>10. RecordsInv' /\ CountInv' /\ TurnsDoNotInterleave'
  BY <1>1, <1>8, <1>9 DEF Inv, RecordsInv, CountInv, TurnsDoNotInterleave
<1>11. RecordedInv' /\ AnswersAreStored' /\ SameAnswer'
  BY <1>1, <1>8 DEF Inv, RecordedInv, AnswersAreStored, SameAnswer
<1>12. LockInv' /\ PlacesInv'
  BY <1>1, <1>2, <1>3 DEF Inv, LockInv, PlacesInv
<1>13. MessagesInv'
  BY <1>1, <1>2, <1>3, <1>5 DEF Inv, MessagesInv
<1> QED
  BY <1>7, <1>10, <1>11, <1>12, <1>13 DEF Inv

LEMMA DeleteInv ==
  ASSUME ChatAssumption, Inv, Delete
  PROVE  Inv'
<1>1. /\ lock = None /\ lock' = None /\ open' = FALSE /\ messages' = {} /\ lapsed' = {}
      /\ records' = [k \in Keys |-> None]
      /\ UNCHANGED <<order, expiries, phase, places, told>>
  BY DEF Delete
<1>2. StoredTyped /\ PhaseTyped /\ PlacesTyped /\ ToldTyped
  BY TypeOKParts DEF Inv
<1>3. TypeOK'
  <2>1. StoredTyped' /\ LockTyped' /\ PhaseTyped' /\ PlacesTyped' /\ ToldTyped'
    BY <1>1, <1>2 DEF StoredTyped, LockTyped, PhaseTyped, PlacesTyped, ToldTyped
  <2> QED
    BY <2>1, TypeOKPrimed
<1>4. StoredTurns' = {} /\ \A k : TurnsOf(k)' = {}
  BY <1>1 DEF StoredTurns, Spoken, TurnsOf
<1>5. CountInv'
  <2>1. \A k \in Keys : Cardinality({}) <= expiries[k] + 0
    BY <1>2, FS_EmptySet DEF StoredTyped, ChatAssumption
  <2>2. \A k \in Keys : Current(k)' = None
    BY <1>1 DEF Current
  <2> QED
    BY <1>1, <1>4, <2>1, <2>2, FS_EmptySet DEF CountInv
<1>6. TurnsDoNotInterleave'
  BY <1>4 DEF TurnsDoNotInterleave
<1>7. RecordsInv' /\ RecordedInv' /\ AnswersAreStored' /\ SameAnswer' /\ MessagesInv'
  BY <1>1 DEF Inv, RecordsInv, RecordedInv, AnswersAreStored, SameAnswer, MessagesInv
<1>8. LockInv' /\ PlacesInv'
  BY <1>1 DEF Inv, LockInv, PlacesInv
<1> QED
  BY <1>3, <1>5, <1>6, <1>7, <1>8 DEF Inv

LEMMA LapseInv ==
  ASSUME ChatAssumption, Inv, NEW k \in Keys, Lapse(k)
  PROVE  Inv'
<1>1. /\ records[k] # None /\ k \notin lapsed /\ expiries[k] < MaxExpiries
      /\ lapsed' = lapsed \union {k}
      /\ expiries' = [expiries EXCEPT ![k] = @ + 1]
      /\ UNCHANGED <<open, messages, order, records, lock, phase, places, told>>
  BY DEF Lapse
<1>2. StoredTyped /\ PhaseTyped /\ PlacesTyped /\ ToldTyped /\ LockTyped
  BY TypeOKParts DEF Inv
<1>3. /\ expiries[k] \in Nat /\ expiries'[k] = expiries[k] + 1
      /\ \A j \in Keys : j # k => expiries'[j] = expiries[j]
      /\ expiries' \in [Keys -> 0..MaxExpiries]
  BY <1>1, <1>2 DEF StoredTyped, ChatAssumption
<1>4. TypeOK'
  <2>1. StoredTyped' /\ LockTyped' /\ PhaseTyped' /\ PlacesTyped' /\ ToldTyped'
    BY <1>1, <1>2, <1>3 DEF StoredTyped, LockTyped, PhaseTyped, PlacesTyped, ToldTyped
  <2> QED
    BY <2>1, TypeOKPrimed
<1>5. /\ \A a, role : Spoken(a, role)' = Spoken(a, role)
      /\ Current(k) # None /\ Current(k)' = None
      /\ \A j : j # k => Current(j)' = Current(j)
  BY <1>1 DEF Spoken, Current
<1>6. StoredTurns' = StoredTurns /\ \A j : TurnsOf(j)' = TurnsOf(j)
  BY <1>5 DEF StoredTurns, TurnsOf
<1>7. CountInv'
  <2>1. ASSUME NEW j \in Keys
        PROVE  /\ IsFiniteSet(TurnsOf(j)')
               /\ Cardinality(TurnsOf(j)') <= expiries'[j] + (IF Current(j)' = None THEN 0 ELSE 1)
    <3>1. /\ IsFiniteSet(TurnsOf(j)) /\ Cardinality(TurnsOf(j)) \in Nat
          /\ Cardinality(TurnsOf(j)) <= expiries[j] + (IF Current(j) = None THEN 0 ELSE 1)
      BY FS_CardinalityType DEF Inv, CountInv
    <3>2. CASE j = k
      BY <1>3, <1>5, <1>6, <3>1, <3>2
    <3>3. CASE j # k
      BY <1>3, <1>5, <1>6, <3>1, <3>3
    <3> QED
      BY <3>2, <3>3
  <2> QED
    BY <2>1 DEF CountInv
<1>8. RecordsInv'
  BY <1>1, <1>3, <1>5 DEF Inv, RecordsInv
<1>9. \A j \in Keys : expiries'[j] = 0 => expiries[j] = 0
  BY <1>3
<1>10. RecordedInv' /\ AnswersAreStored' /\ SameAnswer'
  BY <1>1, <1>5, <1>9, KeyOfAsk DEF Inv, RecordedInv, AnswersAreStored, SameAnswer
<1>11. TurnsDoNotInterleave'
  BY <1>5, <1>6 DEF Inv, TurnsDoNotInterleave
<1>12. LockInv'
  BY <1>1, <1>5 DEF Inv, LockInv
<1>13. PlacesInv' /\ MessagesInv'
  BY <1>1 DEF Inv, PlacesInv, MessagesInv
<1> QED
  BY <1>4, <1>7, <1>8, <1>10, <1>11, <1>12, <1>13 DEF Inv

LEMMA CleanUpInv ==
  ASSUME ChatAssumption, Inv, CleanUp
  PROVE  Inv'
<1>1. /\ lapsed' = {} /\ records' = [k \in Keys |-> Current(k)]
      /\ UNCHANGED <<open, messages, order, expiries, lock, phase, places, told>>
  BY DEF CleanUp
<1>2. StoredTyped /\ PhaseTyped /\ PlacesTyped /\ ToldTyped /\ LockTyped
  BY TypeOKParts DEF Inv
<1>3. TypeOK'
  <2>1. StoredTyped'
    BY <1>1, <1>2 DEF StoredTyped, Current
  <2>2. LockTyped' /\ PhaseTyped' /\ PlacesTyped' /\ ToldTyped'
    BY <1>1, <1>2 DEF LockTyped, PhaseTyped, PlacesTyped, ToldTyped
  <2> QED
    BY <2>1, <2>2, TypeOKPrimed
<1>4. /\ \A a, role : Spoken(a, role)' = Spoken(a, role)
      /\ \A k \in Keys : Current(k)' = Current(k)
      /\ \A k \in Keys : records'[k] = None \/ records'[k] = records[k]
  BY <1>1 DEF Spoken, Current
<1>5. StoredTurns' = StoredTurns /\ \A k : TurnsOf(k)' = TurnsOf(k)
  BY <1>4 DEF StoredTurns, TurnsOf
<1>6. CountInv' /\ TurnsDoNotInterleave'
  BY <1>1, <1>4, <1>5 DEF Inv, CountInv, TurnsDoNotInterleave
<1>7. RecordsInv'
  BY <1>1, <1>4 DEF Inv, RecordsInv
<1>8. \A k \in Keys : expiries[k] = 0 => records'[k] = records[k]
  BY <1>1 DEF Inv, RecordsInv, Current
<1>9. RecordedInv' /\ AnswersAreStored' /\ SameAnswer'
  BY <1>1, <1>4, <1>8, KeyOfAsk DEF Inv, RecordedInv, AnswersAreStored, SameAnswer
<1>10. LockInv'
  BY <1>1, <1>2, <1>4, KeyOfAsk DEF Inv, LockInv, LockTyped
<1>11. PlacesInv' /\ MessagesInv'
  BY <1>1 DEF Inv, PlacesInv, MessagesInv
<1> QED
  BY <1>3, <1>6, <1>7, <1>9, <1>10, <1>11 DEF Inv

\* The messages of an answered turn are its question and, after it, its answer.
LEMMA TurnOfTwo ==
  ASSUME Inv, NEW a \in Asks, phase[a] = "answered"
  PROVE  \E p, q \in places[a] :
           /\ p \in Nat /\ q \in Nat /\ p < q /\ q < order
           /\ places[a] = {p, q}
           /\ Turn(a) = {[by |-> a, role |-> "user", at |-> p], [by |-> a, role |-> "assistant", at |-> q]}
<1>1. PICK p, q \in places[a] : p < q /\ places[a] = {p, q}
  BY DEF Inv, PlacesInv
<1>2. p \in Nat /\ q \in Nat /\ q < order
  BY <1>1, TypeOKParts, KeyOfAsk DEF Inv, PlacesInv, PlacesTyped
<1>3. /\ {x \in places[a] : \A y \in places[a] : x <= y} = {p}
      /\ {x \in places[a] : \A y \in places[a] : x >= y} = {q}
  BY <1>1, <1>2
<1>4. Turn(a) = {[by |-> a, role |-> "user", at |-> p], [by |-> a, role |-> "assistant", at |-> q]}
  BY <1>3 DEF Turn
<1> QED
  BY <1>1, <1>2, <1>4

LEMMA CommitInv ==
  ASSUME ChatAssumption, Inv, NEW a \in Asks, Commit(a)
  PROVE  Inv'
<1>1. /\ phase[a] = "answered" /\ lock' = None
      /\ phase' = [phase EXCEPT ![a] = "done"]
      /\ messages' = messages \union Turn(a)
      /\ records' = [records EXCEPT ![Key[a]] = a]
      /\ lapsed' = lapsed \ {Key[a]}
      /\ UNCHANGED <<open, order, expiries, places>>
  BY DEF Commit, Reply
<1>2. \/ told' = told
      \/ told[a] = None /\ \E heard \in {a, "error"} : told' = [told EXCEPT ![a] = heard]
  BY DEF Commit, Reply
<1>3. /\ PhaseTyped /\ PlacesTyped /\ StoredTyped /\ ToldTyped
      /\ a \in Clients /\ a # None /\ Key[a] \in Keys
      /\ lock = a /\ open /\ Current(Key[a]) = None
  BY <1>1, TypeOKParts, KeyOfAsk DEF Inv, ChatAssumption, LockInv
<1>4. PICK p, q \in places[a] :
           /\ p \in Nat /\ q \in Nat /\ p < q /\ q < order
           /\ places[a] = {p, q}
           /\ Turn(a) = {[by |-> a, role |-> "user", at |-> p], [by |-> a, role |-> "assistant", at |-> q]}
  BY <1>1, TurnOfTwo
<1> DEFINE u == [by |-> a, role |-> "user", at |-> p]
           v == [by |-> a, role |-> "assistant", at |-> q]
<1>5. /\ u \in Message /\ v \in Message
      /\ u.by = a /\ u.role = "user" /\ u.at = p
      /\ v.by = a /\ v.role = "assistant" /\ v.at = q
  BY <1>3, <1>4 DEF Message
<1>6. messages' = messages \union {u, v}
  BY <1>1, <1>4
<1> HIDE DEF u, v
<1>7. \A m \in messages : m.role # "note" => m.by \in Asks \ {a} /\ m.at < p
  BY <1>1, <1>3, <1>4 DEF Inv, MessagesInv
<1>8. /\ Spoken(a, "user")' = {u} /\ Spoken(a, "assistant")' = {v}
      /\ Spoken(a, "user") = {} /\ Spoken(a, "assistant") = {}
  BY <1>5, <1>6, <1>7 DEF Spoken
<1>9. \A b : b # a => /\ Spoken(b, "user")' = Spoken(b, "user")
                      /\ Spoken(b, "assistant")' = Spoken(b, "assistant")
  BY <1>5, <1>6, <1>7 DEF Spoken
<1>10. StoredTurns' = StoredTurns \union {a} /\ a \notin StoredTurns
  BY <1>8, <1>9 DEF StoredTurns
<1>11. /\ PhaseTyped'
       /\ \A c \in Clients : c # a => phase'[c] = phase[c]
       /\ phase'[a] = "done"
  BY <1>1, <1>3 DEF PhaseTyped, Phases
<1>12. /\ records' \in [Keys -> Asks \union {None}]
       /\ records'[Key[a]] = a
       /\ \A k \in Keys : k # Key[a] => records'[k] = records[k]
  BY <1>1, <1>3 DEF StoredTyped
<1>13. /\ ToldTyped'
       /\ \A b \in Asks : b # a => told'[b] = told[b]
       /\ told'[a] = told[a] \/ told'[a] \in {a, "error"}
  <2>1. "error" \in Refusals
    BY DEF Refusals
  <2> QED
    BY <1>2, <1>3, <2>1 DEF ToldTyped, Answers
<1>14. TypeOK'
  <2>1. lapsed \subseteq {k \in Keys : records[k] # None} /\ messages \subseteq Message
    BY <1>3 DEF StoredTyped
  <2>2. lapsed' \subseteq {k \in Keys : records'[k] # None}
    BY <1>1, <1>3, <1>12, <2>1
  <2>3. messages' \subseteq Message
    BY <1>5, <1>6, <2>1
  <2>4. StoredTyped'
    BY <1>1, <1>3, <1>12, <2>2, <2>3 DEF StoredTyped
  <2>5. LockTyped' /\ PlacesTyped'
    BY <1>1, <1>3 DEF LockTyped, PlacesTyped
  <2> QED
    BY <1>11, <1>13, <2>4, <2>5, TypeOKPrimed
<1>15. LockInv'
  <2>1. \A c \in Asks : phase'[c] \notin {"asked", "answered"}
    BY <1>3, <1>11, KeyOfAsk DEF Inv, LockInv
  <2> QED
    BY <1>1, <2>1 DEF LockInv
<1>16. PlacesInv'
  BY <1>1, <1>11, KeyOfAsk DEF Inv, PlacesInv
<1>17. MessagesInv'
  <2>1. \A m \in messages' : m.at < order'
    BY <1>1, <1>3, <1>4, <1>5, <1>6 DEF Inv, MessagesInv, StoredTyped
  <2>2. \A m \in messages' : m.role # "note" => m.by \in Asks /\ phase'[m.by] = "done"
    BY <1>5, <1>6, <1>11, KeyOfAsk DEF Inv, MessagesInv
  <2> QED
    BY <1>1, <2>1, <2>2 DEF MessagesInv
<1>18. RecordsInv'
  <2>1. \A k \in lapsed' : expiries'[k] > 0
    BY <1>1 DEF Inv, RecordsInv
  <2>2. ASSUME NEW k \in Keys, NEW r, r = records'[k], r # None
        PROVE  /\ open' /\ Key[r] = k
               /\ Spoken(r, "user")' # {} /\ Spoken(r, "assistant")' # {}
    <3>1. CASE k = Key[a]
      BY <1>1, <1>3, <1>8, <1>12, <2>2, <3>1
    <3>2. CASE k # Key[a]
      <4>1. /\ Key[r] = k
            /\ Spoken(r, "user") # {} /\ Spoken(r, "assistant") # {}
        BY <1>12, <2>2, <3>2 DEF Inv, RecordsInv
      <4> QED
        BY <1>1, <1>3, <1>9, <3>2, <4>1
    <3> QED
      BY <3>1, <3>2
  <2> QED
    BY <2>1, <2>2 DEF RecordsInv
<1>19. CountInv'
  <2>1. ASSUME NEW k \in Keys
        PROVE  /\ IsFiniteSet(TurnsOf(k)')
               /\ Cardinality(TurnsOf(k)') <= expiries'[k] + (IF Current(k)' = None THEN 0 ELSE 1)
    <3>1. /\ IsFiniteSet(TurnsOf(k)) /\ Cardinality(TurnsOf(k)) \in Nat
          /\ Cardinality(TurnsOf(k)) <= expiries[k] + (IF Current(k) = None THEN 0 ELSE 1)
          /\ expiries[k] \in Nat /\ expiries'[k] = expiries[k]
      BY <1>1, <1>3, FS_CardinalityType DEF Inv, CountInv, StoredTyped, ChatAssumption
    <3>2. CASE k = Key[a]
      <4>1. TurnsOf(k)' = TurnsOf(k) \union {a} /\ a \notin TurnsOf(k)
        BY <1>10, <3>2 DEF TurnsOf
      <4>2. Current(k)' # None
        BY <1>1, <1>3, <1>12, <3>2 DEF Current
      <4>3. IsFiniteSet(TurnsOf(k)') /\ Cardinality(TurnsOf(k)') = Cardinality(TurnsOf(k)) + 1
        BY <3>1, <4>1, FS_AddElement
      <4> QED
        BY <1>3, <3>1, <3>2, <4>2, <4>3
    <3>3. CASE k # Key[a]
      <4>1. TurnsOf(k)' = TurnsOf(k) /\ Current(k)' = Current(k)
        BY <1>1, <1>10, <1>12, <3>3 DEF TurnsOf, Current
      <4> QED
        BY <3>1, <4>1
    <3> QED
      BY <3>2, <3>3
  <2> QED
    BY <2>1 DEF CountInv
<1>20. RecordedInv'
  <2>1. ASSUME NEW b \in Asks, told'[b] \in Answers, expiries'[Key[b]] = 0
        PROVE  records'[Key[b]] = told'[b]
    <3>1. Key[b] \in Keys /\ expiries[Key[b]] = 0 /\ None \notin Answers /\ "error" \notin Answers
      BY <1>1, <2>1, KeyOfAsk DEF ChatAssumption, Answers, Refusals
    <3>2. CASE Key[b] = Key[a]
      <4>1. records[Key[b]] = None
        BY <1>3, <3>1, <3>2 DEF Inv, RecordsInv, Current
      <4>2. told[b] \notin Answers
        BY <1>3, <3>1, <4>1 DEF Inv, RecordedInv
      <4>3. b = a /\ told'[b] = a
        BY <1>13, <2>1, <3>1, <4>2
      <4> QED
        BY <1>12, <4>3
    <3>3. CASE Key[b] # Key[a]
      BY <1>3, <1>12, <1>13, <2>1, <3>1, <3>3 DEF Inv, RecordedInv
    <3> QED
      BY <3>2, <3>3
  <2> QED
    BY <2>1 DEF RecordedInv
<1>21. SameAnswer'
  BY <1>1, <1>3, <1>20 DEF RecordedInv, SameAnswer
<1>22. AnswersAreStored'
  <2>1. ASSUME NEW b \in Asks, NEW r \in Answers, r = told'[b]
        PROVE  /\ Key[r] = Key[b] /\ Question[r] = Question[b]
               /\ open' => Spoken(r, "user")' # {} /\ Spoken(r, "assistant")' # {}
    <3>1. "error" \notin Answers
      BY DEF ChatAssumption, Answers, Refusals
    <3>2. CASE r = told[b]
      <4>1. /\ Key[r] = Key[b] /\ Question[r] = Question[b]
            /\ Spoken(r, "user") # {} /\ Spoken(r, "assistant") # {}
        BY <1>3, <3>2 DEF Inv, AnswersAreStored
      <4> QED
        BY <1>8, <1>9, <4>1
    <3>3. CASE b = a /\ r = a
      BY <1>8, <3>3
    <3> QED
      BY <1>13, <2>1, <3>1, <3>2, <3>3
  <2> QED
    BY <2>1 DEF AnswersAreStored
<1>23. TurnsDoNotInterleave'
  <2> DEFINE Said(b) == Spoken(b, "user") \union Spoken(b, "assistant")
  <2>1. /\ Said(a)' = {u, v}
        /\ \A b : b # a => Said(b)' = Said(b)
    BY <1>8, <1>9
  <2> HIDE DEF Said
  <2>2. \A b : b # a => \A m \in Said(b) : m.at \in Nat /\ m.at < p
    BY <1>3, <1>7 DEF Said, Spoken, StoredTyped, Message
  <2>3. \A m \in {u, v} : m.at \in Nat /\ p <= m.at
    BY <1>4, <1>5
  <2>4. ASSUME NEW b \in StoredTurns', NEW c \in StoredTurns', b # c,
               NEW m \in Said(b)', NEW n \in Said(b)', NEW x \in Said(c)'
        PROVE  ~ (m.at < x.at /\ x.at < n.at)
    <3>1. CASE b = a
      BY <1>4, <2>1, <2>2, <2>3, <2>4, <3>1
    <3>2. CASE c = a
      BY <1>4, <2>1, <2>2, <2>3, <2>4, <3>2
    <3>3. CASE b # a /\ c # a
      BY <1>10, <2>1, <2>4, <3>3 DEF Said, Inv, TurnsDoNotInterleave
    <3> QED
      BY <3>1, <3>2, <3>3
  <2> QED
    BY <2>4 DEF Said, TurnsDoNotInterleave
<1> QED
  BY <1>14, <1>15, <1>16, <1>17, <1>18, <1>19, <1>20, <1>21, <1>22, <1>23 DEF Inv

LEMMA InvStep ==
  ASSUME ChatAssumption, Inv, [Next]_vars
  PROVE  Inv'
<1>1. ASSUME NEW a \in Asks,
             \/ Receive(a) \/ Lookup(a) \/ Generate(a) \/ Begin(a) \/ FindStored(a)
             \/ FindDeleted(a) \/ Answer(a) \/ Commit(a) \/ RollBack(a) \/ Expire(a)
      PROVE  Inv'
  <2>1. TypeOK
    BY DEF Inv
  <2> QED
    BY <1>1, <2>1, AsksTalk, TalksInv, BeginInv, AnswerInv, CommitInv, RollBackInv
<1>2. CASE \E n \in Notes : Post(n) \/ StoreNote(n)
  BY <1>2, PostInv, StoreNoteInv
<1>3. CASE Delete \/ CleanUp \/ \E k \in Keys : Lapse(k)
  BY <1>3, DeleteInv, CleanUpInv, LapseInv
<1>4. CASE UNCHANGED vars
  <2>1. /\ \A a, role : Spoken(a, role)' = Spoken(a, role)
        /\ \A k : Current(k)' = Current(k)
        /\ UNCHANGED <<open, messages, order, records, lapsed, expiries, lock, phase, places, told>>
    BY <1>4 DEF Spoken, Current, vars
  <2>2. StoredTurns' = StoredTurns /\ \A k : TurnsOf(k)' = TurnsOf(k)
    BY <2>1 DEF StoredTurns, TurnsOf
  <2>3. TypeOK' /\ LockInv' /\ PlacesInv' /\ MessagesInv'
    BY <2>1 DEF Inv, TypeOK, LockInv, PlacesInv, MessagesInv
  <2>4. RecordsInv' /\ CountInv' /\ TurnsDoNotInterleave'
    BY <2>1, <2>2 DEF Inv, RecordsInv, CountInv, TurnsDoNotInterleave
  <2>5. RecordedInv' /\ AnswersAreStored' /\ SameAnswer'
    BY <2>1 DEF Inv, RecordedInv, AnswersAreStored, SameAnswer
  <2> QED
    BY <2>3, <2>4, <2>5 DEF Inv
<1> QED
  BY <1>1, <1>2, <1>3, <1>4 DEF Next

LEMMA SpecInv == ASSUME ChatAssumption PROVE Spec => []Inv
<1>1. Init => Inv
  BY InitInv
<1>2. Inv /\ [Next]_vars => Inv'
  BY InvStep
<1> QED
  BY <1>1, <1>2, PTL DEF Spec

\* While the bound on expiries lasts a key has no more turns than records.
LEMMA CountBounds == ASSUME ChatAssumption, Inv PROVE StoredOncePerKey
<1>1. ASSUME NEW k \in Keys PROVE Cardinality(TurnsOf(k)) <= 1 + expiries[k]
  <2>1. Cardinality(TurnsOf(k)) \in Nat /\ expiries[k] \in Nat
    BY FS_CardinalityType DEF Inv, CountInv, TypeOK, ChatAssumption
  <2> QED
    BY <2>1 DEF Inv, CountInv
<1> QED
  BY <1>1 DEF StoredOncePerKey, TurnsOf

-----------------------------------------------------------------------------
(* The theorems.                                                            *)

\* The variables keep their types, whatever the order of the calls.
THEOREM TypeCorrect == ASSUME ChatAssumption PROVE Spec => []TypeOK
<1>1. Inv => TypeOK
  BY DEF Inv
<1> QED
  BY <1>1, SpecInv, PTL

\* A client's answer is that of a stored turn for its key and its question,
\* even when another server stored it or its own was cut off.
THEOREM AnswersStored == ASSUME ChatAssumption PROVE Spec => []AnswersAreStored
<1>1. Inv => AnswersAreStored
  BY DEF Inv
<1> QED
  BY <1>1, SpecInv, PTL

\* A turn is stored once for its key while the key's record is retained: the
\* look-up under the session's lock decides between asks that run at once.
THEOREM StoredOnce == ASSUME ChatAssumption PROVE Spec => []StoredOncePerKey
<1>1. Inv => StoredOncePerKey
  BY CountBounds
<1> QED
  BY <1>1, SpecInv, PTL

\* All clients of a retained record are told the same answer.
THEOREM AnswersSame == ASSUME ChatAssumption PROVE Spec => []SameAnswer
<1>1. Inv => SameAnswer
  BY DEF Inv
<1> QED
  BY <1>1, SpecInv, PTL

\* The messages of two turns never mix, since places are taken under the lock.
THEOREM TurnsApart == ASSUME ChatAssumption PROVE Spec => []TurnsDoNotInterleave
<1>1. Inv => TurnsDoNotInterleave
  BY DEF Inv
<1> QED
  BY <1>1, SpecInv, PTL
=============================================================================
