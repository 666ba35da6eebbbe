------------------------------ MODULE RateLimit ------------------------------
(***************************************************************************)
(* The distributed rate limiter: every request counts itself in the row of  *)
(* its bucket and identity, and in the same transaction removes rows of     *)
(* others whose window has ended.  Rows are locked until the transaction    *)
(* commits; the rows to remove are chosen on the snapshot of the statement  *)
(* and removed by their keys, as PostgreSQL does in READ COMMITTED: the     *)
(* condition on the window is not evaluated again on a row that changed.    *)
(***************************************************************************)
EXTENDS Naturals, FiniteSets, Relation

CONSTANTS
  Requests,
  Keys,      \* the hashed bucket and identity
  Limit,     \* maxRequests + burst
  Window,    \* windowMs
  Batch,     \* rows one request removes at most, 100 in the code
  MaxClock,  \* bounds: the clock, and the requests one client makes
  MaxTries,
  None

RateLimitAssumption ==
  /\ {Limit, Window, Batch} \subseteq Nat \ {0}
  /\ {MaxClock, MaxTries} \subseteq Nat
  /\ None \notin Requests
  /\ IsFiniteSet(Keys)  \* they are hashes

VARIABLES
  row,      \* the committed rows
  lock,     \* who has locked the row or is inserting it
  request,  \* the requests' transactions
  tries,
  passed,   \* requests let through in the row's present window
  clock

vars == <<row, lock, request, tries, passed, clock>>

Row == [count: Nat, reset: Nat]
NoRow == [count |-> 0, reset |-> 0]
Idle == [at |-> "idle", key |-> None, now |-> 0, new |-> NoRow, expired |-> {},
         next |-> None, locked |-> {}]

TypeOK ==
  /\ row \in [Keys -> Row]
  /\ lock \in [Keys -> Requests \union {None}]
  /\ \A r \in Requests :
       /\ request[r].at \in {"idle", "counting", "counted", "collecting"}
       /\ request[r].key \in Keys \union {None} /\ request[r].now \in 0..clock
       /\ {k \in Keys : lock[k] = r} =
            request[r].locked \union (IF request[r].at \in {"counted", "collecting"}
                                      THEN {request[r].key} ELSE {})
       /\ Cardinality(request[r].expired \union request[r].locked) <= Batch
  /\ tries \in [Requests -> 0..MaxTries]
  /\ passed \in [Keys -> Nat]
  /\ clock \in 0..MaxClock

Init ==
  /\ row = [k \in Keys |-> NoRow]
  /\ lock = [k \in Keys |-> None]
  /\ request = [r \in Requests |-> Idle]
  /\ tries = [r \in Requests |-> 0]
  /\ passed = [k \in Keys |-> 0]
  /\ clock = 0

\* The time is taken when the function is entered, before any lock.
Arrive(r) ==
  /\ request[r] = Idle /\ tries[r] < MaxTries
  /\ tries' = [tries EXCEPT ![r] = @ + 1]
  /\ \E k \in Keys :
       request' = [request EXCEPT ![r] = [Idle EXCEPT !.at = "counting", !.key = k, !.now = clock]]
  /\ UNCHANGED <<row, lock, passed, clock>>

Counted(old, now) ==
  IF old = NoRow \/ old.reset <= now
  THEN [count |-> 1, reset |-> now + Window]
  ELSE [old EXCEPT !.count = @ + 1]

\* The upsert waits for the row's lock and sees what was committed last.
\* mutant: it counts on the row it saw before it waits
CountUnlocked(r) ==
  /\ request[r].at = "counting"
  /\ request' = [request EXCEPT ![r].at = "counted",
                                ![r].new = Counted(row[request[r].key], request[r].now)]
  /\ lock' = [lock EXCEPT ![request[r].key] = IF @ = None THEN r ELSE @]
  /\ UNCHANGED <<row, tries, passed, clock>>
Count(r) ==
  /\ request[r].at = "counting"
  /\ LET k == request[r].key
     IN  /\ lock[k] = None
         /\ lock' = [lock EXCEPT ![k] = r]
         /\ request' = [request EXCEPT ![r].at = "counted",
                                       ![r].new = Counted(row[k], request[r].now)]
  /\ UNCHANGED <<row, tries, passed, clock>>

\* The rows are reached one after the other, in an order of the plan.
Nexts(keys) == IF keys = {} THEN {None} ELSE keys

\* The rows of others that have expired, those that expired first.
Choose(r) ==
  /\ request[r].at = "counted"
  /\ LET candidates == {k \in Keys \ {request[r].key} :
                          row[k] # NoRow /\ row[k].reset <= request[r].now}
     IN  \E chosen \in SUBSET candidates :
           /\ Cardinality(chosen) = Batch \/ (Cardinality(chosen) < Batch /\ chosen = candidates)
           /\ \A k \in chosen, l \in candidates \ chosen : row[k].reset <= row[l].reset
           /\ \E k \in Nexts(chosen) :
                request' = [request EXCEPT ![r].at = "collecting", ![r].expired = chosen, ![r].next = k]
  /\ UNCHANGED <<row, lock, tries, passed, clock>>

\* A row that was removed meanwhile is passed over.
Remove(r) ==
  /\ request[r].at = "collecting" /\ request[r].expired # {}
  /\ LET k == request[r].next
         rest == request[r].expired \ {k}
     IN  /\ lock[k] = None
         /\ lock' = IF row[k] = NoRow THEN lock ELSE [lock EXCEPT ![k] = r]
         /\ \E l \in Nexts(rest) :
              request' = [request EXCEPT ![r].expired = rest, ![r].next = l,
                            ![r].locked = IF row[k] = NoRow THEN @ ELSE @ \union {k}]
  /\ UNCHANGED <<row, tries, passed, clock>>

\* mutant: the rows that were removed stay locked
UnlockedKey(r) == [k \in Keys |-> IF k = request[r].key THEN None ELSE lock[k]]
Unlocked(r) == [k \in Keys |-> IF lock[k] = r THEN None ELSE lock[k]]

\* The request is let through, or answered with 429, by the count it got.
Commit(r) ==
  /\ request[r].at = "collecting" /\ request[r].expired = {}
  /\ LET key == request[r].key
         new == request[r].new
     IN  /\ row' = [k \in Keys |-> CASE k = key -> new
                                     [] k \in request[r].locked -> NoRow
                                     [] OTHER -> row[k]]
         /\ passed' = [k \in Keys |->
                         CASE k = key -> (IF row[k].reset = new.reset THEN passed[k] ELSE 0) +
                                         (IF new.count <= Limit THEN 1 ELSE 0)
                           [] k \in request[r].locked -> 0
                           [] OTHER -> passed[k]]
  /\ lock' = Unlocked(r)
  /\ request' = [request EXCEPT ![r] = Idle]
  /\ UNCHANGED <<tries, clock>>

\* The row a transaction wants; it waits for whoever has it locked.
Wanted(r) ==
  CASE request[r].at = "counting" -> request[r].key
    [] request[r].at = "collecting" -> request[r].next
    [] OTHER -> None
Waits == [r, s \in Requests |-> Wanted(r) # None /\ r # s /\ lock[Wanted(r)] = s]

Abort(r) ==
  /\ TransitiveClosure(Waits, Requests)[r, r]
  /\ lock' = Unlocked(r)
  /\ request' = [request EXCEPT ![r] = Idle]
  /\ UNCHANGED <<row, tries, passed, clock>>

Tick ==
  /\ clock < MaxClock
  /\ clock' = clock + 1
  /\ UNCHANGED <<row, lock, request, tries, passed>>

Works(r) == Count(r) \/ Choose(r) \/ Remove(r) \/ Commit(r) \/ Abort(r)
Next == (\E r \in Requests : Arrive(r) \/ Works(r)) \/ Tick

Spec == Init /\ [][Next]_vars

\* The database goes on with a transaction it can go on with.
LiveSpec == Spec /\ \A r \in Requests : WF_vars(Works(r))

-----------------------------------------------------------------------------
(* Properties *)

\* However the requests of one identity overlap, no more than the limit get
\* through in one window of its row.
LimitPerWindow == \A k \in Keys : passed[k] <= Limit

\* No count is lost: a row that changes within its window counts one more.
CountsEach ==
  \A k \in Keys :
    row[k] # NoRow /\ row'[k] # NoRow /\ row'[k] # row[k] /\ row'[k].reset = row[k].reset =>
      row'[k].count = row[k].count + 1

\* Requests that count themselves and collect each other's rows are answered,
\* with an error where they wait for each other.
Answered == \A r \in Requests : request[r] # Idle ~> request[r] = Idle
=============================================================================
