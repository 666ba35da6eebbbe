-------------------- MODULE RepositoryExecutionCoordinator --------------------
(***************************************************************************)
(* One coordinated execution, in the Postgres store.  Its identity is made *)
(* of the request, so every call with the same request works on the same   *)
(* row: a completed one is answered from the store, anything else is        *)
(* started over.  A call takes the stages in order and saves the whole      *)
(* record after each; a backend that starts recovers what it finds.         *)
(***************************************************************************)
EXTENDS Naturals, Sequences

CONSTANTS
  Callers,
  Stages,            \* the stages, in their order
  Internal,          \* those that call no other engine and cannot fall short
  MaxCalls, MaxRecoveries, MaxMoves, Collections   \* bounds: what happens no more

CoordinatorAssumption ==
  /\ Len(Stages) \in Nat \ {0} /\ Internal \subseteq {Stages[i] : i \in DOMAIN Stages}
  /\ {MaxCalls, MaxRecoveries, MaxMoves, Collections} \subseteq Nat

VARIABLES
  row,      \* the stored record; by: the call that started it
  current,  \* its revision is the repository's current and indexed one
  call,     \* what each caller is at, with its copy of the record
  calls, recoveries, moves, collected

vars == <<row, current, call, calls, recoveries, moves, collected>>

Outcomes == {"completed", "partial", "failed"}
Statuses == {"none", "coordinating", "completed", "partial", "failed", "stale"}

NoRow == [status |-> "none", version |-> 0, by |-> 0, history |-> <<>>]
Idle == [at |-> "idle", number |-> 0, mine |-> NoRow]

IsRow(r) ==
  /\ r.status \in Statuses /\ r.version \in Nat /\ r.by \in 0..MaxCalls
  /\ r.history \in Seq(Outcomes) /\ Len(r.history) <= Len(Stages)
  /\ r.status \in {"completed", "partial"} =>
       Len(r.history) = Len(Stages) /\ \A i \in DOMAIN r.history : r.history[i] # "failed"

TypeOK ==
  /\ IsRow(row) /\ current \in BOOLEAN
  /\ \A c \in Callers :
       /\ call[c].at \in {"idle", "hit", "begin", "stage", "finish", "failing", "answered", "threw"}
       /\ call[c].number \in 0..MaxCalls /\ IsRow(call[c].mine)
  /\ calls \in 0..MaxCalls /\ recoveries \in 0..MaxRecoveries
  /\ moves \in 0..MaxMoves /\ collected \in 0..Collections

Init ==
  /\ row = NoRow
  /\ current = TRUE
  /\ call = [c \in Callers |-> Idle]
  /\ calls = 0 /\ recoveries = 0 /\ moves = 0 /\ collected = 0

-----------------------------------------------------------------------------
Bounds == <<calls, recoveries, moves, collected>>
At(c, where) == [call EXCEPT ![c].at = where]

\* coordinate: the row is looked for, and only a completed one is found.
Coordinate(c) ==
  /\ call[c].at \in {"idle", "answered", "threw"} /\ calls < MaxCalls /\ current
  /\ calls' = calls + 1
  /\ call' = [call EXCEPT ![c] =
       [Idle EXCEPT !.at = IF row.status = "completed" THEN "hit" ELSE "begin",
                    !.number = calls + 1, !.mine = IF row.status = "completed" THEN row ELSE NoRow]]
  /\ UNCHANGED <<row, current, recoveries, moves, collected>>

\* recordCacheHit refuses when the row is completed no longer.
Hit(c) ==
  /\ call[c].at = "hit"
  /\ call' = At(c, IF row.status = "completed" THEN "answered" ELSE "threw")
  /\ UNCHANGED <<row, current>> /\ UNCHANGED Bounds

\* mutant: the version a save was made from is not compared
CanSaveAny(expected) == current
\* save: the repository must not have moved on; a save that names a version
\* needs the row at that version, one that names none takes the row over.
CanSave(expected) == current /\ (expected # 0 => row.version = expected /\ row.status # "none")

\* What is stored of a record, and what the caller goes on with.
Saved(record) == [record EXCEPT !.version = row.version + 1]
Store(c, record, then) ==
  /\ row' = Saved(record)
  /\ call' = [call EXCEPT ![c].at = then, ![c].mine = Saved(record)]
\* The answer of a save that was made is lost: the caller has what it had.
StoreUnheard(c, record, then) ==
  /\ row' = Saved(record)
  /\ call' = At(c, then)

\* The first save, which names no version.
Begin(c) ==
  LET record == [NoRow EXCEPT !.status = "coordinating", !.by = call[c].number] IN
  /\ call[c].at = "begin"
  /\ \/ CanSave(0) /\ (Store(c, record, "stage") \/ StoreUnheard(c, record, "threw"))
     \/ call' = At(c, "threw") /\ UNCHANGED row
  /\ UNCHANGED current /\ UNCHANGED Bounds

Position(c) == Len(call[c].mine.history) + 1
Reached(c, outcome) == [call[c].mine EXCEPT !.history = Append(@, outcome)]

\* A stage ends and its transition is saved; a save that is refused, or that
\* is made and not heard of, is an error of the stage like one of its engine.
Stage(c) ==
  /\ call[c].at = "stage"
  /\ \/ \E outcome \in IF Stages[Position(c)] \in Internal THEN {"completed"}
                        ELSE {"completed", "partial"} :
          /\ CanSave(call[c].mine.version)
          /\ \/ Store(c, Reached(c, outcome),
                      IF Position(c) = Len(Stages) THEN "finish" ELSE "stage")
             \/ StoreUnheard(c, Reached(c, outcome), "failing")
     \/ call' = At(c, "failing") /\ UNCHANGED row
  /\ UNCHANGED current /\ UNCHANGED Bounds

\* mutant: what fell short is not looked for
FinalBlindly(record) == [record EXCEPT !.status = "completed"]
Final(record) ==
  [record EXCEPT !.status =
     IF \E i \in DOMAIN record.history : record.history[i] = "partial" THEN "partial" ELSE "completed"]

Finish(c) ==
  /\ call[c].at = "finish"
  /\ \/ /\ CanSave(call[c].mine.version)
        /\ \/ Store(c, Final(call[c].mine), "answered")
           \/ StoreUnheard(c, Final(call[c].mine), "failing")
     \/ call' = At(c, "failing") /\ UNCHANGED row
  /\ UNCHANGED current /\ UNCHANGED Bounds

\* mutant: the failed transition is recorded although every stage was taken
FailsAlways(c) == TRUE
\* The stage that failed is recorded, unless every stage was taken.
FailsStage(c) == Position(c) <= Len(Stages)

\* The catch: the failed transition is saved, then the failed status; what
\* fails here is thrown to the caller.  The two saves are two steps.
Fail(c) ==
  /\ call[c].at = "failing"
  /\ LET mine == call[c].mine
         recorded == mine.history # <<>> /\ mine.history[Len(mine.history)] = "failed"
         record == IF FailsStage(c) /\ ~recorded THEN Reached(c, "failed")
                   ELSE [mine EXCEPT !.status = "failed"]
     IN \/ CanSave(mine.version)
             /\ (\/ Store(c, record, IF record.status = "failed" THEN "answered" ELSE "failing")
                 \/ StoreUnheard(c, record, "threw"))
        \/ call' = At(c, "threw") /\ UNCHANGED row
  /\ UNCHANGED current /\ UNCHANGED Bounds

\* The backend of a call stops.
Crash(c) ==
  /\ call[c].at \notin {"idle", "answered", "threw"}
  /\ call' = At(c, "threw")
  /\ UNCHANGED <<row, current>> /\ UNCHANGED Bounds

-----------------------------------------------------------------------------
Recoverable == row.status \in {"coordinating", "partial"} \/ ~current

\* A backend starts and recovers; the version stays what it is.
Recover ==
  /\ recoveries < MaxRecoveries /\ recoveries' = recoveries + 1
  /\ row.status # "none"
  /\ row' = IF Recoverable THEN [row EXCEPT !.status = IF current THEN "failed" ELSE "stale"] ELSE row
  /\ UNCHANGED <<current, call, calls, moves, collected>>

\* What is not completed and not among the latest is deleted; which are the
\* latest depends on other executions.
Collectable == row.status \notin {"none", "completed"}
Collect ==
  /\ collected < Collections /\ collected' = collected + 1
  /\ Collectable
  /\ row' = NoRow
  /\ UNCHANGED <<current, call, calls, recoveries, moves>>

\* The repository is published at another revision, or rolled back to this one.
Move ==
  /\ moves < MaxMoves /\ moves' = moves + 1
  /\ current' = ~current
  /\ UNCHANGED <<row, call, calls, recoveries, collected>>

Next ==
  \/ \E c \in Callers :
       \/ Coordinate(c) \/ Hit(c) \/ Begin(c) \/ Stage(c)
       \/ Finish(c) \/ Fail(c) \/ Crash(c)
  \/ Recover \/ Collect \/ Move

Spec == Init /\ [][Next]_vars

-----------------------------------------------------------------------------
(***************************************************************************)
(* Properties.                                                             *)
(***************************************************************************)

\* A call that was overtaken writes nothing more: the record passes from one
\* call to another only by the other's start, which takes no stage over.
TakenOverAtStart ==
  row'.by # row.by /\ row'.status # "none" => row'.history = <<>>

\* A call's answer is what is stored, unless the record was recovered, taken
\* over or collected since; a completed answer had no stage that fell short.
AnswersStand ==
  \A c \in Callers :
    call[c].at = "answered" =>
      /\ row.by = call[c].mine.by /\ row.version = call[c].mine.version
           => row.status \in {call[c].mine.status, "failed", "stale"}
      /\ call[c].mine.status = "completed" =>
           \A i \in DOMAIN call[c].mine.history : call[c].mine.history[i] = "completed"

\* A completed execution stays so while its revision is the current one: it is
\* what later calls are answered with, instead of starting over.  Only a call
\* that had looked for it before it was completed takes it away, at its start.
\* (Where records are collected while calls overlap, the versions begin anew
\* and an older call's save may be taken for a later one's.)
StaysCompleted ==
  row.status = "completed" /\ current /\ row'.status # "completed" =>
    \E c \in Callers : call[c].at = "begin" /\ row'.by = call[c].number
=============================================================================
