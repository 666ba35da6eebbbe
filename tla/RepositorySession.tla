-------------------------- MODULE RepositorySession --------------------------
(***************************************************************************)
(* The engineering sessions of one user on one repository, in the Postgres  *)
(* store.  An operation that asks another engine saves its session as       *)
(* interrupted, works, and saves it as active with what it did; every save  *)
(* compares the version it loaded, except that of a creation.  A backend    *)
(* that starts recovers the sessions that are interrupted or have expired.  *)
(***************************************************************************)
EXTENDS Naturals, FiniteSets, Sequences

CONSTANTS
  Sessions, Callers, Revisions, Workflows,
  RevisionOf,  \* what a session's id is made of: its revision, and the
  WorkflowOf,  \* workflow it was created with, or None
  Expiration,
  MaxHistory,
  MaxClock,    \* bounds: the clock, a version no operation starts from, and
  MaxVersion,  \* starts of a backend
  Starts,
  None

SessionAssumption ==
  /\ {Expiration, MaxHistory} \subseteq Nat \ {0}
  /\ {MaxClock, MaxVersion, Starts} \subseteq Nat
  /\ RevisionOf \in [Sessions -> Revisions]
  /\ WorkflowOf \in [Sessions -> Workflows \union {None}]
  /\ None \notin Workflows

VARIABLES
  rows,     \* the sessions; version 0 is no row
  current,  \* the repository's published revision
  clock,
  call,     \* what each caller's operation is at
  listing,  \* the last listing of the sessions: answered or refused
  starts

vars == <<rows, current, clock, call, listing, starts>>

\* life counts the creations over a row that is there.
NoRow == [version |-> 0, life |-> 0, lifecycle |-> "archived", workflow |-> None,
          history |-> <<>>, expires |-> 0]
Idle == [at |-> "idle", session |-> None, row |-> NoRow]

IsRow(row) ==
  /\ {row.version, row.life, row.expires} \subseteq Nat
  /\ row.lifecycle \in {"active", "interrupted", "recovered", "archived"}
  /\ row.workflow \in Workflows \union {None}
  /\ Len(row.history) <= MaxHistory
  /\ \A i \in DOMAIN row.history : row.history[i] \in Callers

TypeOK ==
  /\ \A s \in Sessions : IsRow(rows[s])
  /\ current \in Revisions
  /\ clock \in 0..MaxClock /\ starts \in 0..Starts
  /\ \A c \in Callers :
       /\ call[c].at \in {"idle", "creating", "viewing", "beginning", "working", "answering",
                          "attaching", "archiving"}
       /\ call[c].session \in Sessions \union {None} /\ IsRow(call[c].row)
  /\ listing \in {"none", "answered", "refused"}

Init ==
  /\ rows = [s \in Sessions |-> NoRow]
  /\ current \in Revisions
  /\ clock = 0
  /\ call = [c \in Callers |-> Idle]
  /\ listing = "none"
  /\ starts = 0

-----------------------------------------------------------------------------
Present(s) == rows[s].version > 0
Open(row) == row.lifecycle \in {"active", "recovered"}
Expired(row) == row.expires <= clock

Goes(c, to, s, row) ==
  /\ call' = [call EXCEPT ![c] = [at |-> to, session |-> s, row |-> row]]
  /\ UNCHANGED <<rows, current, clock, listing, starts>>

\* A session an operation may start from.
Required(c, s) ==
  /\ call[c] = Idle
  /\ Present(s) /\ Open(rows[s]) /\ ~Expired(rows[s])
  /\ RevisionOf[s] = current
  /\ rows[s].version < MaxVersion

\* mutant: the limit is forgotten
AddedUncut(history, c) == Append(history, c)
\* What was done last, cut to the limit.
Added(history, c) ==
  LET all == Append(history, c)
  IN  IF Len(all) <= MaxHistory THEN all ELSE Tail(all)
Appended(row, c, lifecycle) ==
  [row EXCEPT !.version = @ + 1, !.lifecycle = lifecycle, !.history = Added(@, c),
              !.expires = clock + Expiration]

-----------------------------------------------------------------------------
(* The first halves: what is loaded, and the row that is to be saved *)

\* An open session is reused as it is; any other is created over.
Create(c, s) ==
  /\ call[c] = Idle
  /\ RevisionOf[s] = current
  /\ ~(Present(s) /\ Open(rows[s]) /\ ~Expired(rows[s]))
  /\ rows[s].version < MaxVersion
  /\ Goes(c, "creating", s, [NoRow EXCEPT !.lifecycle = "active", !.workflow = WorkflowOf[s],
                                          !.expires = clock + Expiration])
View(c, s) ==
  /\ Required(c, s)
  /\ Goes(c, "viewing", s,
          Appended(rows[s], c, IF rows[s].lifecycle = "recovered" THEN "recovered" ELSE "active"))
Begin(c, s) ==
  /\ Required(c, s)
  /\ Goes(c, "beginning", s, [rows[s] EXCEPT !.version = @ + 1, !.lifecycle = "interrupted"])

\* Attached to no other session that the listing has.
Attach(c, s, w) ==
  /\ Required(c, s)
  /\ rows[s].workflow = None
  /\ \A t \in Sessions \ {s} : Present(t) /\ Open(rows[t]) => rows[t].workflow # w
  /\ Goes(c, "attaching", s, [rows[s] EXCEPT !.version = @ + 1, !.workflow = w])

\* Asked for, or because the session was found expired.
Archive(c, s) ==
  /\ call[c] = Idle
  /\ Present(s) /\ rows[s].version < MaxVersion
  /\ RevisionOf[s] = current \/ (Open(rows[s]) /\ Expired(rows[s]))
  /\ Goes(c, "archiving", s, rows[s])

-----------------------------------------------------------------------------
(* The second halves *)

\* mutant: the version is not compared
SavedBlindly(c) ==
  LET s == call[c].session
  IN  /\ RevisionOf[s] = current
      /\ rows' = [rows EXCEPT ![s] = call[c].row]
Saved(c) ==
  LET s == call[c].session
  IN  /\ RevisionOf[s] = current
      /\ rows[s].version = call[c].row.version - 1
      /\ rows' = [rows EXCEPT ![s] = call[c].row]

Save(c) ==
  /\ call[c].at \in {"viewing", "beginning", "attaching"}
  /\ \/ /\ Saved(c)
        /\ call' = [call EXCEPT ![c] = IF call[c].at = "beginning" THEN [@ EXCEPT !.at = "working"]
                                                                   ELSE Idle]
     \/ /\ RevisionOf[call[c].session] # current
           \/ rows[call[c].session].version # call[c].row.version - 1
        /\ call' = [call EXCEPT ![c] = Idle]
        /\ UNCHANGED rows
  /\ UNCHANGED <<current, clock, listing, starts>>

SaveCreated(c) ==
  /\ call[c].at = "creating"
  /\ LET s == call[c].session
     IN  IF RevisionOf[s] = current
         THEN rows' = [rows EXCEPT ![s] = [call[c].row EXCEPT !.version = rows[s].version + 1,
                                                              !.life = rows[s].life + 1]]
         ELSE UNCHANGED rows
  /\ call' = [call EXCEPT ![c] = Idle]
  /\ UNCHANGED <<current, clock, listing, starts>>

\* The engine has answered; the session is saved, if it is still as begun.
Complete(c) ==
  /\ call[c].at = "working"
  /\ LET s == call[c].session
     IN  IF RevisionOf[s] = current /\ rows[s].version = call[c].row.version
         THEN /\ rows' = [rows EXCEPT ![s] = Appended(call[c].row, c, "active")]
              /\ call' = [call EXCEPT ![c].at = "answering"]
         ELSE /\ UNCHANGED rows
              /\ call' = [call EXCEPT ![c] = Idle]
  /\ UNCHANGED <<current, clock, listing, starts>>

\* The route loads the session once more; where it is interrupted again by
\* then, the operation is answered with an error.  A begun operation fails
\* where its engine does.
Answer(c) ==
  /\ call[c].at \in {"answering", "working"}
  /\ call' = [call EXCEPT ![c] = Idle]
  /\ UNCHANGED <<rows, current, clock, listing, starts>>

\* mutant: the version stays
ArchivedInPlace(row) == [row EXCEPT !.lifecycle = "archived"]
Archived(row) == [row EXCEPT !.lifecycle = "archived", !.version = @ + 1]

SaveArchived(c) ==
  /\ call[c].at = "archiving"
  /\ rows' = [rows EXCEPT ![call[c].session] = Archived(@)]
  /\ call' = [call EXCEPT ![c] = Idle]
  /\ UNCHANGED <<current, clock, listing, starts>>

-----------------------------------------------------------------------------
(* Reading, start-up and the environment *)

\* Every open session is authorised; one that is not refuses the listing.
List(c) ==
  /\ call[c] = Idle
  /\ listing' = IF \A s \in Sessions : Present(s) /\ Open(rows[s]) => RevisionOf[s] = current
                THEN "answered" ELSE "refused"
  /\ UNCHANGED <<rows, current, clock, call, starts>>

\* mutant: an interrupted session is recovered under its version
RecoveredInPlace(row) ==
  IF Expired(row) THEN Archived(row)
  ELSE IF row.lifecycle = "interrupted" THEN [row EXCEPT !.lifecycle = "recovered"]
  ELSE row
Recovered(row) ==
  IF Expired(row) THEN Archived(row)
  ELSE IF row.lifecycle = "interrupted" THEN [row EXCEPT !.lifecycle = "recovered", !.version = @ + 1]
  ELSE row

Start ==
  /\ starts < Starts
  /\ starts' = starts + 1
  /\ rows' = [s \in Sessions |-> IF Present(s) THEN Recovered(rows[s]) ELSE NoRow]
  /\ UNCHANGED <<current, clock, call, listing>>

Publish ==
  /\ \E r \in Revisions \ {current} : current' = r
  /\ UNCHANGED <<rows, clock, call, listing, starts>>

Tick ==
  /\ clock < MaxClock
  /\ clock' = clock + 1
  /\ UNCHANGED <<rows, current, call, listing, starts>>

Next ==
  \/ \E c \in Callers, s \in Sessions :
       Create(c, s) \/ View(c, s) \/ Begin(c, s) \/ Archive(c, s)
  \/ \E c \in Callers, s \in Sessions, w \in Workflows : Attach(c, s, w)
  \/ \E c \in Callers :
       Save(c) \/ SaveCreated(c) \/ Complete(c) \/ Answer(c) \/ SaveArchived(c) \/ List(c)
  \/ Start \/ Publish \/ Tick

Spec == Init /\ [][Next]_vars

-----------------------------------------------------------------------------
(* Properties *)

SameLife(s) == Present(s) /\ rows'[s].life = rows[s].life

\* What operations that overlap have recorded is neither lost nor reordered:
\* the history only grows, but for what exceeds its limit.
HistoryGrows ==
  \A s \in Sessions :
    SameLife(s) /\ rows'[s].history # rows[s].history =>
      \E c \in Callers : rows'[s].history = Added(rows[s].history, c)

\* An archived session is not opened again by an operation that was under way.
ArchivedStays ==
  \A s \in Sessions :
    SameLife(s) /\ rows[s].lifecycle = "archived" => rows'[s].lifecycle = "archived"

\* An operation completes only the session it began: not one that was
\* recovered, archived, created over or begun by another meanwhile.
CompletesOwn ==
  \A c \in Callers :
    call[c].at = "working" /\ call'[c].at = "answering" =>
      rows[call[c].session] = call[c].row
=============================================================================
