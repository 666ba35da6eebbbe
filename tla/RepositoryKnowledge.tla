-------------------------- MODULE RepositoryKnowledge --------------------------
(***************************************************************************)
(* What is known of one repository, in the Postgres store: entries, one for *)
(* a subject, that evolve version by version, and the memories agents keep  *)
(* of a version.  A call loads what it needs, computes the new record as    *)
(* the in-memory store would, and saves it; the save of an entry compares   *)
(* the version that was loaded, that of a memory looks at the entry again.  *)
(***************************************************************************)
EXTENDS Naturals, FiniteSets, Sequences

CONSTANTS
  Entries, Memories, Callers, Revisions,
  Facts,           \* a version's content is a set of facts
  OfEntry,         \* the entry, and its version, that a memory is of, and when
  OfVersion,       \* the memory expires (Never: it does not)
  ExpiresAt, Never,
  EntryQuota, VersionQuota, MemoryQuota,
  RetainedEntries, RetainedMemories,
  MaxClock,        \* bounds: the clock, and collections of what is retained
  Collections,     \* no longer
  None

KnowledgeAssumption ==
  /\ {EntryQuota, VersionQuota, MemoryQuota, RetainedEntries, RetainedMemories} \subseteq Nat \ {0}
  /\ {MaxClock, Collections} \subseteq Nat
  /\ OfEntry \in [Memories -> Entries] /\ OfVersion \in [Memories -> Nat \ {0}]
  /\ ExpiresAt \in [Memories -> Nat \union {Never}]

VARIABLES
  rows,      \* the entries
  memories,  \* the memories, None where there is none
  expired,   \* those whose expiration is recorded
  current,   \* the repository's published revision
  clock,
  call,      \* what each caller's operation is at
  collected

vars == <<rows, memories, expired, current, clock, call, collected>>

\* saves counts the saves of the row's life, the persistence version.
NoRow(life) == [life |-> life, saves |-> 0, lifecycle |-> "none", revision |-> None,
                versions |-> <<>>, updated |-> 0]
Call(at, of, row, memory, was) ==
  [at |-> at, of |-> of, row |-> row, memory |-> memory, was |-> was]
Idle == Call("idle", None, None, None, "none")

IsVersions(versions) ==
  /\ Len(versions) <= VersionQuota
  /\ \A i \in DOMAIN versions : versions[i] \in SUBSET Facts
IsRow(row) ==
  /\ row.life \in Nat /\ row.saves \in Nat /\ row.updated \in 0..MaxClock
  /\ row.lifecycle \in {"none", "active", "archived"}
  /\ row.revision \in Revisions \union {None}
  /\ IsVersions(row.versions)
IsMemory(memory) ==
  memory.content \in SUBSET Facts /\ memory.created \in 0..MaxClock

TypeOK ==
  /\ \A e \in Entries : IsRow(rows[e])
  /\ \A m \in Memories : memories[m] # None => IsMemory(memories[m])
  /\ expired \subseteq {m \in Memories : memories[m] # None}
  /\ current \in Revisions /\ clock \in 0..MaxClock /\ collected \in 0..Collections
  /\ \A c \in Callers :
       /\ call[c].at \in {"idle", "counting", "persisting", "remembering", "inserting"}
       /\ call[c].was \in {"none", "conflict"}
       /\ call[c].row # None => IsRow(call[c].row)
       /\ call[c].memory # None => IsMemory(call[c].memory)

Init ==
  /\ rows = [e \in Entries |-> NoRow(0)]
  /\ memories = [m \in Memories |-> None]
  /\ expired = {}
  /\ current \in Revisions
  /\ clock = 0
  /\ call = [c \in Callers |-> Idle]
  /\ collected = 0

-----------------------------------------------------------------------------
Present(e) == rows[e].lifecycle # "none"
Version(row) == Len(row.versions)
Newest(row) == row.versions[Version(row)]
Listed == {m \in Memories : memories[m] # None /\ m \notin expired}
Stored == UNCHANGED <<rows, memories, expired, current, clock, collected>>

Loads(c, at, e, row) == call' = [call EXCEPT ![c] = Call(at, e, row, None, "none")]
Ends(c, was) == call' = [call EXCEPT ![c] = Call("idle", None, None, None, was)]

-----------------------------------------------------------------------------
(* Entries *)

\* The first version of a subject, once the repository's entries are counted.
Create(c, e, facts) ==
  /\ call[c].at = "idle"
  /\ ~Present(e)
  /\ Loads(c, "counting", e,
           [rows[e] EXCEPT !.saves = 1, !.lifecycle = "active", !.revision = current,
                           !.versions = <<facts>>, !.updated = clock])
  /\ Stored

Count(c) ==
  /\ call[c].at = "counting"
  /\ IF Cardinality({e \in Entries : rows[e].lifecycle = "active"}) < EntryQuota
     THEN call' = [call EXCEPT ![c].at = "persisting"]
     ELSE Ends(c, "none")
  /\ Stored

\* A version that follows the one the caller knows: instead of its facts, or
\* merged with them.
Evolve(c, e, facts, merge) ==
  /\ call[c].at = "idle"
  /\ rows[e].lifecycle = "active"
  /\ Version(rows[e]) < VersionQuota
  /\ Loads(c, "persisting", e,
           [rows[e] EXCEPT !.saves = @ + 1, !.updated = clock,
              !.versions = Append(@, IF merge THEN facts \union Newest(rows[e]) ELSE facts)])
  /\ Stored

Archive(c, e) ==
  /\ call[c].at = "idle"
  /\ rows[e].lifecycle = "active"
  /\ Loads(c, "persisting", e,
           [rows[e] EXCEPT !.saves = @ + 1, !.lifecycle = "archived", !.updated = clock])
  /\ Stored

\* A version, once written, is not written differently.
KeepsHistory(row, over) ==
  \A i \in DOMAIN row.versions \intersect DOMAIN over.versions : row.versions[i] = over.versions[i]

Accepted(row, over) ==
  /\ row.revision = current
  /\ over.saves = row.saves - 1
  /\ KeepsHistory(row, over)

Persist(c) ==
  /\ call[c].at = "persisting"
  /\ LET e == call[c].of
     IN  IF Accepted(call[c].row, rows[e])
         THEN /\ rows' = [rows EXCEPT ![e] = [call[c].row EXCEPT !.life = rows[e].life]]
              /\ Ends(c, "none")
         ELSE UNCHANGED rows /\ Ends(c, "none")
  /\ UNCHANGED <<memories, expired, current, clock, collected>>

-----------------------------------------------------------------------------
(* Memories *)

\* mutant: a memory may be of any version
RememberableAnyhow(m, row) == row.lifecycle = "active"
Rememberable(m, row) == row.lifecycle = "active" /\ Version(row) = OfVersion[m]

\* One that is listed is saved as it is, so that a repetition is answered.
Remember(c, m) ==
  /\ call[c].at = "idle"
  /\ Rememberable(m, rows[OfEntry[m]])
  /\ Cardinality(Listed) < MemoryQuota
  /\ LET memory == IF m \in Listed THEN memories[m]
                   ELSE [content |-> Newest(rows[OfEntry[m]]), created |-> clock]
     IN  call' = [call EXCEPT ![c] = Call("remembering", m, None, memory, "none")]
  /\ Stored

\* The procedure looks at the entry, which it does not lock, ...
Check(c) ==
  /\ call[c].at = "remembering"
  /\ LET m == call[c].of
         row == rows[OfEntry[m]]
     IN  IF row.lifecycle = "active" /\ Version(row) = OfVersion[m]
         THEN call' = [call EXCEPT ![c].at = "inserting"]
         ELSE Ends(c, "none")
  /\ Stored

Inserted(m, memory) ==
  /\ Version(rows[OfEntry[m]]) >= OfVersion[m]
  /\ memories[m] = None
  /\ memories' = [memories EXCEPT ![m] = memory]

\* ... and then inserts.
Insert(c) ==
  /\ call[c].at = "inserting"
  /\ LET m == call[c].of
     IN  \/ Inserted(m, call[c].memory) /\ Ends(c, "none")
         \/ memories[m] = call[c].memory /\ UNCHANGED memories /\ Ends(c, "none")
         \/ /\ memories[m] \notin {None, call[c].memory}
            /\ UNCHANGED memories /\ Ends(c, "conflict")
         \/ /\ memories[m] = None /\ Version(rows[OfEntry[m]]) < OfVersion[m]
            /\ UNCHANGED memories /\ Ends(c, "none")
  /\ UNCHANGED <<rows, expired, current, clock, collected>>

-----------------------------------------------------------------------------
(* Start-up, collection and the environment *)

\* mutant: one that never was is recorded as expired
RecoverAll == expired' = Memories /\ UNCHANGED <<rows, memories, current, clock, call, collected>>
\* No entry is saved in a state that the rest of the recovery repairs.
Recover ==
  /\ expired' = expired \union {m \in Memories :
                    memories[m] # None /\ ExpiresAt[m] # Never /\ ExpiresAt[m] <= clock}
  /\ UNCHANGED <<rows, memories, current, clock, call, collected>>

\* All but the latest, as many as are retained.
Latest(S, at, retained) ==
  {kept \in SUBSET S :
     /\ Cardinality(kept) = IF Cardinality(S) < retained THEN Cardinality(S) ELSE retained
     /\ \A k \in kept, o \in S \ kept : at[k] >= at[o]}

Collect ==
  /\ collected < Collections
  /\ collected' = collected + 1
  /\ \E kept \in Latest({e \in Entries : rows[e].lifecycle = "archived"},
                        [e \in Entries |-> rows[e].updated], RetainedEntries),
        left \in Latest({m \in Memories : memories[m] # None},
                        [m \in {n \in Memories : memories[n] # None} |-> memories[m].created], RetainedMemories) :
       LET gone == {e \in Entries : rows[e].lifecycle = "archived"} \ kept
           stays == {m \in left : OfEntry[m] \notin gone}
       IN  /\ rows' = [e \in Entries |-> IF e \in gone THEN NoRow(rows[e].life + 1) ELSE rows[e]]
           /\ memories' = [m \in Memories |-> IF m \in stays THEN memories[m] ELSE None]
           /\ expired' = expired \intersect stays
  /\ UNCHANGED <<current, clock, call>>

Publish ==
  /\ \E r \in Revisions \ {current} : current' = r
  /\ UNCHANGED <<rows, memories, expired, clock, call, collected>>

Tick ==
  /\ clock < MaxClock
  /\ clock' = clock + 1
  /\ UNCHANGED <<rows, memories, expired, current, call, collected>>

Next ==
  \/ \E c \in Callers, e \in Entries :
       \/ Archive(c, e)
       \/ \E facts \in SUBSET Facts \ {{}} :
            Create(c, e, facts) \/ \E merge \in BOOLEAN : Evolve(c, e, facts, merge)
  \/ \E c \in Callers : Count(c) \/ Persist(c) \/ Check(c) \/ Insert(c)
  \/ \E c \in Callers, m \in Memories : Remember(c, m)
  \/ Recover \/ Collect \/ Publish \/ Tick

Spec == Init /\ [][Next]_vars

-----------------------------------------------------------------------------
(* Properties *)

SameLife(e) == Present(e) /\ rows'[e].life = rows[e].life

\* What overlapping calls know of a subject is only ever added to: no version
\* is changed or taken back.
AddsVersions ==
  \A e \in Entries :
    SameLife(e) => Version(rows[e]) <= Version(rows'[e]) /\ KeepsHistory(rows'[e], rows[e])

\* An archived entry is not brought back by a call that was under way, unless
\* it loaded an entry that has been collected and created again: the versions
\* that are compared begin anew.
OfEarlierLife(c, e) ==
  call[c].at = "persisting" /\ call[c].of = e /\ call[c].row.life < rows[e].life
KeepsArchived ==
  \A e \in Entries :
    SameLife(e) /\ rows[e].lifecycle = "archived" =>
      \/ rows'[e].lifecycle = "archived"
      \/ \E c \in Callers : OfEarlierLife(c, e) /\ call'[c].at = "idle"

\* A memory is never replaced by one of another time or content.
ReplacesNoMemory ==
  \A m \in Memories :
    memories[m] # None /\ memories'[m] # None => memories'[m] = memories[m]

\* What a memory was made of is what its version says.
MemoriesMatch ==
  \A m \in Memories :
    memories[m] # None => memories[m].content = rows[OfEntry[m]].versions[OfVersion[m]]
=============================================================================
