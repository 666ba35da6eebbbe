------------------------ MODULE ChangePipelineProofs ------------------------
(***************************************************************************)
(* No save overwrites another, what is decided stands, and what is applied  *)
(* was reviewed, for any artifacts, reviews and numbers of versions.        *)
(*                                                                          *)
(* The argument: the version check makes every save a change of the present *)
(* row, though worked out on a loaded one (HeldIsCurrent, RowStep).  So a   *)
(* row that is approved when a caller loads it is the same row, at most     *)
(* archived, when the caller's next operation is saved (HeldStands).        *)
(***************************************************************************)
EXTENDS ChangePipeline, TLAPS

Engines == Names \ {"workspace"}
Final(n) == IF n = "workspace" THEN Terminal(n)
            ELSE {"approved", "ready", "expired", "archived"}
Archived(row) == [row EXCEPT !.life = "archived"]

HeldIsCurrent == held # None => \A n \in Names \ moved: held.rows[n] = rows[n]
HeldStands ==
  held # None => \A n \in Engines:
    held.rows[n].life = "approved" => rows[n] \in {held.rows[n], Archived(held.rows[n])}
BuiltOK == \A n \in Engines: rows[n].life # "absent" => rows[n].built # <<>>

\* What a proposal's version was assembled from is as it was approved.
Assembled(basis) ==
  /\ \A n \in On(basis, Names):
       /\ n \in Artifacts \union Reviews
       /\ rows[n].life \in {"approved", "archived"}
       /\ rows[n].passes
       /\ Version(rows[n]) = basis[n]
  /\ \A a \in On(basis, Artifacts):
       \E r \in On(basis, Reviews): Subject[r] = a /\ Latest(rows[r])[a] = basis[a]
\* What a transaction's version was prepared from is the approved proposal.
Prepared(basis) ==
  /\ rows["proposal"].life \in {"approved", "archived"}
  /\ Version(rows["proposal"]) = basis["proposal"]
  /\ \A a \in Artifacts: basis[a] = Latest(rows["proposal"])[a]

ProposalStands ==
  \A v \in DOMAIN rows["proposal"].built: Assembled(rows["proposal"].built[v])
TransactionStands ==
  \A v \in DOMAIN rows["transaction"].built: Prepared(rows["transaction"].built[v])

IndInv ==
  /\ TypeOK
  /\ HeldIsCurrent
  /\ HeldStands
  /\ BuiltOK
  /\ ProposalStands
  /\ TransactionStands

-----------------------------------------------------------------------------
(* Every step is a change of one present row.                               *)

\* How a row changes: it is kept or archived if final; it keeps its versions
\* or gets one more.
RowStep(n, row) ==
  /\ row \in Row
  /\ rows[n].life \in Final(n) => row \in {rows[n], Archived(rows[n])}
  /\ \/ /\ row.built = rows[n].built
        /\ row.passes = rows[n].passes
        /\ n # "workspace" => rows[n].life # "absent"
     \/ \E basis \in Basis: row.built = Append(rows[n].built, basis)

\* What a new version of the proposal or the transaction is built on.
Grounds(n, row) ==
  /\ n = "proposal" /\ row.built # rows[n].built =>
       \E artifacts \in SUBSET Artifacts, reviews \in SUBSET Reviews, when \in When:
         /\ ApprovedFor(View(when), artifacts, reviews)
         /\ row.built = Append(rows[n].built, Of(artifacts \union reviews, View(when)))
  /\ n = "transaction" /\ row.built # rows[n].built =>
       \E artifacts \in SUBSET Artifacts, when \in When:
         /\ MayPrepare(View(when), artifacts)
         /\ row.built = Append(rows[n].built, Of(artifacts \union {"proposal"}, View(when)))

Saved(n, row) ==
  /\ rows' = [rows EXCEPT ![n] = row]
  /\ overdue' \subseteq Names
  /\ published' = published
  /\ \/ held' = None /\ moved' = {}
     \/ held # None /\ held' = held /\ moved' = moved \union {n}
Changed(n, row) == Saved(n, row) /\ RowStep(n, row) /\ Grounds(n, row)

Kept ==
  /\ rows' = rows
  /\ overdue' \subseteq Names
  /\ published' \in BOOLEAN
  /\ \/ held' = None /\ moved' = {}
     \/ held' = held /\ moved' = moved
     \/ held' = [rows |-> rows, overdue |-> overdue] /\ moved' = {}

\* A save that succeeds is worked out on the present row.
LEMMA SavedNow ==
  ASSUME TypeOK, HeldIsCurrent, NEW n \in Names, NEW when \in When,
         NEW row, NEW late \in SUBSET Names, Save(n, when, row, late)
  PROVE  Own(n, when) = rows[n] /\ Saved(n, row)
<1>1. Own(n, when) = rows[n]
  BY DEF Save, VersionHeld, Own, When, HeldIsCurrent
<1> QED
  BY <1>1 DEF Save, Saved, When

\* A change of state only.
LEMMA MovedNow ==
  ASSUME TypeOK, HeldIsCurrent, NEW n \in Names, NEW when \in When,
         NEW life \in Lifecycles, Move(n, when, life),
         Own(n, when).life \in Final(n) => life = "archived" /\ n # "workspace",
         n # "workspace" => Own(n, when).life # "absent"
  PROVE  Changed(n, [rows[n] EXCEPT !.life = life])
<1> DEFINE row == [Own(n, when) EXCEPT !.life = life]
<1>1. Own(n, when) = rows[n] /\ Saved(n, row)
  <2>1. Save(n, when, row, overdue \ {n})
    BY DEF Move, Replace
  <2>2. overdue \ {n} \in SUBSET Names
    BY DEF TypeOK
  <2> QED
    BY <2>1, <2>2, SavedNow
<1>2. rows[n] \in Row
  BY DEF TypeOK
<1>3. row = [rows[n] EXCEPT !.life = life] /\ row \in Row
  BY <1>1, <1>2 DEF Row
<1>4. row.built = rows[n].built /\ row.passes = rows[n].passes
  BY <1>2, <1>3 DEF Row
<1>5. RowStep(n, row)
  BY <1>1, <1>3, <1>4 DEF RowStep, Archived
<1> QED
  BY <1>1, <1>3, <1>4, <1>5 DEF Changed, Grounds

\* A workspace whose lease goes on.
LEMMA KeptNow ==
  ASSUME TypeOK, HeldIsCurrent, NEW when \in When, NEW life \in Lifecycles,
         NEW late \in SUBSET Names, NEW built,
         Save("workspace", when,
              [Own("workspace", when) EXCEPT !.life = life, !.built = built], late),
         Own("workspace", when).life \in Terminal("workspace") =>
           life = Own("workspace", when).life /\ built = Own("workspace", when).built,
         \/ built = Own("workspace", when).built
         \/ \E basis \in Basis: built = Append(Own("workspace", when).built, basis)
  PROVE  \E row: Changed("workspace", row)
<1> DEFINE row == [Own("workspace", when) EXCEPT !.life = life, !.built = built]
<1>0. "workspace" \in Names
  BY DEF Names
<1>1. Own("workspace", when) = rows["workspace"] /\ Saved("workspace", row)
  BY <1>0, SavedNow
<1>2. rows["workspace"] \in Row
  BY <1>0 DEF TypeOK
<1>3. built \in Seq(Basis)
  BY <1>1, <1>2 DEF Row
<1>4. row \in Row /\ row.built = built /\ row.passes = rows["workspace"].passes
      /\ row.life = life
  BY <1>1, <1>2, <1>3 DEF Row
<1>5. rows["workspace"].life \in Final("workspace") => row = rows["workspace"]
  BY <1>1, <1>2 DEF Row, Final
<1>6. RowStep("workspace", row)
  BY <1>1, <1>4, <1>5 DEF RowStep
<1> QED
  BY <1>1, <1>6 DEF Changed, Grounds

LEMMA WorkspaceChanges ==
  ASSUME TypeOK, HeldIsCurrent, WorkspaceStep
  PROVE  \E row: Changed("workspace", row)
<1>0. "workspace" \in Names
  BY DEF Names
<1>1. PICK when \in When \ {"inputs"}:
        \/ CreateWorkspace(when) \/ Prepare(when) \/ MarkReady(when) \/ Claim(when)
        \/ Activate(when) \/ Heartbeat(when) \/ BeginValidation(when)
        \/ GeneratePatch(when) \/ RejectCall(when)
        \/ \E life \in {"archived", "failed", "cancelled"}: Transition(when, life)
  BY DEF WorkspaceStep
<1> DEFINE own == Own("workspace", when)
<1>2. overdue \in SUBSET Names /\ overdue \ {"workspace"} \in SUBSET Names
  BY DEF TypeOK
<1>3. own \in Row
  BY <1>0, <1>1 DEF Own, TypeOK, When
<1>4. ASSUME NEW life \in Lifecycles, Move("workspace", when, life),
             own.life \notin Terminal("workspace")
      PROVE  \E row: Changed("workspace", row)
  BY <1>0, <1>1, <1>4, MovedNow DEF Final
<1>5. ASSUME NEW life \in Lifecycles, NEW built, Keep(when, life, built),
             own.life \notin Terminal("workspace"),
             built = own.built \/ \E basis \in Basis: built = Append(own.built, basis)
      PROVE  \E row: Changed("workspace", row)
  BY <1>1, <1>2, <1>5, KeptNow DEF Keep
<1>6. CASE CreateWorkspace(when)
  BY <1>4, <1>6 DEF CreateWorkspace, Lifecycles, Terminal
<1>7. CASE Prepare(when)
  BY <1>4, <1>7 DEF Prepare, Lifecycles, Terminal
<1>8. CASE MarkReady(when)
  BY <1>4, <1>8 DEF MarkReady, Lifecycles, Terminal
<1>9. CASE Claim(when)
  BY <1>4, <1>9 DEF Claim, Lifecycles, Terminal
<1>10. CASE Activate(when)
  BY <1>5, <1>10 DEF Activate, Lifecycles, Terminal
<1>11. CASE BeginValidation(when)
  BY <1>5, <1>11 DEF BeginValidation, Lifecycles, Terminal
<1>12. CASE GeneratePatch(when)
  <2>1. Of({}, rows) \in Basis
    BY DEF Of, Basis
  <2> QED
    BY <1>5, <1>12, <2>1 DEF GeneratePatch, Lifecycles, Terminal
<1>13. ASSUME NEW late \in SUBSET Names, Save("workspace", when, own, late)
       PROVE  \E row: Changed("workspace", row)
  <2>1. own = [own EXCEPT !.life = own.life, !.built = own.built] /\ own.life \in Lifecycles
    BY <1>3 DEF Row
  <2> QED
    BY <1>1, <1>13, <2>1, KeptNow
<1>14. CASE Heartbeat(when)
  BY <1>2, <1>13, <1>14 DEF Heartbeat, Replace
<1>15. CASE RejectCall(when)
  BY <1>2, <1>13, <1>15 DEF RejectCall
<1>16. CASE \E life \in {"archived", "failed", "cancelled"}: Transition(when, life)
  BY <1>4, <1>16 DEF Transition, Lifecycles, Terminal
<1> QED
  BY <1>1, <1>6, <1>7, <1>8, <1>9, <1>10, <1>11, <1>12, <1>14, <1>15, <1>16

-----------------------------------------------------------------------------
LEMMA ViewType ==
  ASSUME TypeOK, NEW when \in When
  PROVE  View(when) \in [Names -> Row]
BY DEF View, When, TypeOK

LEMMA OfType ==
  ASSUME NEW view \in [Names -> Row], NEW names
  PROVE  Of(names, view) \in Basis
BY DEF Of, Basis, Version, Row

LEMMA VersionedNow ==
  ASSUME TypeOK, HeldIsCurrent, NEW n \in Engines, NEW when \in When,
         NEW life \in Lifecycles, NEW basis \in Basis, NEW passes \in BOOLEAN,
         NewVersion(n, when, life, basis, passes), Own(n, when).life \notin Final(n)
  PROVE  \E row: /\ Saved(n, row)
                 /\ RowStep(n, row)
                 /\ row.built = Append(rows[n].built, basis)
<1> DEFINE row == [life |-> life, built |-> Append(Own(n, when).built, basis),
                   passes |-> passes]
<1>0. n \in Names
  BY DEF Engines
<1>1. Own(n, when) = rows[n] /\ Saved(n, row)
  <2>1. Save(n, when, row, overdue \ {n}) /\ overdue \ {n} \in SUBSET Names
    BY DEF NewVersion, Replace, TypeOK
  <2> QED
    BY <1>0, <2>1, SavedNow
<1>2. rows[n] \in Row
  BY <1>0 DEF TypeOK
<1>3. row \in Row /\ row.built = Append(rows[n].built, basis)
  BY <1>1, <1>2 DEF Row
<1>4. RowStep(n, row)
  BY <1>1, <1>3 DEF RowStep
<1> QED
  BY <1>1, <1>3, <1>4

\* A decision, or the archiving of what was decided or has expired.
LEMMA DecidedNow ==
  ASSUME TypeOK, HeldIsCurrent, NEW n \in Engines, NEW when \in When,
         \/ \E decision \in Decisions(n): \E version: Decide(n, when, version, decision)
         \/ Archive(n, when)
  PROVE  \E row: Changed(n, row)
<1>1. n \in Names /\ n # "workspace"
  BY DEF Engines
<1>2. ASSUME NEW decision \in Decisions(n), Own(n, when).life = Awaiting(n),
             Move(n, when, decision)
      PROVE  \E row: Changed(n, row)
  <2>1. decision \in Lifecycles
    BY DEF Decisions, Lifecycles
  <2>2. Awaiting(n) \notin Final(n) /\ Awaiting(n) # "absent"
    BY <1>1 DEF Awaiting, Final
  <2> QED
    BY <1>1, <1>2, <2>1, <2>2, MovedNow
<1>3. CASE Archive(n, when)
  <2>1. Own(n, when).life # "absent" /\ Move(n, when, "archived")
    BY <1>3 DEF Archive, Archivable, Decisions
  <2> QED
    BY <1>1, <2>1, MovedNow DEF Lifecycles
<1> QED
  BY <1>2, <1>3 DEF Decide

LEMMA ArtifactChanges ==
  ASSUME TypeOK, HeldIsCurrent, NEW when \in When, ArtifactStep(when)
  PROVE  \E n \in Engines: \E row: Changed(n, row)
<1>1. PICK a \in Artifacts:
        \/ Generate(a, when)
        \/ \E decision \in Decisions(a): ReviewArtifact(a, when, decision)
        \/ ArchiveArtifact(a, when)
  BY DEF ArtifactStep
<1>2. a \in Engines /\ a \notin {"workspace", "proposal", "transaction"}
  BY NamesAssumption DEF Engines, Names
<1>3. CASE Generate(a, when)
  <2>1. Of({"workspace"}, View(when)) \in Basis
    BY ViewType, OfType
  <2>2. PICK row: Saved(a, row) /\ RowStep(a, row)
    BY <1>2, <1>3, <2>1, VersionedNow DEF Generate, Final, Lifecycles
  <2> QED
    BY <1>2, <2>2 DEF Changed, Grounds
<1>4. CASE \E decision \in Decisions(a): ReviewArtifact(a, when, decision)
  BY <1>2, <1>4, DecidedNow DEF ReviewArtifact
<1>5. CASE ArchiveArtifact(a, when)
  BY <1>2, <1>5, DecidedNow DEF ArchiveArtifact
<1> QED
  BY <1>1, <1>3, <1>4, <1>5

LEMMA ReviewChanges ==
  ASSUME TypeOK, HeldIsCurrent, NEW when \in When, ReviewStep(when)
  PROVE  \E n \in Engines: \E row: Changed(n, row)
<1>1. PICK r \in Reviews:
        \/ \E passes \in BOOLEAN: CreateReview(r, when, passes)
        \/ \E verdict \in Decisions(r): DecideReview(r, when, verdict)
        \/ ArchiveReview(r, when)
  BY DEF ReviewStep
<1>2. r \in Engines /\ r \notin {"workspace", "proposal", "transaction"}
  BY NamesAssumption DEF Engines, Names
<1>3. ASSUME NEW passes \in BOOLEAN, CreateReview(r, when, passes)
      PROVE  \E n \in Engines: \E row: Changed(n, row)
  <2>1. Of({Subject[r]}, View(when)) \in Basis
    BY ViewType, OfType
  <2>2. PICK row: Saved(r, row) /\ RowStep(r, row)
    BY <1>2, <1>3, <2>1, VersionedNow DEF CreateReview, Final, Lifecycles
  <2> QED
    BY <1>2, <2>2 DEF Changed, Grounds
<1>4. CASE \E verdict \in Decisions(r): DecideReview(r, when, verdict)
  BY <1>2, <1>4, DecidedNow DEF DecideReview
<1>5. CASE ArchiveReview(r, when)
  BY <1>2, <1>5, DecidedNow DEF ArchiveReview
<1> QED
  BY <1>1, <1>3, <1>4, <1>5

LEMMA ProposalChanges ==
  ASSUME TypeOK, HeldIsCurrent, NEW when \in When, ProposalStep(when)
  PROVE  \E n \in Engines: \E row: Changed(n, row)
<1>1. "proposal" \in Engines
  BY DEF Engines, Names
<1>2. ASSUME NEW artifacts \in SUBSET Artifacts, NEW reviews \in SUBSET Reviews,
             Assemble(artifacts, reviews, when)
      PROVE  \E row: Changed("proposal", row)
  <2>1. Of(artifacts \union reviews, View(when)) \in Basis
    BY ViewType, OfType
  <2>2. PICK row: /\ Saved("proposal", row)
                  /\ RowStep("proposal", row)
                  /\ row.built = Append(rows["proposal"].built,
                                        Of(artifacts \union reviews, View(when)))
    <3>1. /\ Own("proposal", when).life \in {"absent", "rejected"}
          /\ NewVersion("proposal", when, "awaiting_review",
                        Of(artifacts \union reviews, View(when)), TRUE)
      BY <1>2 DEF Assemble
    <3>2. Own("proposal", when).life \notin Final("proposal")
      BY <3>1 DEF Final
    <3> QED
      BY <1>1, <2>1, <3>1, <3>2, VersionedNow DEF Lifecycles
  <2>3. ApprovedFor(View(when), artifacts, reviews)
    BY <1>2 DEF Assemble
  <2> QED
    BY <2>2, <2>3 DEF Changed, Grounds
<1>3. CASE \E verdict \in Decisions("proposal"): DecideProposal(when, verdict)
  BY <1>1, <1>3, DecidedNow DEF DecideProposal
<1>4. CASE ArchiveProposal(when)
  BY <1>1, <1>4, DecidedNow DEF ArchiveProposal
<1> QED
  BY <1>1, <1>2, <1>3, <1>4 DEF ProposalStep

LEMMA TransactionChanges ==
  ASSUME TypeOK, HeldIsCurrent, NEW when \in When, TransactionStep(when)
  PROVE  \E n \in Engines: \E row: Changed(n, row)
<1>1. "transaction" \in Engines
  BY DEF Engines, Names
<1>2. ASSUME NEW artifacts \in SUBSET Artifacts, PrepareTransaction(artifacts, when)
      PROVE  \E row: Changed("transaction", row)
  <2>1. Of(artifacts \union {"proposal"}, View(when)) \in Basis
    BY ViewType, OfType
  <2>2. PICK row: /\ Saved("transaction", row)
                  /\ RowStep("transaction", row)
                  /\ row.built = Append(rows["transaction"].built,
                                        Of(artifacts \union {"proposal"}, View(when)))
    <3>1. /\ Own("transaction", when).life \in {"absent", "cancelled"}
          /\ NewVersion("transaction", when, "awaiting_confirmation",
                        Of(artifacts \union {"proposal"}, View(when)), TRUE)
      BY <1>2 DEF PrepareTransaction
    <3>2. Own("transaction", when).life \notin Final("transaction")
      BY <3>1 DEF Final
    <3> QED
      BY <1>1, <2>1, <3>1, <3>2, VersionedNow DEF Lifecycles
  <2>3. MayPrepare(View(when), artifacts)
    BY <1>2 DEF PrepareTransaction
  <2> QED
    BY <2>2, <2>3 DEF Changed, Grounds
<1>3. CASE \E decision \in Decisions("transaction"): Confirm(when, decision)
  BY <1>1, <1>3, DecidedNow DEF Confirm
<1>4. CASE ArchiveTransaction(when)
  BY <1>1, <1>4, DecidedNow DEF ArchiveTransaction
<1> QED
  BY <1>1, <1>2, <1>3, <1>4 DEF TransactionStep

LEMMA RecoveryChanges ==
  ASSUME TypeOK, HeldIsCurrent, RecoveryStep
  PROVE  \E n \in Names: \E row: Changed(n, row)
<1>1. PICK when \in When, n \in Names: Recover(n, when)
  BY DEF RecoveryStep, RecoverWorkspace, RecoverProposal, RecoverTransaction,
         RecoverArtifact, RecoverReview, Names
<1> DEFINE own == Own(n, when)
           row == [own EXCEPT !.life = Recovered(n, when)]
           late == IF Recovered(n, when) = "active" THEN overdue ELSE overdue \ {n}
<1>2. own \in Row
  BY DEF Own, TypeOK, When
<1>3. Recovered(n, when) \in Lifecycles
  BY DEF Recovered, Lifecycles
<1>4. Save(n, when, row, late) /\ late \in SUBSET Names
  BY <1>1 DEF Recover, TypeOK
<1>5. own = rows[n] /\ Saved(n, row)
  BY <1>4, SavedNow
<1>6. own.life \notin Final(n) /\ (n # "workspace" => own.life # "absent")
  <2>1. CASE n = "workspace"
    BY <1>1, <2>1 DEF Recover, ToRecover, Final, Terminal
  <2>2. CASE n # "workspace"
    BY <1>1, <2>2 DEF Recover, ToRecover, Final, Awaiting
  <2> QED
    BY <2>1, <2>2
<1>7. row \in Row /\ row.built = own.built /\ row.passes = own.passes
  BY <1>2, <1>3 DEF Row
<1> QED
  BY <1>5, <1>6, <1>7 DEF Changed, RowStep, Grounds

LEMMA NextChanges ==
  ASSUME TypeOK, HeldIsCurrent, [Next]_vars
  PROVE  Kept \/ \E n \in Names: \E row: Changed(n, row)
<1>1. CASE \E n \in Names: Lapse(n)
  BY <1>1 DEF Lapse, Kept, TypeOK
<1>2. CASE ChangeRevision \/ Load \/ GiveUp \/ UNCHANGED vars
  BY <1>2 DEF ChangeRevision, Load, GiveUp, vars, Kept, TypeOK
<1>3. Engines \subseteq Names /\ "workspace" \in Names
  BY DEF Engines, Names
<1> QED
  BY <1>1, <1>2, <1>3, WorkspaceChanges, ArtifactChanges, ReviewChanges,
     ProposalChanges, TransactionChanges, RecoveryChanges DEF Next

-----------------------------------------------------------------------------
(* What is approved stays as it is, and so does what rests on it.           *)

Stood(row) == row.life \in {"approved", "archived"}
Alike(row, other) == row.built = other.built /\ row.passes = other.passes
Step == Kept \/ \E n \in Names: \E row: Changed(n, row)

\* Approved rows keep their versions in every step.
LEMMA Stays ==
  ASSUME TypeOK, Step, NEW m \in Engines, Stood(rows[m])
  PROVE  Stood(rows[m])' /\ rows'[m].built = rows[m].built /\ rows'[m].passes = rows[m].passes
<1>1. m \in Names /\ m # "workspace" /\ rows[m] \in Row
  BY DEF Engines, TypeOK
<1>2. CASE rows'[m] = rows[m]
  BY <1>2 DEF Stood
<1>3. CASE rows'[m] # rows[m]
  <2>0. PICK n \in Names: \E row: Changed(n, row)
    BY <1>3 DEF Step, Kept
  <2>1. PICK row: n \in Names /\ Changed(n, row)
    BY <2>0
  <2>2. n = m /\ rows'[m] = row
    BY <1>1, <1>3, <2>1 DEF Changed, Saved, TypeOK
  <2>3. row \in {rows[m], Archived(rows[m])}
    BY <1>1, <2>1, <2>2 DEF Changed, RowStep, Final, Stood
  <2> QED
    BY <1>1, <2>2, <2>3 DEF Archived, Row, Stood
<1> QED
  BY <1>2, <1>3

\* What is approved in a caller's view is so now, or has been archived since.
LEMMA StandsNow ==
  ASSUME TypeOK, HeldStands, BuiltOK, NEW when \in When, NEW m \in Engines,
         View(when)[m].life = "approved"
  PROVE  /\ Stood(rows[m])
         /\ Alike(rows[m], View(when)[m])
         /\ Version(rows[m]) \in Nat \ {0}
<1>1. m \in Names /\ rows[m] \in Row /\ View(when)[m] \in Row
  BY ViewType DEF Engines, TypeOK
<1>2. rows[m] \in {View(when)[m], Archived(View(when)[m])}
  BY DEF View, When, HeldStands
<1>3. Stood(rows[m]) /\ Alike(rows[m], View(when)[m])
  BY <1>1, <1>2 DEF Archived, Row, Stood, Alike
<1>4. rows[m].built # <<>>
  BY <1>3 DEF BuiltOK, Stood
<1> QED
  BY <1>1, <1>3, <1>4 DEF Version, Row

LEMMA AssembledStays ==
  ASSUME TypeOK, Step, NEW basis, Assembled(basis)
  PROVE  Assembled(basis)'
<1>1. Artifacts \union Reviews \subseteq Engines
  BY NamesAssumption DEF Engines, Names
<1>2. ASSUME NEW m \in On(basis, Names)
      PROVE  /\ m \in Artifacts \union Reviews
             /\ Stood(rows[m])'
             /\ rows'[m].built = rows[m].built /\ rows'[m].passes = rows[m].passes
  BY <1>1, <1>2, Stays DEF Assembled, Stood
<1>3. ASSUME NEW m \in On(basis, Names)
      PROVE  /\ rows'[m].life \in {"approved", "archived"}
             /\ rows'[m].passes
             /\ Version(rows'[m]) = basis[m]
  BY <1>2, <1>3 DEF Assembled, Stood, Version
<1>4. ASSUME NEW a \in On(basis, Artifacts)
      PROVE  \E r \in On(basis, Reviews): Subject[r] = a /\ Latest(rows'[r])[a] = basis[a]
  <2>1. PICK r \in On(basis, Reviews): Subject[r] = a /\ Latest(rows[r])[a] = basis[a]
    BY <1>4 DEF Assembled
  <2>2. r \in On(basis, Names)
    BY <2>1 DEF On, Names
  <2> QED
    BY <1>2, <2>1, <2>2 DEF Latest
<1> QED
  BY <1>2, <1>3, <1>4 DEF Assembled

LEMMA PreparedStays ==
  ASSUME TypeOK, Step, NEW basis, Prepared(basis)
  PROVE  Prepared(basis)'
<1>1. "proposal" \in Engines
  BY DEF Engines, Names
<1>2. /\ Stood(rows["proposal"])'
      /\ rows'["proposal"].built = rows["proposal"].built
  BY <1>1, Stays DEF Prepared, Stood
<1> QED
  BY <1>2 DEF Prepared, Stood, Version, Latest

\* What Assemble accepted is approved now, whatever the caller had loaded.
LEMMA AssembledNow ==
  ASSUME TypeOK, HeldStands, BuiltOK, NEW when \in When,
         NEW artifacts \in SUBSET Artifacts, NEW reviews \in SUBSET Reviews,
         ApprovedFor(View(when), artifacts, reviews)
  PROVE  Assembled(Of(artifacts \union reviews, View(when)))
<1> DEFINE view == View(when)
           basis == Of(artifacts \union reviews, view)
<1>1. Artifacts \union Reviews \subseteq Engines /\ Artifacts \union Reviews \subseteq Names
  BY NamesAssumption DEF Engines, Names
<1>2. ASSUME NEW m \in artifacts \union reviews
      PROVE  /\ Stood(rows[m]) /\ Alike(rows[m], view[m])
             /\ rows[m].passes
             /\ basis[m] = Version(rows[m]) /\ basis[m] # 0
  <2>1. view[m].life = "approved" /\ view[m].passes
    BY <1>2 DEF ApprovedFor
  <2>2. Stood(rows[m]) /\ Alike(rows[m], view[m]) /\ Version(rows[m]) \in Nat \ {0}
    BY <1>1, <1>2, <2>1, StandsNow
  <2>3. basis[m] = Version(view[m])
    BY <1>1, <1>2 DEF Of
  <2> QED
    BY <2>1, <2>2, <2>3 DEF Alike, Version
<1>3. ASSUME NEW m \in On(basis, Names)
      PROVE  m \in artifacts \union reviews
  BY <1>3 DEF On, Of
<1>4. ASSUME NEW a \in On(basis, Artifacts)
      PROVE  \E r \in On(basis, Reviews): Subject[r] = a /\ Latest(rows[r])[a] = basis[a]
  <2>1. a \in artifacts \union reviews
    BY <1>1, <1>3, <1>4 DEF On
  <2>2. PICK r \in reviews: Subject[r] = a /\ Latest(view[r])[a] = Version(view[a])
    BY <1>4, <2>1, NamesAssumption DEF ApprovedFor, On
  <2>3. r \in On(basis, Reviews)
    BY <1>2, <2>2 DEF On
  <2>4. Latest(rows[r])[a] = basis[a]
    BY <1>2, <2>1, <2>2 DEF Alike, Latest, Version
  <2> QED
    BY <2>2, <2>3, <2>4
<1> QED
  BY <1>2, <1>3, <1>4 DEF Assembled, Stood

LEMMA PreparedNow ==
  ASSUME TypeOK, HeldStands, BuiltOK, NEW when \in When,
         NEW artifacts \in SUBSET Artifacts, MayPrepare(View(when), artifacts)
  PROVE  Prepared(Of(artifacts \union {"proposal"}, View(when)))
<1> DEFINE view == View(when)
           basis == Of(artifacts \union {"proposal"}, view)
<1>1. /\ "proposal" \in Engines /\ "proposal" \in Names /\ "proposal" \notin Artifacts
      /\ Artifacts \subseteq Names
  BY NamesAssumption DEF Engines, Names
<1>2. view["proposal"].life = "approved"
  BY DEF MayPrepare
<1>3. Stood(rows["proposal"]) /\ Alike(rows["proposal"], view["proposal"])
  BY <1>1, <1>2, StandsNow
<1>4. basis["proposal"] = Version(rows["proposal"])
  BY <1>1, <1>3 DEF Of, Alike, Version
<1>5. ASSUME NEW a \in Artifacts
      PROVE  basis[a] = Latest(rows["proposal"])[a]
  <2>1. basis[a] = Latest(view["proposal"])[a]
    <3>1. CASE a \in artifacts
      BY <1>1, <3>1 DEF Of, MayPrepare
    <3>2. CASE a \notin artifacts
      <4>1. basis[a] = 0
        BY <1>1, <3>2 DEF Of
      <4>2. Latest(view["proposal"])[a] = 0
        BY <3>2 DEF MayPrepare, On
      <4> QED
        BY <4>1, <4>2
    <3> QED
      BY <3>1, <3>2
  <2> QED
    BY <1>3, <2>1 DEF Alike, Latest
<1> QED
  BY <1>3, <1>4, <1>5 DEF Prepared, Stood

-----------------------------------------------------------------------------
(* The invariant.                                                           *)

LEMMA InitInv == Init => IndInv
<1> SUFFICES ASSUME Init PROVE IndInv
  OBVIOUS
<1>1. Absent \in Row
  BY DEF Absent, Row, Lifecycles
<1>2. "proposal" \in Names /\ "transaction" \in Names /\ Engines \subseteq Names
  BY DEF Names, Engines
<1>3. TypeOK
  BY <1>1 DEF Init, TypeOK
<1>4. HeldIsCurrent /\ HeldStands
  BY DEF Init, HeldIsCurrent, HeldStands
<1>5. BuiltOK /\ ProposalStands /\ TransactionStands
  BY <1>2 DEF Init, Absent, BuiltOK, ProposalStands, TransactionStands
<1> QED
  BY <1>3, <1>4, <1>5 DEF IndInv

LEMMA TypeStep ==
  ASSUME TypeOK, Step
  PROVE  TypeOK'
<1>1. CASE Kept
  BY <1>1 DEF Kept, TypeOK
<1>2. ASSUME NEW n \in Names, NEW row, Changed(n, row)
      PROVE  TypeOK'
  <2>1. row \in Row /\ Saved(n, row)
    BY <1>2 DEF Changed, RowStep
  <2>2. rows' \in [Names -> Row]
    BY <2>1 DEF Saved, TypeOK
  <2> QED
    BY <2>1, <2>2 DEF Saved, TypeOK
<1> QED
  BY <1>1, <1>2 DEF Step

LEMMA HeldStep ==
  ASSUME TypeOK, HeldIsCurrent, HeldStands, Step
  PROVE  HeldIsCurrent' /\ HeldStands'
<1>1. CASE Kept
  BY <1>1 DEF Kept, HeldIsCurrent, HeldStands
<1>2. ASSUME NEW n \in Names, NEW row, Changed(n, row), held' # None
      PROVE  HeldIsCurrent' /\ HeldStands'
  <2>1. held # None /\ held' = held /\ moved' = moved \union {n}
    BY <1>2 DEF Changed, Saved
  <2>2. \A m \in Names \ {n}: rows'[m] = rows[m]
    BY <1>2 DEF Changed, Saved, TypeOK
  <2>3. HeldIsCurrent'
    BY <2>1, <2>2 DEF HeldIsCurrent
  <2>4. ASSUME NEW m \in Engines, held.rows[m].life = "approved"
        PROVE  rows'[m] \in {held.rows[m], Archived(held.rows[m])}
    <3>1. m \in Names /\ m # "workspace" /\ held.rows[m] \in Row
      BY <2>1 DEF Engines, TypeOK
    <3>2. rows[m] \in {held.rows[m], Archived(held.rows[m])}
      BY <2>1, <2>4 DEF HeldStands
    <3>3. rows[m].life \in Final(m) /\ Archived(rows[m]) = Archived(held.rows[m])
      BY <2>4, <3>1, <3>2 DEF Final, Archived, Row
    <3>4. rows'[m] \in {rows[m], Archived(rows[m])}
      <4>1. CASE m = n
        BY <1>2, <3>3, <4>1 DEF Changed, Saved, RowStep, TypeOK
      <4>2. CASE m # n
        BY <2>2, <3>1, <4>2
      <4> QED
        BY <4>1, <4>2
    <3> QED
      BY <3>2, <3>3, <3>4
  <2> QED
    BY <2>1, <2>3, <2>4 DEF HeldStands
<1> QED
  BY <1>1, <1>2 DEF Step, HeldIsCurrent, HeldStands

LEMMA BuiltStep ==
  ASSUME TypeOK, BuiltOK, Step
  PROVE  BuiltOK'
<1> SUFFICES ASSUME NEW m \in Engines, rows'[m].life # "absent"
             PROVE  rows'[m].built # <<>>
  BY DEF BuiltOK
<1>1. m \in Names /\ m # "workspace" /\ rows[m] \in Row
  BY DEF Engines, TypeOK
<1>2. CASE rows'[m] = rows[m]
  BY <1>2 DEF BuiltOK
<1>3. CASE rows'[m] # rows[m]
  <2>0. PICK n \in Names: \E row: Changed(n, row)
    BY <1>3 DEF Step, Kept
  <2>1. PICK row: n \in Names /\ Changed(n, row)
    BY <2>0
  <2>2. n = m /\ rows'[m] = row
    BY <1>1, <1>3, <2>1 DEF Changed, Saved, TypeOK
  <2>3. \/ row.built = rows[m].built /\ rows[m].life # "absent"
        \/ \E basis \in Basis: row.built = Append(rows[m].built, basis)
    BY <1>1, <2>1, <2>2 DEF Changed, RowStep
  <2>4. rows[m].built \in Seq(Basis)
    BY <1>1 DEF Row
  <2> QED
    BY <2>2, <2>3, <2>4 DEF BuiltOK
<1> QED
  BY <1>2, <1>3

LEMMA ProposalPreserved ==
  ASSUME TypeOK, HeldStands, BuiltOK, ProposalStands, Step
  PROVE  ProposalStands'
<1> SUFFICES ASSUME NEW v \in DOMAIN rows'["proposal"].built
             PROVE  Assembled(rows["proposal"].built[v])'
  BY DEF ProposalStands
<1>1. "proposal" \in Names /\ rows["proposal"] \in Row
  BY DEF Names, TypeOK
<1>2. PICK basis: basis = rows'["proposal"].built[v]
  OBVIOUS
<1>3. ASSUME v \in DOMAIN rows["proposal"].built, basis = rows["proposal"].built[v]
      PROVE  Assembled(basis)
  BY <1>3 DEF ProposalStands
<1>4. Assembled(basis)
  <2>1. CASE rows'["proposal"].built = rows["proposal"].built
    BY <1>2, <1>3, <2>1
  <2>2. CASE rows'["proposal"].built # rows["proposal"].built
    <3>0. PICK n \in Names: \E row: Changed(n, row)
      BY <2>2 DEF Step, Kept
    <3>1. PICK row: n \in Names /\ Changed(n, row)
      BY <3>0
    <3>2. n = "proposal" /\ rows'[n] = row
      BY <1>1, <2>2, <3>1 DEF Changed, Saved, TypeOK
    <3>3. PICK artifacts \in SUBSET Artifacts, reviews \in SUBSET Reviews, when \in When:
            /\ ApprovedFor(View(when), artifacts, reviews)
            /\ row.built = Append(rows[n].built, Of(artifacts \union reviews, View(when)))
      BY <2>2, <3>1, <3>2 DEF Changed, Grounds
    <3>4. \/ v \in DOMAIN rows[n].built /\ basis = rows[n].built[v]
          \/ basis = Of(artifacts \union reviews, View(when))
      BY <1>1, <1>2, <3>2, <3>3 DEF Row
    <3>5. Assembled(Of(artifacts \union reviews, View(when)))
      BY <3>3, AssembledNow
    <3> QED
      BY <1>3, <3>2, <3>4, <3>5
  <2> QED
    BY <2>1, <2>2
<1>5. Assembled(basis)'
  BY <1>4, AssembledStays
<1> QED
  BY <1>2, <1>5

LEMMA TransactionPreserved ==
  ASSUME TypeOK, HeldStands, BuiltOK, TransactionStands, Step
  PROVE  TransactionStands'
<1> SUFFICES ASSUME NEW v \in DOMAIN rows'["transaction"].built
             PROVE  Prepared(rows["transaction"].built[v])'
  BY DEF TransactionStands
<1>1. "transaction" \in Names /\ rows["transaction"] \in Row
  BY DEF Names, TypeOK
<1>2. PICK basis: basis = rows'["transaction"].built[v]
  OBVIOUS
<1>3. ASSUME v \in DOMAIN rows["transaction"].built,
             basis = rows["transaction"].built[v]
      PROVE  Prepared(basis)
  BY <1>3 DEF TransactionStands
<1>4. Prepared(basis)
  <2>1. CASE rows'["transaction"].built = rows["transaction"].built
    BY <1>2, <1>3, <2>1
  <2>2. CASE rows'["transaction"].built # rows["transaction"].built
    <3>0. PICK n \in Names: \E row: Changed(n, row)
      BY <2>2 DEF Step, Kept
    <3>1. PICK row: n \in Names /\ Changed(n, row)
      BY <3>0
    <3>2. n = "transaction" /\ rows'[n] = row
      BY <1>1, <2>2, <3>1 DEF Changed, Saved, TypeOK
    <3>3. PICK artifacts \in SUBSET Artifacts, when \in When:
            /\ MayPrepare(View(when), artifacts)
            /\ row.built = Append(rows[n].built,
                                  Of(artifacts \union {"proposal"}, View(when)))
      BY <2>2, <3>1, <3>2 DEF Changed, Grounds
    <3>4. \/ v \in DOMAIN rows[n].built /\ basis = rows[n].built[v]
          \/ basis = Of(artifacts \union {"proposal"}, View(when))
      BY <1>1, <1>2, <3>2, <3>3 DEF Row
    <3>5. Prepared(Of(artifacts \union {"proposal"}, View(when)))
      BY <3>3, PreparedNow
    <3> QED
      BY <1>3, <3>2, <3>4, <3>5
  <2> QED
    BY <2>1, <2>2
<1>5. Prepared(basis)'
  BY <1>4, PreparedStays
<1> QED
  BY <1>2, <1>5

LEMMA StepInv == IndInv /\ [Next]_vars => IndInv'
<1> SUFFICES ASSUME IndInv, [Next]_vars PROVE IndInv'
  OBVIOUS
<1>1. Step
  BY NextChanges DEF IndInv, Step
<1> QED
  BY <1>1, TypeStep, HeldStep, BuiltStep, ProposalPreserved, TransactionPreserved DEF IndInv

LEMMA Invariance == Spec => []IndInv
BY InitInv, StepInv, PTL DEF Spec

\* The state of a workspace and its engines is well formed.
THEOREM TypeCorrect == Spec => []TypeOK
<1>1. IndInv => TypeOK
  BY DEF IndInv
<1> QED
  BY <1>1, Invariance, PTL

\* What a proposal was assembled from stays as it was approved, and a
\* transaction is prepared from that proposal: the services' assembly and
\* preparation look at rows loaded earlier, the procedures check the present.
THEOREM ReviewedBeforeApplied == Spec => []AppliedWasReviewed
<1>1. IndInv => AppliedWasReviewed
  <2> SUFFICES ASSUME IndInv PROVE AppliedWasReviewed
    OBVIOUS
  <2>1. ASSUME NEW v \in DOMAIN rows["proposal"].built
        PROVE  Assembled(rows["proposal"].built[v])
    BY DEF IndInv, ProposalStands
  <2>2. ASSUME NEW v \in DOMAIN rows["transaction"].built
        PROVE  Prepared(rows["transaction"].built[v])
    BY DEF IndInv, TransactionStands
  <2> QED
    BY <2>1, <2>2 DEF AppliedWasReviewed, Assembled, Prepared
<1> QED
  BY <1>1, Invariance, PTL

\* No save of an engine overwrites a version that another has saved.
THEOREM VersionsKept == Spec => HistoryKept
<1> DEFINE Added ==
      \A n \in Names: \A v \in DOMAIN rows[n].built:
        v \in DOMAIN rows'[n].built /\ rows'[n].built[v] = rows[n].built[v]
<1>1. IndInv /\ [Next]_vars => Added
  <2> SUFFICES ASSUME IndInv, [Next]_vars, NEW m \in Names,
                      NEW v \in DOMAIN rows[m].built
               PROVE  v \in DOMAIN rows'[m].built
                      /\ rows'[m].built[v] = rows[m].built[v]
    OBVIOUS
  <2>1. rows[m] \in Row /\ Step
    BY NextChanges DEF IndInv, TypeOK, Step
  <2>2. CASE rows'[m].built = rows[m].built
    BY <2>2
  <2>3. CASE rows'[m].built # rows[m].built
    <3>0. PICK n \in Names: \E row: Changed(n, row)
      BY <2>1, <2>3 DEF Step, Kept
    <3>1. PICK row: n \in Names /\ Changed(n, row)
      BY <3>0
    <3>2. n = m /\ rows'[m] = row
      BY <2>3, <3>1 DEF Changed, Saved, IndInv, TypeOK
    <3>3. \E basis \in Basis: row.built = Append(rows[m].built, basis)
      BY <2>3, <3>1, <3>2 DEF Changed, RowStep
    <3> QED
      BY <2>1, <3>2, <3>3 DEF Row
  <2> QED
    BY <2>2, <2>3
<1>2. []IndInv /\ [][Next]_vars => [][Added]_vars
  <2>1. IndInv /\ [Next]_vars => [Added]_vars
    BY <1>1
  <2> QED
    BY <2>1, PTL
<1> QED
  BY <1>2, Invariance, PTL DEF Spec, HistoryKept

\* What is approved, ready, expired or archived is never brought back.
THEOREM DecidedForGood == Spec => DecisionsStand
<1> DEFINE Standing ==
      \A n \in Names:
        rows[n].life \in (IF n = "workspace" THEN Terminal(n)
                          ELSE {"approved", "ready", "expired", "archived"}) =>
          rows'[n] \in {rows[n], [rows[n] EXCEPT !.life = "archived"]}
<1>1. IndInv /\ [Next]_vars => Standing
  <2> SUFFICES ASSUME IndInv, [Next]_vars, NEW m \in Names, rows[m].life \in Final(m)
               PROVE  rows'[m] \in {rows[m], Archived(rows[m])}
    BY DEF Final, Archived
  <2>1. Step
    BY NextChanges DEF IndInv, Step
  <2>2. CASE rows'[m] # rows[m]
    <3>0. PICK n \in Names: \E row: Changed(n, row)
      BY <2>1, <2>2 DEF Step, Kept
    <3>1. PICK row: n \in Names /\ Changed(n, row)
      BY <3>0
    <3>2. n = m /\ rows'[m] = row
      BY <2>2, <3>1 DEF Changed, Saved, IndInv, TypeOK
    <3> QED
      BY <3>1, <3>2 DEF Changed, RowStep
  <2> QED
    BY <2>2
<1>2. []IndInv /\ [][Next]_vars => [][Standing]_vars
  <2>1. IndInv /\ [Next]_vars => [Standing]_vars
    BY <1>1
  <2> QED
    BY <2>1, PTL
<1> QED
  BY <1>2, Invariance, PTL DEF Spec, DecisionsStand
-----------------------------------------------------------------------------
(* Decisions that arrive late.                                              *)

\* A row that a decision could have been taken on has been saved: it is not
\* decided, or it is so on the version its author saw.
Seen(m) ==
  rows[m].life = Awaiting(m) /\ rows'[m].life \in Decisions(m) /\ held # None /\ held' = None
    => Version(held.rows[m]) = Version(rows[m])

LEMMA UndecidedIsSeen ==
  ASSUME TypeOK, NEW m \in Engines,
         rows' = rows \/ \E n \in Names, row \in Row:
                           rows' = [rows EXCEPT ![n] = row] /\ row.life \notin Decisions(n)
  PROVE  Seen(m)
<1>1. Awaiting(m) \notin Decisions(m)
  BY DEF Awaiting, Decisions
<1>2. m \in Names /\ rows \in [Names -> Row]
  BY DEF Engines, TypeOK
<1> QED
  BY <1>1, <1>2 DEF Seen

LEMMA DecisionIsSeen ==
  ASSUME TypeOK, HeldIsCurrent, NEW m \in Engines, NEW n \in Engines, NEW when \in When,
         NEW decision, Decide(n, when, Version(View(when)[n]), decision)
  PROVE  Seen(m)
<1>1. m \in Names /\ n \in Names /\ Awaiting(m) \notin Decisions(m)
  BY DEF Engines, Awaiting, Decisions
<1> DEFINE row == [Own(n, when) EXCEPT !.life = decision]
<1>2. Save(n, when, row, overdue \ {n}) /\ overdue \ {n} \in SUBSET Names
  BY DEF Decide, Move, Replace, TypeOK
<1>3. Own(n, when) = rows[n]
  BY <1>1, <1>2, SavedNow
<1>4. rows' = [rows EXCEPT ![n] = row] /\ (when = "now" => held' = held)
  BY <1>2 DEF Save
<1>5. CASE n # m
  BY <1>1, <1>4, <1>5 DEF Seen, TypeOK
<1>6. CASE n = m
  <2>1. when # "now" => View(when) = held.rows
    BY DEF View
  <2>2. Version(Own(n, when)) = Version(View(when)[n])
    BY DEF Decide
  <2> QED
    BY <1>3, <1>4, <1>6, <2>1, <2>2 DEF Seen
<1> QED
  BY <1>5, <1>6

LEMMA UndecidedMove ==
  ASSUME TypeOK, HeldIsCurrent, NEW m \in Engines, NEW n \in Names, NEW when \in When,
         NEW life \in Lifecycles, life \notin Decisions(n), NEW late,
         Save(n, when, [Own(n, when) EXCEPT !.life = life], late)
  PROVE  Seen(m)
<1> DEFINE row == [Own(n, when) EXCEPT !.life = life]
<1>1. Own(n, when) \in Row
  BY DEF Own, TypeOK, When
<1>2. row \in Row /\ row.life = life
  BY <1>1 DEF Row
<1>3. rows' = [rows EXCEPT ![n] = row]
  BY DEF Save
<1> QED
  BY <1>2, <1>3, UndecidedIsSeen

LEMMA UndecidedVersion ==
  ASSUME TypeOK, HeldIsCurrent, NEW m \in Engines, NEW n \in Engines, NEW when \in When,
         NEW life \in Lifecycles, life \notin Decisions(n), NEW basis \in Basis,
         NEW passes \in BOOLEAN, NewVersion(n, when, life, basis, passes)
  PROVE  Seen(m)
<1> DEFINE row == [life |-> life, built |-> Append(Own(n, when).built, basis),
                   passes |-> passes]
<1>1. n \in Names
  BY DEF Engines
<1>2. Own(n, when) \in Row
  BY <1>1 DEF Own, TypeOK, When
<1>3. row \in Row /\ row.life = life
  BY <1>2 DEF Row
<1>4. rows' = [rows EXCEPT ![n] = row]
  BY DEF NewVersion, Replace, Save
<1> QED
  BY <1>1, <1>3, <1>4, UndecidedIsSeen

\* Who decides late decides on what they saw, or is refused: the version they
\* saw is compared when the decision is worked out, the row's when it is saved.
LEMMA SeenStep ==
  ASSUME TypeOK, HeldIsCurrent, [Next]_vars
  PROVE  DecidedAsSeen
<1> SUFFICES ASSUME NEW m \in Engines PROVE Seen(m)
  BY DEF DecidedAsSeen, Seen, Engines
<1>1. \A n: {"awaiting_review", "awaiting_decision", "awaiting_confirmation", "archived",
             "expired"} \intersect Decisions(n) = {}
  BY DEF Decisions
<1>2. ASSUME NEW n \in Engines, NEW when \in When, Archive(n, when) PROVE Seen(m)
  BY <1>1, <1>2, UndecidedMove DEF Archive, Move, Replace, Lifecycles, Engines
<1>3. CASE WorkspaceStep
  <2>1. PICK row: Changed("workspace", row)
    BY <1>3, WorkspaceChanges
  <2>2. rows' = [rows EXCEPT !["workspace"] = row] /\ m # "workspace" /\ m \in Names
    BY <2>1 DEF Changed, Saved, Engines
  <2>3. rows'[m] = rows[m] /\ Awaiting(m) \notin Decisions(m)
    BY <2>2 DEF TypeOK, Awaiting, Decisions
  <2> QED
    BY <2>3 DEF Seen
<1>4. ASSUME NEW when \in When, ArtifactStep(when) PROVE Seen(m)
  <2>1. PICK a \in Artifacts:
          \/ Generate(a, when)
          \/ \E decision \in Decisions(a): ReviewArtifact(a, when, decision)
          \/ ArchiveArtifact(a, when)
    BY <1>4 DEF ArtifactStep
  <2>2. a \in Engines
    BY NamesAssumption DEF Engines, Names
  <2>3. CASE Generate(a, when)
    <3>1. Of({"workspace"}, View(when)) \in Basis
      BY ViewType, OfType
    <3> QED
      BY <1>1, <2>2, <2>3, <3>1, UndecidedVersion DEF Generate, Lifecycles
  <2>4. CASE \E decision \in Decisions(a): ReviewArtifact(a, when, decision)
    BY <2>2, <2>4, DecisionIsSeen DEF ReviewArtifact
  <2> QED
    BY <1>2, <2>1, <2>2, <2>3, <2>4 DEF ArchiveArtifact
<1>5. ASSUME NEW when \in When, ReviewStep(when) PROVE Seen(m)
  <2>1. PICK r \in Reviews:
          \/ \E passes \in BOOLEAN: CreateReview(r, when, passes)
          \/ \E verdict \in Decisions(r): DecideReview(r, when, verdict)
          \/ ArchiveReview(r, when)
    BY <1>5 DEF ReviewStep
  <2>2. r \in Engines
    BY NamesAssumption DEF Engines, Names
  <2>3. ASSUME NEW passes \in BOOLEAN, CreateReview(r, when, passes) PROVE Seen(m)
    <3>1. Of({Subject[r]}, View(when)) \in Basis
      BY ViewType, OfType
    <3> QED
      BY <1>1, <2>2, <2>3, <3>1, UndecidedVersion DEF CreateReview, Lifecycles
  <2>4. CASE \E verdict \in Decisions(r): DecideReview(r, when, verdict)
    BY <2>2, <2>4, DecisionIsSeen DEF DecideReview
  <2> QED
    BY <1>2, <2>1, <2>2, <2>3, <2>4 DEF ArchiveReview
<1>6. ASSUME NEW when \in When, ProposalStep(when) PROVE Seen(m)
  <2>1. "proposal" \in Engines
    BY DEF Engines, Names
  <2>2. ASSUME NEW artifacts \in SUBSET Artifacts, NEW reviews \in SUBSET Reviews,
               Assemble(artifacts, reviews, when)
        PROVE  Seen(m)
    <3>1. Of(artifacts \union reviews, View(when)) \in Basis
      BY ViewType, OfType
    <3>2. NewVersion("proposal", when, "awaiting_review",
                     Of(artifacts \union reviews, View(when)), TRUE)
      BY <2>2 DEF Assemble
    <3> QED
      BY <1>1, <2>1, <3>1, <3>2, UndecidedVersion DEF Lifecycles
  <2>3. CASE \E verdict \in Decisions("proposal"): DecideProposal(when, verdict)
    BY <2>1, <2>3, DecisionIsSeen DEF DecideProposal
  <2> QED
    BY <1>2, <1>6, <2>1, <2>2, <2>3 DEF ProposalStep, ArchiveProposal
<1>7. ASSUME NEW when \in When, TransactionStep(when) PROVE Seen(m)
  <2>1. "transaction" \in Engines
    BY DEF Engines, Names
  <2>2. ASSUME NEW artifacts \in SUBSET Artifacts, PrepareTransaction(artifacts, when)
        PROVE  Seen(m)
    <3>1. Of(artifacts \union {"proposal"}, View(when)) \in Basis
      BY ViewType, OfType
    <3>2. NewVersion("transaction", when, "awaiting_confirmation",
                     Of(artifacts \union {"proposal"}, View(when)), TRUE)
      BY <2>2 DEF PrepareTransaction
    <3> QED
      BY <1>1, <2>1, <3>1, <3>2, UndecidedVersion DEF Lifecycles
  <2>3. CASE \E decision \in Decisions("transaction"): Confirm(when, decision)
    BY <2>1, <2>3, DecisionIsSeen DEF Confirm
  <2> QED
    BY <1>2, <1>7, <2>1, <2>2, <2>3 DEF TransactionStep, ArchiveTransaction
<1>8. CASE RecoveryStep
  <2>1. PICK when \in When, n \in Names: Recover(n, when)
    BY <1>8 DEF RecoveryStep, RecoverWorkspace, RecoverProposal, RecoverTransaction,
                RecoverArtifact, RecoverReview, Names
  <2>2. Recovered(n, when) \in Lifecycles \ Decisions(n)
    BY <1>1 DEF Recovered, Lifecycles, Decisions
  <2> QED
    BY <2>1, <2>2, UndecidedMove DEF Recover
<1>9. CASE (\E n \in Names: Lapse(n)) \/ ChangeRevision \/ Load \/ GiveUp \/ UNCHANGED vars
  BY <1>9, UndecidedIsSeen DEF Lapse, ChangeRevision, Load, GiveUp, vars
<1> QED
  BY <1>3, <1>4, <1>5, <1>6, <1>7, <1>8, <1>9 DEF Next

\* Whoever decides on an artifact, a review, the proposal or the transaction
\* decides on the version they saw, however late the decision arrives.
THEOREM SeenDecided == Spec => [][DecidedAsSeen]_vars
<1>1. IndInv /\ [Next]_vars => DecidedAsSeen
  BY SeenStep DEF IndInv
<1> QED
  BY <1>1, Invariance, PTL DEF Spec
=============================================================================
