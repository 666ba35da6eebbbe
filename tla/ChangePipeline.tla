--------------------------- MODULE ChangePipeline ---------------------------
(***************************************************************************)
(* One workspace and what is built on it: its patches, the artifacts made   *)
(* of the latest patch, the quality reviews of artifacts, the change        *)
(* proposal assembled of approved artifacts and reviews, and the apply      *)
(* transaction prepared from the approved proposal.  Each is one row of a   *)
(* table; an operation of its engine loads the row, works out the new row   *)
(* on inputs its caller loaded earlier, and saves it with a procedure that  *)
(* checks the row's version and what it rests on.                           *)
(*                                                                          *)
(* A caller may be slow: held is what it loaded, moved the rows that others *)
(* have saved since.  A row's content is what its versions were built on;   *)
(* the owner, the claim token of the only lease a workspace ever gets, the  *)
(* conflict analysis of operations and retention are left out.  A patch, as *)
(* patchHistory is no less than patchesPerWorkspace, is never dropped.      *)
(***************************************************************************)
EXTENDS Naturals, Sequences

CONSTANTS
  Artifacts,
  Reviews,
  Subject,     \* the artifact a review is about
  MaxVersion,  \* of each row: patchesPerWorkspace, versionsPerArtifact, ...
  SlowCallers, \* whether there are any
  None

Names == {"workspace", "proposal", "transaction"} \union Artifacts \union Reviews

ASSUME NamesAssumption ==
  /\ {"workspace", "proposal", "transaction"} \intersect (Artifacts \union Reviews) = {}
  /\ Artifacts \intersect Reviews = {}
  /\ Subject \in [Reviews -> Artifacts]
  /\ MaxVersion \in [Names -> Nat]

VARIABLES
  rows,       \* the stored rows
  overdue,    \* the rows whose lease or time to live has run out
  published,  \* the rows' revision is the repository's, which is not being deleted
  held,       \* what a slow caller loaded
  moved       \* the rows saved since it loaded them

vars == <<rows, overdue, published, held, moved>>

Lifecycles ==
  {"absent", "created", "preparing", "ready", "leased", "active", "validating",
   "failed", "cancelled", "awaiting_review", "awaiting_decision",
   "awaiting_confirmation", "changes_requested", "approved", "rejected",
   "archived", "expired"}

\* What a version of a row was built on: versions of other rows, 0 for none.
Basis == [Names -> Nat]
Row == [life: Lifecycles, built: Seq(Basis), passes: BOOLEAN]
Absent == [life |-> "absent", built |-> <<>>, passes |-> TRUE]

Version(row) == Len(row.built)
Latest(row) == row.built[Len(row.built)]
Of(names, view) == [n \in Names |-> IF n \in names THEN Version(view[n]) ELSE 0]
On(basis, kinds) == {n \in kinds: basis[n] # 0}
Live(view) == view["workspace"].life \in {"active", "validating"}

TypeOK ==
  /\ rows \in [Names -> Row]
  /\ overdue \subseteq Names
  /\ published \in BOOLEAN
  /\ held = None \/ held \in [rows: [Names -> Row], overdue: SUBSET Names]
  /\ moved \subseteq Names

Init ==
  /\ rows = [n \in Names |-> Absent]
  /\ overdue = {}
  /\ published = TRUE
  /\ held = None
  /\ moved = {}

-----------------------------------------------------------------------------
(* Saving a row.                                                            *)

Prior(n) == rows[n].life # "absent"

\* What a version was built on is approved and unchanged.
Stands(basis, kinds) ==
  \A n \in On(basis, kinds):
    rows[n].life = "approved" /\ Version(rows[n]) = basis[n]

AcceptsArtifact(n, row) ==
  Live(rows) \/ (row.life \in {"archived", "expired"} /\ Prior(n))
AcceptsReview(n, row) ==
  \/ rows[Subject[n]].life = "awaiting_review" /\ Live(rows)
  \/ /\ row.life \in {"approved", "changes_requested", "rejected", "archived", "expired"}
     /\ Prior(n)
AcceptsProposal(row) ==
  /\ \/ Live(rows)
     \/ row.life \in {"approved", "rejected", "archived", "expired"} /\ Prior("proposal")
  /\ \A v \in DOMAIN row.built: Stands(row.built[v], Artifacts \union Reviews)
AcceptsTransaction(row) ==
  /\ \/ rows["proposal"].life = "approved" /\ Live(rows)
     \/ row.life \in {"ready", "cancelled", "expired", "archived"} /\ Prior("transaction")
  /\ \A v \in DOMAIN row.built:
       /\ Version(rows["proposal"]) = row.built[v]["proposal"]
       /\ Stands(row.built[v], Artifacts)

Accepts(n, row) ==
  /\ published
  /\ n \in Artifacts => AcceptsArtifact(n, row)
  /\ n \in Reviews => AcceptsReview(n, row)
  /\ n = "proposal" => AcceptsProposal(row)
  /\ n = "transaction" => AcceptsTransaction(row)

\* What the caller loaded ("now": just now), and the row itself, which the
\* operation loads again unless the caller was slow in the operation ("all").
When == IF held = None THEN {"now"} ELSE {"now", "inputs", "all"}
View(when) == IF when = "now" THEN rows ELSE held.rows
Own(n, when) == IF when = "all" THEN held.rows[n] ELSE rows[n]

\* mutant: a save does not compare the version it loaded
VersionHeldAnyway(n, when) == TRUE
VersionHeld(n, when) == when = "all" => n \notin moved

Save(n, when, row, late) ==
  /\ VersionHeld(n, when)
  /\ Accepts(n, row)
  /\ rows' = [rows EXCEPT ![n] = row]
  /\ overdue' = late
  /\ held' = IF when = "now" THEN held ELSE None
  /\ moved' = IF when = "now" /\ held # None THEN moved \union {n} ELSE {}
  /\ UNCHANGED published

Replace(n, when, row) == Save(n, when, row, overdue \ {n})
Move(n, when, life) == Replace(n, when, [Own(n, when) EXCEPT !.life = life])

-----------------------------------------------------------------------------
(* The workspace.                                                           *)

Fenced(when) ==
  /\ Own("workspace", when).life \in {"leased", "active", "validating"}
  /\ "workspace" \notin (IF when = "all" THEN held.overdue ELSE overdue)

\* The lease is kept, with the time it ends at.
Keep(when, life, built) ==
  Save("workspace", when,
       [Own("workspace", when) EXCEPT !.life = life, !.built = built], overdue)

CreateWorkspace(when) ==
  /\ Own("workspace", when).life = "absent"
  /\ Move("workspace", when, "created")

Prepare(when) ==
  /\ Own("workspace", when).life = "created"
  /\ Move("workspace", when, "preparing")

MarkReady(when) ==
  /\ Own("workspace", when).life = "preparing"
  /\ Move("workspace", when, "ready")

Claim(when) ==
  /\ Own("workspace", when).life = "ready"
  /\ Move("workspace", when, "leased")

Activate(when) ==
  /\ Fenced(when)
  /\ Own("workspace", when).life = "leased"
  /\ Keep(when, "active", Own("workspace", when).built)

Heartbeat(when) ==
  /\ Fenced(when)
  /\ Replace("workspace", when, Own("workspace", when))

BeginValidation(when) ==
  /\ Fenced(when)
  /\ Own("workspace", when).life = "active"
  /\ Keep(when, "validating", Own("workspace", when).built)

GeneratePatch(when) ==
  LET row == Own("workspace", when) IN
  /\ Fenced(when)
  /\ row.life \in {"active", "validating"}
  /\ Version(row) < MaxVersion["workspace"]
  /\ Keep(when, "active", Append(row.built, Of({}, rows)))

\* A call that is refused saves a diagnostic.
RejectCall(when) ==
  LET row == Own("workspace", when) IN
  /\ row.life # "absent"
  /\ Save("workspace", when, row,
          IF row.life = "preparing" THEN overdue \ {"workspace"} ELSE overdue)

Transition(when, life) ==
  /\ Own("workspace", when).life \in
       IF life = "archived" THEN {"ready", "active"}
       ELSE {"created", "preparing", "ready", "leased", "active", "validating"}
  /\ Move("workspace", when, life)

WorkspaceStep ==
  \E when \in When \ {"inputs"}:
    \/ CreateWorkspace(when) \/ Prepare(when) \/ MarkReady(when) \/ Claim(when)
    \/ Activate(when) \/ Heartbeat(when) \/ BeginValidation(when)
    \/ GeneratePatch(when) \/ RejectCall(when)
    \/ \E life \in {"archived", "failed", "cancelled"}: Transition(when, life)

-----------------------------------------------------------------------------
(* Artifacts, reviews, the proposal and the transaction.                    *)

NewVersion(n, when, life, basis, passes) ==
  LET row == Own(n, when) IN
  /\ Version(row) < MaxVersion[n]
  /\ Replace(n, when, [life |-> life, built |-> Append(row.built, basis), passes |-> passes])

\* mutant: what was decided may get a new version
GenerateAgain(a, when) ==
  /\ Live(View(when))
  /\ Version(View(when)["workspace"]) > 0
  /\ NewVersion(a, when, "awaiting_review", Of({"workspace"}, View(when)), TRUE)
\* An artifact of the latest patch.
MayGenerate(view) == Live(view) /\ Version(view["workspace"]) > 0
Generate(a, when) ==
  /\ MayGenerate(View(when))
  /\ Own(a, when).life \in {"absent", "awaiting_review"}
  /\ NewVersion(a, when, "awaiting_review", Of({"workspace"}, View(when)), TRUE)

\* A review of an artifact that was made of the latest patch; the gates are
\* passed or not.
MayReview(r, view) ==
  /\ Live(view)
  /\ view[Subject[r]].life = "awaiting_review"
  /\ Latest(view[Subject[r]])["workspace"] = Version(view["workspace"])
CreateReview(r, when, passes) ==
  /\ MayReview(r, View(when))
  /\ Own(r, when).life \in {"absent", "changes_requested"}
  /\ NewVersion(r, when, "awaiting_decision", Of({Subject[r]}, View(when)), passes)

\* mutant: an artifact needs no review of its own
ApprovedForSome(view, artifacts, reviews) ==
  /\ \A n \in artifacts \union reviews: view[n].life = "approved" /\ view[n].passes
  /\ {Subject[r] : r \in reviews} \subseteq artifacts
  /\ \A r \in reviews: Latest(view[r])[Subject[r]] = Version(view[Subject[r]])
\* Every artifact is approved, and so is a review of that very version of it.
ApprovedFor(view, artifacts, reviews) ==
  /\ \A n \in artifacts \union reviews: view[n].life = "approved" /\ view[n].passes
  /\ artifacts = {Subject[r] : r \in reviews}
  /\ \A r \in reviews: Latest(view[r])[Subject[r]] = Version(view[Subject[r]])

\* mutant: an approved proposal may be assembled again
AssembleAgain(artifacts, reviews, when) ==
  /\ artifacts # {}
  /\ Live(View(when))
  /\ ApprovedFor(View(when), artifacts, reviews)
  /\ Own("proposal", when).life \in {"absent", "rejected", "approved"}
  /\ NewVersion("proposal", when, "awaiting_review",
                Of(artifacts \union reviews, View(when)), TRUE)
Assemble(artifacts, reviews, when) ==
  LET view == View(when) IN
  /\ artifacts # {}
  /\ Live(view)
  /\ ApprovedFor(view, artifacts, reviews)
  /\ Own("proposal", when).life \in {"absent", "rejected"}
  /\ NewVersion("proposal", when, "awaiting_review",
                Of(artifacts \union reviews, view), TRUE)

\* All that the approved proposal was assembled from, and nothing else.
MayPrepare(view, artifacts) ==
  LET basis == Latest(view["proposal"]) IN
  /\ Live(view)
  /\ view["proposal"].life = "approved"
  /\ artifacts = On(basis, Artifacts)
  /\ \A a \in artifacts: view[a].life = "approved" /\ Version(view[a]) = basis[a]
PrepareTransaction(artifacts, when) ==
  LET view == View(when) IN
  /\ MayPrepare(view, artifacts)
  /\ Own("transaction", when).life \in {"absent", "cancelled"}
  /\ NewVersion("transaction", when, "awaiting_confirmation",
                Of(artifacts \union {"proposal"}, view), TRUE)

Awaiting(n) ==
  IF n \in Artifacts THEN "awaiting_review" ELSE
  IF n \in Reviews THEN "awaiting_decision" ELSE
  IF n = "proposal" THEN "awaiting_review" ELSE "awaiting_confirmation"
Decisions(n) ==
  IF n \in Reviews THEN {"approved", "changes_requested", "rejected"} ELSE
  IF n = "transaction" THEN {"ready", "cancelled"} ELSE {"approved", "rejected"}
Archivable(n) == (Decisions(n) \ {"changes_requested"}) \union {"expired"}
Terminal(n) ==
  IF n = "workspace" THEN {"archived", "expired", "failed", "cancelled"}
  ELSE Archivable(n) \union {"archived"}

\* mutant: a decision is taken on the version that is current when it is saved
DecideLoose(n, when, version, decision) ==
  /\ Own(n, when).life = Awaiting(n)
  /\ Move(n, when, decision)
\* For the version the caller saw.
Decide(n, when, version, decision) ==
  /\ Own(n, when).life = Awaiting(n)
  /\ Version(Own(n, when)) = version
  /\ Move(n, when, decision)

Archive(n, when) ==
  /\ Own(n, when).life \in Archivable(n)
  /\ Move(n, when, "archived")

ReviewArtifact(a, when, decision) ==
  Decide(a, when, Version(View(when)[a]), decision)
DecideReview(r, when, verdict) ==
  Decide(r, when, Version(View(when)[r]), verdict)
DecideProposal(when, verdict) ==
  Decide("proposal", when, Version(View(when)["proposal"]), verdict)
Confirm(when, decision) ==
  Decide("transaction", when, Version(View(when)["transaction"]), decision)
ArchiveArtifact(a, when) == Archive(a, when)
ArchiveReview(r, when) == Archive(r, when)
ArchiveProposal(when) == Archive("proposal", when)
ArchiveTransaction(when) == Archive("transaction", when)

ArtifactStep(when) ==
  \E a \in Artifacts:
    \/ Generate(a, when)
    \/ \E decision \in Decisions(a): ReviewArtifact(a, when, decision)
    \/ ArchiveArtifact(a, when)
ReviewStep(when) ==
  \E r \in Reviews:
    \/ \E passes \in BOOLEAN: CreateReview(r, when, passes)
    \/ \E verdict \in Decisions(r): DecideReview(r, when, verdict)
    \/ ArchiveReview(r, when)
ProposalStep(when) ==
  \/ \E artifacts \in SUBSET Artifacts, reviews \in SUBSET Reviews:
       Assemble(artifacts, reviews, when)
  \/ \E verdict \in Decisions("proposal"): DecideProposal(when, verdict)
  \/ ArchiveProposal(when)
TransactionStep(when) ==
  \/ \E artifacts \in SUBSET Artifacts: PrepareTransaction(artifacts, when)
  \/ \E decision \in Decisions("transaction"): Confirm(when, decision)
  \/ ArchiveTransaction(when)

-----------------------------------------------------------------------------
(* Recovery at start-up, time, revisions and slow callers.                  *)

\* The rows recovery would change, and what it would make of them.
ToRecover(n, when) ==
  LET late == n \in (IF when = "all" THEN held.overdue ELSE overdue)
      life == Own(n, when).life
  IN
  IF n = "workspace"
  THEN life = "validating" \/ (late /\ life \in {"preparing", "leased", "active"})
  ELSE late /\ life = Awaiting(n)
Recovered(n, when) ==
  LET late == n \in (IF when = "all" THEN held.overdue ELSE overdue)
      life == Own(n, when).life
  IN
  IF n # "workspace" THEN "expired" ELSE
  IF life = "preparing" THEN "failed" ELSE
  IF late THEN "expired" ELSE "active"

Recover(n, when) ==
  /\ ToRecover(n, when)
  /\ Save(n, when, [Own(n, when) EXCEPT !.life = Recovered(n, when)],
          IF Recovered(n, when) = "active" THEN overdue ELSE overdue \ {n})

RecoverWorkspace(when) == Recover("workspace", when)
RecoverArtifact(a, when) == Recover(a, when)
RecoverReview(r, when) == Recover(r, when)
RecoverProposal(when) == Recover("proposal", when)
RecoverTransaction(when) == Recover("transaction", when)

RecoveryStep ==
  \E when \in When \ {"inputs"}:
    \/ RecoverWorkspace(when) \/ RecoverProposal(when) \/ RecoverTransaction(when)
    \/ \E a \in Artifacts: RecoverArtifact(a, when)
    \/ \E r \in Reviews: RecoverReview(r, when)

Lapse(n) ==
  /\ rows[n].life \in IF n = "workspace"
                      THEN {"preparing", "leased", "active", "validating"}
                      ELSE {Awaiting(n)}
  /\ overdue' = overdue \union {n}
  /\ UNCHANGED <<rows, published, held, moved>>

\* Another revision becomes the current one, or a rollback brings this one back.
ChangeRevision ==
  /\ published' = ~published
  /\ UNCHANGED <<rows, overdue, held, moved>>

Load ==
  /\ SlowCallers
  /\ held = None
  /\ held' = [rows |-> rows, overdue |-> overdue]
  /\ moved' = {}
  /\ UNCHANGED <<rows, overdue, published>>

\* The slow caller crashes or is refused.
GiveUp ==
  /\ held # None
  /\ held' = None
  /\ moved' = {}
  /\ UNCHANGED <<rows, overdue, published>>

Next ==
  \/ WorkspaceStep
  \/ \E when \in When: \/ ArtifactStep(when) \/ ReviewStep(when)
                       \/ ProposalStep(when) \/ TransactionStep(when)
  \/ RecoveryStep
  \/ \E n \in Names: Lapse(n)
  \/ ChangeRevision
  \/ Load
  \/ GiveUp

Spec == Init /\ [][Next]_vars
-----------------------------------------------------------------------------
(* Properties.                                                              *)

\* Whatever a proposal was ever assembled from stays as it was approved: each
\* artifact and review at the version it was taken at, with the gates passed,
\* and a review of every artifact that looked at that version.  Whatever a
\* transaction was prepared from is that proposal.  (Confirming re-reads none
\* of it but the artifacts: what is ready to apply rests on this.)
AppliedWasReviewed ==
  /\ \A v \in DOMAIN rows["proposal"].built:
       LET basis == rows["proposal"].built[v] IN
       /\ \A n \in On(basis, Names):
            /\ rows[n].life \in {"approved", "archived"}
            /\ rows[n].passes
            /\ Version(rows[n]) = basis[n]
       /\ \A a \in On(basis, Artifacts):
            \E r \in On(basis, Reviews):
              Subject[r] = a /\ Latest(rows[r])[a] = basis[a]
  /\ \A v \in DOMAIN rows["transaction"].built:
       LET basis == rows["transaction"].built[v] IN
       /\ rows["proposal"].life \in {"approved", "archived"}
       /\ Version(rows["proposal"]) = basis["proposal"]
       /\ \A a \in Artifacts: basis[a] = Latest(rows["proposal"])[a]

\* No save overwrites another: a row's versions are only ever added to, though
\* two servers may have worked out the next one from the same version.
HistoryKept ==
  [][\A n \in Names: \A v \in DOMAIN rows[n].built:
       v \in DOMAIN rows'[n].built /\ rows'[n].built[v] = rows[n].built[v]]_vars

\* What is approved, ready or expired is at most archived, and what is archived
\* stays, as does a workspace that has ended: no late generation, decision,
\* recovery or heartbeat brings it back.
DecisionsStand ==
  [][\A n \in Names:
       rows[n].life \in (IF n = "workspace" THEN Terminal(n)
                         ELSE {"approved", "ready", "expired", "archived"}) =>
         rows'[n] \in {rows[n], [rows[n] EXCEPT !.life = "archived"]}]_vars

\* A decision is on the version its author saw, however late it arrives.
DecidedAsSeen ==
  \A n \in Names \ {"workspace"}:
    rows[n].life = Awaiting(n) /\ rows'[n].life \in Decisions(n)
      /\ held # None /\ held' = None
    => Version(held.rows[n]) = Version(rows[n])
=============================================================================
