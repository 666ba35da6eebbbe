----------------------- MODULE MultiAgentCollaboration -----------------------
(***************************************************************************)
(* One collaboration session (MemoryCollaborationStore) as the servers of   *)
(* PostgresCollaborationStore change it: a server loads the session, works  *)
(* out the operation's outcome on its copy, and saves the outcome if the    *)
(* stored version is still the one it loaded.                               *)
(*                                                                          *)
(* A participant is its place in the scheduler's order of preference at     *)
(* equal load (role, then runtime id).  A review is known by the reviewer   *)
(* who was asked first (reviewId); recovery may route it to another.  A     *)
(* session whose message quota is used up is full.  The duration quota,     *)
(* which only refuses schedule, is left out.                                *)
(***************************************************************************)
EXTENDS Naturals, FiniteSets, Sequences

CONSTANTS
  Servers,
  Units,
  Participants,    \* a set of numbers
  Role,            \* a participant's role
  Eligible,        \* the participants a unit may be given to
  Prerequisites,   \* a unit's prerequisites
  Reviewed,        \* the units with reviewRequired
  Order,           \* the units in their order
  RetryLimit,      \* the smaller of quotas.retries and maxAttempts - 1
  PendingReviews,  \* quotas.pendingReviews
  None

CollaborationAssumption ==
  /\ None \notin Participants /\ Participants \subseteq Nat
  /\ IsFiniteSet(Units) /\ Units # {} /\ Reviewed \subseteq Units
  /\ Eligible \in [Units -> SUBSET Participants] /\ Prerequisites \in [Units -> SUBSET Units]
  /\ Len(Order) \in Nat /\ \A n \in 1..Len(Order): Order[n] \in Units
  /\ RetryLimit \in Nat

VARIABLES
  session,    \* as stored
  outcome,    \* what a server is about to save
  stale,      \* the servers that loaded an older version than the stored one
  expired     \* the participants whose lease has run out

vars == <<session, outcome, stale, expired>>

Coordinator == CHOOSE p \in Participants: Role[p] = "coordinator"
Terminal == {"completed", "failed", "cancelled", "superseded"}

Unit ==
  [status: {"blocked", "ready", "assigned", "running", "awaiting_review",
            "succeeded", "failed"},
   owner: Participants \union {None}, output: Nat, retryCount: Nat]
Participant ==
  [status: {"none", "registered", "active", "abandoned"}, assigned: SUBSET Units]
Review ==
  [unit: Units, output: Nat, asked: Participants,
   reviewer: Participants, requester: Participants,
   status: {"pending", "approved", "rejected", "cancelled"}]

IsSession(s) ==
  /\ s.lifecycle \in {"created", "assembling", "active", "paused"} \union Terminal
  /\ s.unit \in [Units -> Unit]
  /\ s.participant \in [Participants -> Participant]
  /\ s.reviews \in Seq(Review)
  /\ s.full \in BOOLEAN

TypeOK ==
  /\ IsSession(session)
  /\ \A v \in Servers: outcome[v] # None => IsSession(outcome[v])
  /\ stale \subseteq Servers
  /\ expired \subseteq Participants

Init ==
  /\ session =
       [lifecycle |-> "created",
        unit |-> [u \in Units |->
          [status |-> IF Prerequisites[u] = {} THEN "ready" ELSE "blocked",
           owner |-> None, output |-> 0, retryCount |-> 0]],
        participant |-> [p \in Participants |-> [status |-> "none", assigned |-> {}]],
        reviews |-> <<>>, full |-> FALSE]
  /\ outcome = [v \in Servers |-> None]
  /\ stale = {}
  /\ expired = {}

(***************************************************************************)
(* mutate: the outcome is worked out on the loaded session, and saved later *)
(***************************************************************************)

Prepare(v, s) ==
  /\ outcome[v] = None
  /\ outcome' = [outcome EXCEPT ![v] = s]
  /\ stale' = stale \ {v}
  /\ UNCHANGED <<session, expired>>

PersistAnyway(v) ==  \* mutant: the version is not compared
  /\ outcome[v] # None
  /\ session' = outcome[v]
  /\ stale' = Servers \ {v}
  /\ outcome' = [outcome EXCEPT ![v] = None]
  /\ UNCHANGED expired

\* save_collaboration_state refuses a session loaded at an older version.
Persist(v) ==
  /\ outcome[v] # None
  /\ IF v \in stale
     THEN UNCHANGED <<session, stale>>
     ELSE session' = outcome[v] /\ stale' = Servers \ {v}
  /\ outcome' = [outcome EXCEPT ![v] = None]
  /\ UNCHANGED expired

\* An operation that meets a conflict changes nothing but the version.
RecordConflict ==
  /\ stale' = Servers
  /\ UNCHANGED <<session, outcome, expired>>

Expire(p) ==
  /\ session.participant[p].status # "none"
  /\ expired' = expired \union {p}
  /\ UNCHANGED <<session, outcome, stale>>

(***************************************************************************)
(* The parts operations share                                               *)
(***************************************************************************)

Fenced(p) ==
  /\ session.participant[p].status = "active"
  /\ p \notin expired
  /\ session.lifecycle = "active"

\* appendMessage; the quota may be reached by it.
Appended(s) == IF s.full THEN {} ELSE {s, [s EXCEPT !.full = TRUE]}

ReadinessUnlessFailed(s, u) ==  \* mutant: ready unless what it builds on has failed
  IF s.unit[u].status \notin {"blocked", "ready"} THEN s.unit[u].status
  ELSE IF \A q \in Prerequisites[u]: s.unit[q].status # "failed"
       THEN "ready" ELSE "blocked"

Readiness(s, u) ==
  IF s.unit[u].status \notin {"blocked", "ready"} THEN s.unit[u].status
  ELSE IF \A q \in Prerequisites[u]: s.unit[q].status = "succeeded"
       THEN "ready" ELSE "blocked"

Propagated(s) ==
  [s EXCEPT !.unit = [u \in Units |-> [@[u] EXCEPT !.status = Readiness(s, u)]]]

FinishedByLast(s) ==  \* mutant: blocked units are not waited for
  [Propagated(s) EXCEPT !.lifecycle =
     IF \E u \in Units: s.unit[u].status = "failed" THEN "failed"
     ELSE IF \A u \in Units: s.unit[u].status \in {"succeeded", "blocked"} THEN "completed"
     ELSE @]

\* finishAndPropagate
Finished(s) ==
  [Propagated(s) EXCEPT !.lifecycle =
     IF \E u \in Units: s.unit[u].status = "failed" THEN "failed"
     ELSE IF \A u \in Units: s.unit[u].status = "succeeded" THEN "completed"
     ELSE @]

ReleasedKeepingList(s, u, again) ==  \* mutant: it stays on its owner's list
  [s EXCEPT
     !.unit[u].status = IF again THEN "ready" ELSE "failed",
     !.unit[u].owner = None,
     !.unit[u].retryCount = IF again THEN @ + 1 ELSE @]

ReleasedBackwards(s, u, again) ==  \* mutant: the retries left are counted, from none
  LET owner == s.unit[u].owner
      retryCount == s.unit[u].retryCount
  IN [s EXCEPT
       !.unit[u].status = IF again THEN "ready" ELSE "failed",
       !.unit[u].owner = None,
       !.unit[u].retryCount = IF again THEN retryCount - 1 ELSE retryCount,
       !.participant[owner].assigned = @ \ {u}]

\* What a unit's row says.
Work(status, owner, output, retryCount) ==
  [status |-> status, owner |-> owner, output |-> output, retryCount |-> retryCount]

\* A unit and a participant's list are replaced.
Replaced(s, u, work, p, list) ==
  LET row == [status |-> s.participant[p].status, assigned |-> list]
  IN [s EXCEPT !.unit = [s.unit EXCEPT ![u] = work],
               !.participant = [s.participant EXCEPT ![p] = row]]

\* A review is replaced.
WithReview(s, i, review) == [s EXCEPT !.reviews = [s.reviews EXCEPT ![i] = review]]

\* Work is taken from its owner and is ready for another, or has failed.
Released(s, u, again) ==
  LET unit == s.unit[u]
      work == IF again THEN Work("ready", None, unit.output, unit.retryCount + 1)
              ELSE Work("failed", None, unit.output, unit.retryCount)
  IN Replaced(s, u, work, unit.owner, s.participant[unit.owner].assigned \ {u})

\* It has succeeded with an output, and is off its owner's list.
Succeeded(s, u, output) ==
  LET unit == s.unit[u]
      work == Work("succeeded", unit.owner, output, unit.retryCount)
  IN Replaced(s, u, work, unit.owner, s.participant[unit.owner].assigned \ {u})

\* It goes on with its owner.
Going(s, u, status, output) ==
  LET unit == s.unit[u]
  IN Replaced(s, u, Work(status, unit.owner, output, unit.retryCount),
              unit.owner, s.participant[unit.owner].assigned)

CanRetryOnceMore(s, u) ==  \* mutant: one retry too many
  s.unit[u].retryCount <= RetryLimit
CanRetry(s, u) == s.unit[u].retryCount < RetryLimit

PendingOf(s, p) ==
  {i \in DOMAIN s.reviews: s.reviews[i].status = "pending" /\ s.reviews[i].reviewer = p}

ReviewersOfAll(s, requester) ==  \* mutant: the requester may review its own output
  {p \in Participants:
     s.participant[p].status = "active" /\ Role[p] \in {"reviewer", "coordinator"}}
Reviewers(s, requester) ==
  {p \in Participants \ {requester}:
     s.participant[p].status = "active" /\ Role[p] \in {"reviewer", "coordinator"}}

\* deterministicReviewer: the least busy, a reviewer before the coordinator.
FirstReviewer(s, requester) ==
  LET busy(p) == Cardinality(PendingOf(s, p))
      before(p, q) ==
        \/ busy(p) < busy(q)
        \/ (busy(p) = busy(q) /\ Role[p] = "reviewer" /\ Role[q] # "reviewer")
        \/ (busy(p) = busy(q) /\ Role[p] = Role[q] /\ p <= q)
  IN CHOOSE p \in Reviewers(s, requester):
       \A q \in Reviewers(s, requester): before(p, q)

(***************************************************************************)
(* The coordinator                                                          *)
(***************************************************************************)

RegisterParticipant(v, p) ==
  /\ session.lifecycle \in {"created", "assembling", "active"}
  /\ session.participant[p].status = "none"
  /\ Prepare(v, [session EXCEPT
       !.lifecycle = IF @ = "created" THEN "assembling" ELSE @,
       !.participant[p].status =
          IF session.lifecycle = "active" THEN "active" ELSE "registered"])

Activate(v) ==
  /\ session.lifecycle \in {"assembling", "paused", "active"}
  /\ Cardinality({p \in Participants: session.participant[p].status # "none"}) >= 2
  /\ session.participant[Coordinator].status # "none"
  /\ Prepare(v, [session EXCEPT
       !.lifecycle = "active",
       !.participant = [p \in Participants |->
          [status |-> IF @[p].status = "registered" THEN "active" ELSE @[p].status,
           assigned |-> @[p].assigned]]])

\* One unit of deterministicCollaborationAssignments, given to the least loaded.
Assigned(s, u) ==
  LET load(p) == Cardinality(s.participant[p].assigned)
      available == {p \in Eligible[u]: s.participant[p].status = "active"}
      chosen == CHOOSE p \in available: \A q \in available:
                  load(p) < load(q) \/ (load(p) = load(q) /\ p <= q)
  IN IF s.unit[u].status = "ready" /\ available # {}
     THEN Replaced(s, u, Work("assigned", chosen, s.unit[u].output, s.unit[u].retryCount),
                   chosen, s.participant[chosen].assigned \union {u})
     ELSE s

\* The session after the units of each beginning of the order.
AllAssigned(s) ==
  LET after[n \in 0..Len(Order)] == IF n = 0 THEN s ELSE Assigned(after[n - 1], Order[n])
  IN after

Schedule(v) ==
  /\ session.lifecycle = "active"
  /\ LET ready == Propagated(session)
         scheduled == AllAssigned(ready)[Len(Order)]
     IN \E s \in (IF scheduled = ready THEN {ready} ELSE Appended(scheduled)):
          Prepare(v, s)

Transition(v, to) ==
  /\ <<session.lifecycle, to>> \in
       {<<"active", "paused">>, <<"paused", "active">>}
       \union {"active", "paused"} \X {"failed"}
       \union {"created", "assembling", "active", "paused"} \X {"cancelled", "superseded"}
  /\ Prepare(v, [session EXCEPT !.lifecycle = to])

(***************************************************************************)
(* The participants                                                         *)
(***************************************************************************)

\* A heartbeat only moves the lease's end, and the version.
Heartbeat(v, p) == Fenced(p) /\ Prepare(v, session)

SendMessage(v, p) == Fenced(p) /\ \E s \in Appended(session): Prepare(v, s)

StartWork(v, p, u) ==
  /\ Fenced(p)
  /\ session.unit[u].owner = p /\ session.unit[u].status = "assigned"
  /\ Prepare(v, Going(session, u, "running", session.unit[u].output))

CompleteWork(v, p, u) ==
  /\ Fenced(p)
  /\ session.unit[u].owner = p /\ session.unit[u].status \in {"assigned", "running"}
  /\ LET output == session.unit[u].output + 1
     IN IF u \in Reviewed
        THEN \E s \in Appended(Going(session, u, "awaiting_review", output)): Prepare(v, s)
        ELSE \E s \in Appended(Succeeded(session, u, output)): Prepare(v, Finished(s))

FailWork(v, p, u, retryable) ==
  /\ Fenced(p)
  /\ session.unit[u].owner = p /\ session.unit[u].status \in {"assigned", "running"}
  /\ LET again == retryable /\ CanRetry(session, u)
         s == Released(session, u, again)
     IN Prepare(v, IF again THEN s ELSE Finished(s))

\* The same reviewer is asked once for an output; another may be asked too.
RequestReview(v, p, u) ==
  /\ Fenced(p)
  /\ session.unit[u].owner = p /\ session.unit[u].status = "awaiting_review"
  /\ Cardinality({i \in DOMAIN session.reviews: session.reviews[i].status = "pending"})
       < PendingReviews
  /\ Reviewers(session, p) # {}
  /\ LET asked == FirstReviewer(session, p)
         review == [unit |-> u, output |-> session.unit[u].output, asked |-> asked,
                    reviewer |-> asked, requester |-> p, status |-> "pending"]
     IN IF \E i \in DOMAIN session.reviews:
             /\ session.reviews[i].unit = u /\ session.reviews[i].asked = asked
             /\ session.reviews[i].output = review.output
        THEN Prepare(v, session)
        ELSE \E s \in Appended([session EXCEPT !.reviews = Append(@, review)]):
               Prepare(v, s)

StillWanted(review) ==
  /\ session.unit[review.unit].status = "awaiting_review"
  /\ session.unit[review.unit].output = review.output

SubmitReview(v, p, i, approved) ==
  /\ Fenced(p)
  /\ i \in DOMAIN session.reviews
  /\ LET review == session.reviews[i]
         u == review.unit
         verdict == IF approved THEN "approved" ELSE "rejected"
         told == WithReview(session, i, [review EXCEPT !.status = verdict])
         judged == IF approved
                   THEN Succeeded(told, u, session.unit[u].output)
                   ELSE Released(told, u, CanRetry(session, u))
     IN /\ review.status = "pending" /\ review.reviewer = p
        /\ StillWanted(review)
        /\ \E s \in Appended(judged): Prepare(v, Finished(s))

(***************************************************************************)
(* Recovery                                                                 *)
(***************************************************************************)

Abandoned ==
  {p \in Participants:
     \/ session.participant[p].status = "abandoned"
     \/ session.participant[p].status = "active" /\ p \in expired}

\* Everything the abandoned own is released, waiting for a review or not.
WithoutAbandoned ==
  LET lost == {u \in Units: session.unit[u].owner \in Abandoned
                            /\ session.unit[u].status \notin {"succeeded", "failed"}}
  IN [session EXCEPT
       !.unit = [u \in Units |->
          IF u \in lost THEN Released(session, u, CanRetry(session, u)).unit[u] ELSE @[u]],
       !.participant = [p \in Participants |->
          IF p \in Abandoned
          THEN [status |-> "abandoned", assigned |-> @[p].assigned \ lost]
          ELSE @[p]]]

Rerouted(s, i) ==
  LET review == s.reviews[i]
  IN IF ~(review.status = "pending" /\ review.reviewer \in Abandoned) THEN s
     ELSE IF Reviewers(s, review.requester) = {}
          THEN WithReview(s, i, [review EXCEPT !.status = "cancelled"])
          ELSE WithReview(s, i, [review EXCEPT !.reviewer = FirstReviewer(s, review.requester)])

AllRerouted(s) ==
  LET after[n \in 0..Len(s.reviews)] == IF n = 0 THEN s ELSE Rerouted(after[n - 1], n)
  IN after

Recover(v) ==
  /\ session.lifecycle \notin Terminal
  /\ LET routed == AllRerouted(WithoutAbandoned)[Len(session.reviews)]
         idle == \A p \in Participants: routed.participant[p].status # "active"
         recovered == IF session.lifecycle = "active" /\ idle
                      THEN [routed EXCEPT !.lifecycle = "paused"] ELSE routed
     IN /\ recovered # session
        /\ Prepare(v, Finished(recovered))

ParticipantStep(v, p) ==
  \/ RegisterParticipant(v, p)
  \/ Heartbeat(v, p)
  \/ SendMessage(v, p)
  \/ \E u \in Units:
       \/ StartWork(v, p, u)
       \/ CompleteWork(v, p, u)
       \/ \E retryable \in BOOLEAN: FailWork(v, p, u, retryable)
       \/ RequestReview(v, p, u)
  \/ \E i \in DOMAIN session.reviews, approved \in BOOLEAN: SubmitReview(v, p, i, approved)

Next ==
  \/ \E v \in Servers:
       \/ Persist(v)
       \/ Activate(v)
       \/ Schedule(v)
       \/ \E to \in {"paused", "active", "cancelled", "failed", "superseded"}:
            Transition(v, to)
       \/ \E p \in Participants: ParticipantStep(v, p)
       \/ Recover(v)
  \/ \E p \in Participants: Expire(p)
  \/ RecordConflict

Spec == Init /\ [][Next]_vars

(***************************************************************************)
(* Properties                                                               *)
(***************************************************************************)

\* Work is begun only when everything it builds on has succeeded, and stays so
\* through retries, rejected reviews and recoveries of the work before it.
PrerequisitesFirst ==
  \A u \in Units:
    session.unit[u].status \in {"assigned", "running", "awaiting_review", "succeeded"} =>
      \A q \in Prerequisites[u]: session.unit[q].status = "succeeded"

\* A unit under way is on the list of its one owner, and on no other list: what
\* the load of a participant is measured by is what it has to do.
ListsAgree ==
  \A u \in Units, p \in Participants:
    u \in session.participant[p].assigned
      <=> /\ session.unit[u].owner = p
          /\ session.unit[u].status \in {"assigned", "running", "awaiting_review"}

\* A unit that is to be reviewed succeeds by an approval of its last output, and
\* the one who approved it is not the one whose output it is.
ApprovedByAnother ==
  \A u \in Reviewed:
    session.unit[u].status = "succeeded" =>
      \E i \in DOMAIN session.reviews:
        /\ session.reviews[i].unit = u
        /\ session.reviews[i].status = "approved"
        /\ session.reviews[i].output = session.unit[u].output
        /\ session.reviews[i].reviewer # session.unit[u].owner

\* The session is completed when all its units have succeeded and not before, and
\* never goes on with a unit that failed.
EndsWithItsUnits ==
  /\ session.lifecycle = "completed" <=> \A u \in Units: session.unit[u].status = "succeeded"
  /\ (\E u \in Units: session.unit[u].status = "failed") => session.lifecycle = "failed"

\* Failures, rejected reviews and lost owners together use no more retries than the limit.
RetriesBounded == \A u \in Units: session.unit[u].retryCount <= RetryLimit

\* An output is never taken back and an ended session never changes, whatever a
\* slow server saves that loaded the session before.
NothingIsLost ==
  /\ \A u \in Units: session'.unit[u].output >= session.unit[u].output
  /\ session.lifecycle \in Terminal => session' = session
=============================================================================
