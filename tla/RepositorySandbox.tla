-------------------------- MODULE RepositorySandbox --------------------------
(***************************************************************************)
(* The sandboxes of one owner in the Postgres store: metadata of a          *)
(* workspace that is prepared, leased to one worker, released and archived. *)
(* Every operation loads a row, applies the in-memory operation to it and   *)
(* saves the result under the version it loaded; the quotas are counted on  *)
(* the owner's rows as they were loaded.  A backend that starts recovers    *)
(* what its predecessors left.                                              *)
(*                                                                          *)
(* All the sandboxes are of one revision of one repository.                 *)
(***************************************************************************)
EXTENDS Naturals, FiniteSets, Sequences

CONSTANTS
  Sandboxes,
  Workers,          \* lease owners, each with at most one call at a time
  ActivePerOwner,   \* quotas
  LeasesPerOwner,
  LeaseTime,
  PreparationTimeout,
  RetainedSandboxes,
  RetainedRecoveries,
  Hung,             \* whether a call or a start may outlast the collection of its sandbox
  MaxClock,         \* bounds: the clock, starts of a backend, lives of a sandbox,
  Starts,           \* the version at which a lease is no longer renewed
  MaxLives,
  MaxVersion,
  None

SandboxAssumption ==
  /\ {ActivePerOwner, LeasesPerOwner, LeaseTime, PreparationTimeout, RetainedSandboxes,
      RetainedRecoveries, MaxClock, Starts, MaxLives, MaxVersion} \subseteq Nat
  /\ 0 \notin {LeaseTime, RetainedSandboxes, RetainedRecoveries}
  /\ Hung \in BOOLEAN
  /\ IsFiniteSet(Sandboxes) /\ None \notin Sandboxes
  /\ IsFiniteSet(Workers) /\ Workers # {}

VARIABLES
  rows,      \* the sandboxes' states; version 0 is no row
  leaseRows, \* the table of leases
  standing,  \* of their revision: the repository's current one, or not, or all is deleted
  clock,
  call,      \* what each worker's call has loaded and wants to save
  claim,     \* what each worker was told it holds
  starting,  \* the backend that starts: the rows it listed and has not seen to
  starts,
  lives      \* rows each sandbox has had

vars == <<rows, leaseRows, standing, clock, call, claim, starting, starts, lives>>

Lifecycles == {"creating", "ready", "leased", "released", "archived", "failed"}
Active == {"creating", "ready", "leased"}
Lease == [owner: Workers, started: 0..MaxClock, expires: Nat, released: BOOLEAN]

NoRow == [version |-> 0, life |-> 0, lifecycle |-> "archived", leases |-> <<>>,
          failure |-> "none", history |-> <<>>, updated |-> 0]
NoCall == [save |-> None, row |-> NoRow]
NoClaim == [sandbox |-> None, fence |-> 0, started |-> 0, until |-> 0]
AtRest == [at |-> "rest", now |-> 0, listed |-> [s \in Sandboxes |-> NoRow]]

IsRow(row) ==
  /\ row.version \in Nat /\ row.life \in 0..MaxLives
  /\ row.lifecycle \in Lifecycles
  /\ \A i \in DOMAIN row.leases : row.leases[i] \in Lease
  /\ row.failure \in {"none", "preparation", "abandoned"}
  /\ Len(row.history) <= RetainedRecoveries
  /\ row.updated \in 0..MaxClock

\* validateSandboxIntegrity: the sandbox is leased exactly while one of its
\* leases has not been released.
TypeOK ==
  /\ \A s \in Sandboxes :
       /\ IsRow(rows[s])
       /\ (rows[s].lifecycle = "leased") <=>
            (Cardinality({i \in DOMAIN rows[s].leases : ~rows[s].leases[i].released}) = 1)
       /\ Cardinality({l \in leaseRows[s] : ~l.lease.released}) <= 1
  /\ standing \in {"current", "past", "deleted"} /\ clock \in 0..MaxClock /\ starts \in 0..Starts
  /\ \A w \in Workers : call[w].save \in Sandboxes \union {None} /\ IsRow(call[w].row)
  /\ \A w \in Workers : claim[w].sandbox \in Sandboxes \union {None}
  /\ starting.at \in {"rest", "recovering", "exited"}
  /\ \A s \in Sandboxes : IsRow(starting.listed[s])
  /\ lives \in [Sandboxes -> 0..MaxLives]

Init ==
  /\ rows = [s \in Sandboxes |-> NoRow]
  /\ leaseRows = [s \in Sandboxes |-> {}]
  /\ standing = "current"
  /\ clock = 0
  /\ call = [w \in Workers |-> NoCall]
  /\ claim = [w \in Workers |-> NoClaim]
  /\ starting = AtRest
  /\ starts = 0
  /\ lives = [s \in Sandboxes |-> 0]

-----------------------------------------------------------------------------
(* What the operations make of a row *)

\* The row's next version, in another lifecycle and with other leases.
Saved(row, now, lifecycle, leases) ==
  [version |-> row.version + 1, life |-> row.life, lifecycle |-> lifecycle, leases |-> leases,
   failure |-> row.failure, history |-> row.history, updated |-> now]

Created(s) == [Saved(NoRow, clock, "creating", <<>>) EXCEPT !.life = lives[s] + 1]
Prepared(row) == Saved(row, clock, "ready", row.leases)
Unprepared(row) == [Saved(row, clock, "failed", row.leases) EXCEPT !.failure = "preparation"]
Archived(row) == Saved(row, clock, "archived", row.leases)

Leased(row, w) ==
  Saved(row, clock, "leased",
        Append(row.leases, [owner |-> w, started |-> clock, expires |-> clock + LeaseTime,
                            released |-> FALSE]))
Renewed(row, i) ==
  Saved(row, clock, "leased", [row.leases EXCEPT ![i].expires = clock + LeaseTime])
\* mutant: the lease itself stays open
ReleasedOnly(row, i) == Saved(row, clock, "released", row.leases)
Released(row, i) == Saved(row, clock, "released", [row.leases EXCEPT ![i].released = TRUE])

\* The lease a claim stands for: same owner, fence and claim token, not
\* released, and its sandbox is leased.
Holds(w, row, i) ==
  /\ row.lifecycle = "leased"
  /\ i \in DOMAIN row.leases
  /\ i = claim[w].fence
  /\ row.leases[i].owner = w
  /\ row.leases[i].started = claim[w].started
  /\ ~row.leases[i].released

Fenced(w, row, i) == Holds(w, row, i) /\ row.leases[i].expires > clock

\* mutant: a lease is taken for expired whenever it is there
ExpiredAlways(row, now) == row.lifecycle = "leased"
Expired(row, now) ==
  /\ row.lifecycle = "leased"
  /\ \E i \in DOMAIN row.leases : ~row.leases[i].released /\ row.leases[i].expires <= now
Abandoned(row, now) == row.lifecycle = "creating" /\ now >= row.updated + PreparationTimeout
Unready(row) == row.lifecycle = "failed" /\ row.failure = "preparation"

\* The record's identity is made of the reason and of the number of records
\* there are; the last RetainedRecoveries are kept.
Recorded(history, reason) ==
  LET all == Append(history, <<reason, Len(history) + 1>>)
  IN  IF Len(all) <= RetainedRecoveries THEN all ELSE Tail(all)

Recovered(row, now) ==
  CASE Expired(row, now) ->
         [Saved(row, now, "released",
                [i \in DOMAIN row.leases |-> [row.leases[i] EXCEPT !.released = TRUE]])
            EXCEPT !.history = Recorded(@, "expired_lease")]
    [] Abandoned(row, now) ->
         [Saved(row, now, "failed", row.leases)
            EXCEPT !.failure = "abandoned", !.history = Recorded(@, "abandoned_sandbox")]
    [] Unready(row) ->
         [Saved(row, now, "creating", row.leases)
            EXCEPT !.failure = "none", !.history = Recorded(@, "failed_preparation")]
Recoverable(row, now) == Expired(row, now) \/ Abandoned(row, now) \/ Unready(row)

-----------------------------------------------------------------------------
(* Saving *)

\* The rows of the leases after the upsert; one with the fence of another
\* lease is refused, and so is a second one that is not released.
LeaseRows(row) ==
  {[id |-> <<row.leases[i].owner, i>>, lease |-> row.leases[i]] : i \in DOMAIN row.leases}
Upserted(s, row) ==
  {l \in leaseRows[s] : \A n \in LeaseRows(row) : n.id # l.id} \union LeaseRows(row)
LeasesFit(s, row) ==
  /\ \A l \in leaseRows[s], n \in LeaseRows(row) :
       l.id[2] = n.id[2] => l.id = n.id /\ l.lease.started = n.lease.started
  /\ Cardinality({l \in Upserted(s, row) : ~l.lease.released}) <= 1

\* The version the row was loaded with; 0 expects that there is no row.
Expected(row) == row.version - 1

Accepted(s, row) ==
  /\ standing = "current"
  /\ rows[s].version = Expected(row)
  /\ LeasesFit(s, row)
Write(s, row) ==
  /\ rows' = [rows EXCEPT ![s] = row]
  /\ leaseRows' = [leaseRows EXCEPT ![s] = Upserted(s, row)]
  /\ lives' = [lives EXCEPT ![s] = IF row.version = 1 THEN @ + 1 ELSE @]

Free(w) == call[w].save = None
Wants(w, s, row) ==
  /\ call' = [call EXCEPT ![w] = [save |-> s, row |-> row]]
  /\ UNCHANGED <<rows, leaseRows, standing, clock, claim, starting, starts, lives>>

Present(s) == rows[s].version > 0
InUse(lifecycles) == Cardinality({s \in Sandboxes : Present(s) /\ rows[s].lifecycle \in lifecycles})

-----------------------------------------------------------------------------
(* The operations: each loads and computes here, and saves in Save *)

Create(w, s) ==
  /\ Free(w)
  /\ ~Present(s) /\ lives[s] < MaxLives
  /\ InUse(Active) < ActivePerOwner
  /\ Wants(w, s, Created(s))

Prepare(w, s) ==
  /\ Free(w)
  /\ Present(s) /\ rows[s].lifecycle = "creating"
  /\ \E row \in {Prepared(rows[s]), Unprepared(rows[s])} : Wants(w, s, row)

\* mutant: the leases are not counted
AcquireUncounted(w, s) ==
  /\ Free(w) /\ claim[w] = NoClaim
  /\ Present(s) /\ rows[s].lifecycle = "ready"
  /\ Wants(w, s, Leased(rows[s], w))
Acquire(w, s) ==
  /\ Free(w) /\ claim[w] = NoClaim
  /\ Present(s) /\ rows[s].lifecycle = "ready"
  /\ InUse({"leased"}) < LeasesPerOwner
  /\ Wants(w, s, Leased(rows[s], w))

Renew(w) ==
  /\ Free(w) /\ claim[w] # NoClaim
  /\ LET s == claim[w].sandbox
     IN  \E i \in DOMAIN rows[s].leases :
           /\ Fenced(w, rows[s], i) /\ rows[s].version < MaxVersion
           /\ Wants(w, s, Renewed(rows[s], i))

Release(w) ==
  /\ Free(w) /\ claim[w] # NoClaim
  /\ LET s == claim[w].sandbox
     IN  \E i \in DOMAIN rows[s].leases :
           Fenced(w, rows[s], i) /\ Wants(w, s, Released(rows[s], i))

\* A renewal or release that is not fenced is answered with the stale lease.
Stale(w) ==
  /\ Free(w) /\ claim[w] # NoClaim
  /\ LET row == rows[claim[w].sandbox]
     IN  \A i \in DOMAIN row.leases : ~Fenced(w, row, i)
  /\ claim' = [claim EXCEPT ![w] = NoClaim]
  /\ UNCHANGED <<rows, leaseRows, standing, clock, call, starting, starts, lives>>

Archive(w, s) ==
  /\ Free(w)
  /\ Present(s) /\ rows[s].lifecycle \in {"released", "failed"}
  /\ Wants(w, s, Archived(rows[s]))

\* What the worker knows once its save is answered.
Told(w, s, row) ==
  LET i == Len(row.leases)
  IN  IF row.lifecycle = "leased"
      THEN [sandbox |-> s, fence |-> i, started |-> row.leases[i].started,
            until |-> row.leases[i].expires]
      ELSE IF claim[w].sandbox = s THEN NoClaim ELSE claim[w]

Save(w) ==
  /\ ~Free(w)
  /\ LET c == call[w]
     IN  IF Accepted(c.save, c.row)
         THEN /\ Write(c.save, c.row)
              /\ claim' = [claim EXCEPT ![w] = Told(w, c.save, c.row)]
         ELSE UNCHANGED <<rows, leaseRows, lives, claim>>
  /\ call' = [call EXCEPT ![w] = NoCall]
  /\ UNCHANGED <<standing, clock, starting, starts>>

\* The worker's process stops; a save that is under way may have arrived or not.
Crash(w) ==
  /\ call[w] # NoCall \/ claim[w] # NoClaim
  /\ call' = [call EXCEPT ![w] = NoCall]
  /\ claim' = [claim EXCEPT ![w] = NoClaim]
  /\ LET c == call[w]
     IN  \/ UNCHANGED <<rows, leaseRows, lives>>
         \/ /\ ~Free(w) /\ Accepted(c.save, c.row)
            /\ Write(c.save, c.row)
  /\ UNCHANGED <<standing, clock, starting, starts>>

-----------------------------------------------------------------------------
(* Start-up, retention and the environment *)

\* The lease's holder is not asked, only the clock.
Listed(s) == Present(s) /\ rows[s].lifecycle \in {"creating", "leased", "failed"}
Start ==
  /\ starting.at # "recovering" /\ starts < Starts
  /\ starts' = starts + 1
  /\ starting' = [at |-> "recovering", now |-> clock,
                  listed |-> [s \in Sandboxes |-> IF Listed(s) THEN rows[s] ELSE NoRow]]
  /\ UNCHANGED <<rows, leaseRows, standing, clock, call, claim, lives>>

\* A save that is refused ends the backend that starts.
Recover(s) ==
  /\ starting.at = "recovering"
  /\ starting.listed[s] # NoRow
  /\ LET row == starting.listed[s]
     IN  IF ~Recoverable(row, starting.now)
         THEN /\ starting' = [starting EXCEPT !.listed[s] = NoRow]
              /\ UNCHANGED <<rows, leaseRows, lives>>
         ELSE IF Accepted(s, Recovered(row, starting.now))
         THEN /\ Write(s, Recovered(row, starting.now))
              /\ starting' = [starting EXCEPT !.listed[s] = NoRow]
         ELSE /\ starting' = [AtRest EXCEPT !.at = "exited"]
              /\ UNCHANGED <<rows, leaseRows, lives>>
  /\ UNCHANGED <<standing, clock, call, claim, starts>>
Serve ==
  /\ starting.at = "recovering"
  /\ starting.listed = AtRest.listed
  /\ starting' = AtRest
  /\ UNCHANGED <<rows, leaseRows, standing, clock, call, claim, starts, lives>>

\* Keeps the RetainedSandboxes terminal rows that changed last.
Terminal == {s \in Sandboxes : Present(s) /\ rows[s].lifecycle \in {"released", "archived", "failed"}}
Collect ==
  \E kept \in SUBSET Terminal :
    /\ Cardinality(kept) = RetainedSandboxes
    /\ kept # Terminal
    /\ \A s \in kept, t \in Terminal \ kept : rows[s].updated >= rows[t].updated
    /\ \/ Hung
       \/ \A s \in Terminal \ kept :
            starting.listed[s] = NoRow /\ \A w \in Workers : call[w].save # s
    /\ rows' = [s \in Sandboxes |-> IF s \in Terminal \ kept THEN NoRow ELSE rows[s]]
    /\ leaseRows' = [s \in Sandboxes |-> IF s \in Terminal \ kept THEN {} ELSE leaseRows[s]]
    /\ UNCHANGED <<standing, clock, call, claim, starting, starts, lives>>

\* The repository is indexed at another revision; the rows stay.
Move ==
  /\ standing = "current"
  /\ standing' = "past"
  /\ UNCHANGED <<rows, leaseRows, clock, call, claim, starting, starts, lives>>

\* mutant: the leases outlive their sandbox
DeleteRows ==
  /\ standing # "deleted"
  /\ standing' = "deleted"
  /\ rows' = [s \in Sandboxes |-> NoRow]
  /\ UNCHANGED <<leaseRows, clock, call, claim, starting, starts, lives>>
\* The repository's row is deleted, and with it those of its sandboxes and of
\* their leases; it is not connected again here.
Delete ==
  /\ standing # "deleted"
  /\ standing' = "deleted"
  /\ rows' = [s \in Sandboxes |-> NoRow]
  /\ leaseRows' = [s \in Sandboxes |-> {}]
  /\ UNCHANGED <<clock, call, claim, starting, starts, lives>>

Tick ==
  /\ clock < MaxClock
  /\ clock' = clock + 1
  /\ UNCHANGED <<rows, leaseRows, standing, call, claim, starting, starts, lives>>

Next ==
  \/ \E w \in Workers, s \in Sandboxes :
       Create(w, s) \/ Prepare(w, s) \/ Acquire(w, s) \/ Archive(w, s)
  \/ \E w \in Workers : Renew(w) \/ Release(w) \/ Stale(w) \/ Save(w) \/ Crash(w)
  \/ Start \/ \E s \in Sandboxes : Recover(s)
  \/ Serve \/ Collect \/ Move \/ Delete \/ Tick

Spec == Init /\ [][Next]_vars

-----------------------------------------------------------------------------
(* Properties *)

\* A worker whose lease has not expired holds it in the database, whatever
\* the recovery of a starting backend, another worker's late save or a
\* collection did meanwhile, until the repository is deleted.
HeldIsLeased ==
  \A w \in Workers :
    claim[w] # NoClaim /\ clock < claim[w].until /\ standing # "deleted" =>
      Holds(w, rows[claim[w].sandbox], claim[w].fence)

\* Of a deleted repository no sandbox and no lease is left, and no save that
\* was under way brings one back.
NoneOfADeleted ==
  standing = "deleted" => \A s \in Sandboxes : rows[s] = NoRow /\ leaseRows[s] = {}

\* What was released or archived is not revived by an operation that loaded
\* the sandbox before.
RevivesNone ==
  \A s \in Sandboxes :
    Present(s) /\ rows[s].lifecycle \in {"released", "archived"} /\ rows'[s].version > 0 =>
      rows'[s].lifecycle \in {"archived", rows[s].lifecycle}

\* A backend that starts does not go on past a sandbox it found expired,
\* abandoned or unprepared unless it has recovered it.
RecoversOrStops ==
  \A s \in Sandboxes :
    /\ starting.listed[s] # NoRow /\ Recoverable(starting.listed[s], starting.now)
    /\ starting'.at = "recovering" /\ starting'.listed[s] = NoRow
    => rows'[s] = Recovered(starting.listed[s], starting.now)

\* The leases are counted on the rows as they were loaded, and nothing keeps
\* two workers from counting before either saves: one worker keeps the quota,
\* and each further one may take the owner past it by a lease.
LeaseQuota == InUse({"leased"}) < LeasesPerOwner + Cardinality(Workers)
=============================================================================
