--------------------------- MODULE RetrievalCache ---------------------------
(***************************************************************************)
(* The retrieval cache of an API process (RetrievalCache.getOrLoad): what   *)
(* is cached, loads shared by the requests that wait for them, and          *)
(* invalidation by a changed revision, a finished indexing or a deletion.   *)
(* Two awaits let requests interleave: the one for the repository's         *)
(* revision and the one for the load.                                       *)
(*                                                                          *)
(* One query per repository: other queries are other keys.  A load is      *)
(* stale, where the code compares repositoryGenerations, once its           *)
(* repository has been invalidated after it began.  A load of a revision    *)
(* returns the content of that revision, as the stores behind it promise.   *)
(***************************************************************************)
EXTENDS Naturals, FiniteSets, Sequences, SequencesExt

CONSTANTS
  Repositories,
  Revisions,   \* the values of repositories.current_revision
  Requests,    \* requests that may be under way together
  Loads,       \* bound of the model: loads that may run together
  MaxEntries,  \* RETRIEVAL_CACHE_MAX_ENTRIES
  None

EntriesAssumption == MaxEntries \in Nat \ {0}

VARIABLES
  current,   \* the revision each repository shows, in the database
  known,     \* repositoryVersions: the revision a request saw last
  entries,   \* the cached keys, the least recently used first
  inFlight,  \* the load that requests for a key join
  loads,
  requests

vars == <<current, known, entries, inFlight, loads, requests>>

\* A key; without a revision it is that of a load that bypasses the cache.
Keys == Repositories \X (Revisions \cup {None})

NoneAssumption == None \notin Revisions \cup Loads \cup Repositories \cup Keys

Request ==
  [at: {"idle", "asked", "answered", "waiting"}, repo: Repositories \cup {None},
   revision: Revisions \cup {None}]

Load ==
  [key: Keys \cup {None}, aborted: BOOLEAN, stale: BOOLEAN, waiters: SUBSET Requests]

Entry == [key: Repositories \X Revisions, stale: BOOLEAN]

TypeOK ==
  /\ current \in [Repositories -> Revisions \cup {None}]
  /\ known \in [Repositories -> Revisions \cup {None}]
  /\ entries \in Seq(Entry) /\ Len(entries) <= MaxEntries
  /\ inFlight \in [Keys -> Loads \cup {None}]
  /\ loads \in [Loads -> Load]
  /\ requests \in [Requests -> Request]

Idle == [at |-> "idle", repo |-> None, revision |-> None]
NoLoad == [key |-> None, aborted |-> FALSE, stale |-> FALSE, waiters |-> {}]

Init ==
  /\ current = [p \in Repositories |-> None]
  /\ known = [p \in Repositories |-> None]
  /\ entries = <<>>
  /\ inFlight = [k \in Keys |-> None]
  /\ loads = [l \in Loads |-> NoLoad]
  /\ requests = [q \in Requests |-> Idle]

Running(l) == loads[l].key # None
KeyOf(q) == <<requests[q].repo, requests[q].revision>>

(***************************************************************************)
(* Invalidation                                                            *)
(***************************************************************************)
\* The entries that are left once those of some keys are deleted, in their order.
Without(seq, keys) ==
  LET left[n \in 0..Len(seq)] ==
        IF n = 0 THEN <<>>
        ELSE IF seq[n].key \in keys THEN left[n - 1] ELSE Append(left[n - 1], seq[n])
  IN left[Len(seq)]

EntriesWithout(repo) == Without(entries, {k \in Keys : k[1] = repo})
InFlightWithout(repo) == [k \in Keys |-> IF k[1] = repo THEN None ELSE inFlight[k]]

\* A load that requests can still join is aborted; every load becomes stale.
LoadsWithout(repo) ==
  [l \in Loads |->
    IF ~Running(l) \/ loads[l].key[1] # repo THEN loads[l]
    ELSE [loads[l] EXCEPT !.stale = TRUE, !.aborted = @ \/ inFlight[loads[l].key] = l]]

\* invalidateRepository, called when a repository is deleted or its indexing completes.
Invalidate(repo) ==
  /\ entries' = EntriesWithout(repo)
  /\ inFlight' = InFlightWithout(repo)
  /\ loads' = LoadsWithout(repo)
  /\ UNCHANGED <<current, known, requests>>

(***************************************************************************)
(* The database: a publication, a deletion, and the read of a revision      *)
(***************************************************************************)
ChangeRevision(repo, revision) ==
  /\ current[repo] # revision
  /\ current' = [current EXCEPT ![repo] = revision]
  /\ UNCHANGED <<known, entries, inFlight, loads, requests>>

\* versionProvider reads the revision; None stands for an error or no revision.
ReadRevision(q) ==
  /\ requests[q].at = "asked"
  /\ \E revision \in {current[requests[q].repo], None} :
       requests' = [requests EXCEPT ![q].at = "answered", ![q].revision = revision]
  /\ UNCHANGED <<current, known, entries, inFlight, loads>>

(***************************************************************************)
(* getOrLoad                                                               *)
(***************************************************************************)
Ask(q, repo) ==
  /\ requests[q].at = "idle"
  /\ requests' = [requests EXCEPT ![q] =
       [at |-> "asked", repo |-> repo, revision |-> None]]
  /\ UNCHANGED <<current, known, entries, inFlight, loads>>

\* observeRepositoryVersion finds another revision than the last one seen.
Changed(q) ==
  /\ requests[q].revision # None
  /\ known[requests[q].repo] \notin {None, requests[q].revision}

\* Mutant of AfterObserving: nothing is invalidated.
AfterObservingNothing(q) == [entries |-> entries, inFlight |-> inFlight, loads |-> loads]

\* The cache as the rest of the request finds it.
AfterObserving(q) ==
  IF Changed(q)
  THEN [entries |-> EntriesWithout(requests[q].repo),
        inFlight |-> InFlightWithout(requests[q].repo),
        loads |-> LoadsWithout(requests[q].repo)]
  ELSE [entries |-> entries, inFlight |-> inFlight, loads |-> loads]

Observe(q) ==
  known' = IF requests[q].revision = None THEN known
           ELSE [known EXCEPT ![requests[q].repo] = requests[q].revision]

Cached(cache, key) == {e \in ToSet(cache.entries) : e.key = key}
EntriesBut(cache, key) == Without(cache.entries, {key})

\* A cached result is returned and becomes the most recently used.
Hit(q) ==
  LET cache == AfterObserving(q)
      key == KeyOf(q)
  IN /\ requests[q].at = "answered"
     /\ requests[q].revision # None
     /\ Observe(q)
     /\ \E e \in Cached(cache, key) : entries' = Append(EntriesBut(cache, key), e)
     /\ inFlight' = cache.inFlight
     /\ loads' = cache.loads
     /\ requests' = [requests EXCEPT ![q] = Idle]
     /\ UNCHANGED current

Waits(q) == requests' = [requests EXCEPT ![q].at = "waiting"]

\* Nothing is cached, or it has expired and is evicted: the request joins the load in
\* flight.  waitFor does not look whether that load has been aborted.
Join(q) ==
  LET cache == AfterObserving(q)
      l == cache.inFlight[KeyOf(q)]
  IN /\ requests[q].at = "answered"
     /\ l # None
     /\ Observe(q)
     /\ entries' = EntriesBut(cache, KeyOf(q))
     /\ inFlight' = cache.inFlight
     /\ loads' = [cache.loads EXCEPT ![l].waiters = @ \cup {q}]
     /\ Waits(q)
     /\ UNCHANGED current

\* Mutant of BeginLoad: it begins beside a load of the same key.
BeginLoadAlways(q, l) ==
  LET cache == AfterObserving(q)
      key == KeyOf(q)
  IN /\ requests[q].at = "answered"
     /\ ~Running(l)
     /\ Observe(q)
     /\ entries' = EntriesBut(cache, key)
     /\ inFlight' = [cache.inFlight EXCEPT ![key] = l]
     /\ loads' = [cache.loads EXCEPT ![l] =
                    [key |-> key, aborted |-> FALSE, stale |-> FALSE, waiters |-> {q}]]
     /\ Waits(q)
     /\ UNCHANGED current

\* No load is in flight: the request begins one.
BeginLoad(q, l) ==
  LET cache == AfterObserving(q)
      key == KeyOf(q)
  IN /\ requests[q].at = "answered"
     /\ cache.inFlight[key] = None
     /\ ~Running(l)
     /\ Observe(q)
     /\ entries' = EntriesBut(cache, key)
     /\ inFlight' = [cache.inFlight EXCEPT ![key] = l]
     /\ loads' = [cache.loads EXCEPT ![l] =
                    [key |-> key, aborted |-> FALSE, stale |-> FALSE, waiters |-> {q}]]
     /\ Waits(q)
     /\ UNCHANGED current

(***************************************************************************)
(* The load settles                                                        *)
(***************************************************************************)

\* Mutant of MayPut: the signal and the generation are not looked at.
MayPutAny(l) == loads[l].key[2] # None

\* Neither cancelled nor invalidated, and not a load that bypasses the cache.
MayPut(l) == ~loads[l].aborted /\ ~loads[l].stale /\ loads[l].key[2] # None

\* put: the least recently used entries make room.
Put(l) ==
  LET kept == Without(entries, {loads[l].key})
      all == Append(kept, [key |-> loads[l].key, stale |-> loads[l].stale])
  IN entries' = IF Len(all) > MaxEntries THEN Tail(all) ELSE all

\* Mutant of Settle: the waiters of an aborted load are forgotten.
SettleLive(l, succeeds) ==
  /\ Running(l)
  /\ IF succeeds /\ MayPut(l) THEN Put(l) ELSE UNCHANGED entries
  /\ inFlight' = IF inFlight[loads[l].key] = l
                 THEN [inFlight EXCEPT ![loads[l].key] = None] ELSE inFlight
  /\ loads' = [loads EXCEPT ![l] = NoLoad]
  /\ requests' = [q \in Requests |->
       IF q \in loads[l].waiters /\ ~loads[l].aborted THEN Idle ELSE requests[q]]
  /\ UNCHANGED <<current, known>>

\* The waiters get its result or its error; an aborted load may do either.
Settle(l, succeeds) ==
  /\ Running(l)
  /\ IF succeeds /\ MayPut(l) THEN Put(l) ELSE UNCHANGED entries
  /\ inFlight' = IF inFlight[loads[l].key] = l
                 THEN [inFlight EXCEPT ![loads[l].key] = None] ELSE inFlight
  /\ loads' = [loads EXCEPT ![l] = NoLoad]
  /\ requests' = [q \in Requests |-> IF q \in loads[l].waiters THEN Idle ELSE requests[q]]
  /\ UNCHANGED <<current, known>>

\* Mutant of Cancel: the load goes on without waiters.
CancelOnly(q) ==
  /\ requests[q].at # "idle"
  /\ requests' = [requests EXCEPT ![q] = Idle]
  /\ loads' = [l \in Loads |->
       IF q \notin loads[l].waiters THEN loads[l]
       ELSE [loads[l] EXCEPT !.waiters = @ \ {q}]]
  /\ UNCHANGED <<current, known, entries, inFlight>>

\* The caller's signal aborts: the last waiter to leave aborts the load.
Cancel(q) ==
  /\ requests[q].at # "idle"
  /\ requests' = [requests EXCEPT ![q] = Idle]
  /\ loads' = [l \in Loads |->
       IF q \notin loads[l].waiters THEN loads[l]
       ELSE [loads[l] EXCEPT !.waiters = @ \ {q}, !.aborted = @ \/ loads[l].waiters = {q}]]
  /\ UNCHANGED <<current, known, entries, inFlight>>

Next ==
  \/ \E repo \in Repositories :
       \/ Invalidate(repo)
       \/ \E revision \in Revisions \cup {None} : ChangeRevision(repo, revision)
       \/ \E q \in Requests : Ask(q, repo)
  \/ \E q \in Requests :
       \/ ReadRevision(q) \/ Hit(q) \/ Join(q) \/ Cancel(q)
       \/ \E l \in Loads : BeginLoad(q, l)
  \/ \E l \in Loads, succeeds \in BOOLEAN : Settle(l, succeeds)

Spec == Init /\ [][Next]_vars

(***************************************************************************)
(* Properties                                                              *)
(***************************************************************************)

\* What is cached of a repository is of one revision, the one a request saw last,
\* whatever order the answers to requests and the results of loads come in.
OneRevisionCached == \A e \in ToSet(entries) : e.key[2] = known[e.key[1]]

\* A load that was under way when its repository was deleted or indexed again does not
\* fill the cache afterwards, under the same revision or another.
NothingSurvivesInvalidation == \A e \in ToSet(entries) : ~e.stale

\* Of all the loads for a key at most one has not been told to stop.
SingleFlight ==
  \A l, m \in {n \in Loads : Running(n) /\ ~loads[n].aborted} :
    loads[l].key = loads[m].key => l = m

\* Work that nobody waits for is told to stop, so an abandoned search does not go on.
NoUnwantedWork == \A l \in Loads : Running(l) /\ loads[l].waiters = {} => loads[l].aborted

\* A request that waits does so for one load that is running: neither a cancellation of
\* others nor an invalidation leaves it without an answer to come.
WaitersAreServed ==
  \A q \in Requests : requests[q].at = "waiting" =>
    Cardinality({l \in Loads : Running(l) /\ q \in loads[l].waiters}) = 1
=============================================================================
