----------------------------- MODULE MCRecords -----------------------------
(***************************************************************************)
(* What the server and its clients keep about a repository's use: chats,    *)
(* the repository itself, its knowledge, sandboxes, sessions, coordinated   *)
(* executions, cached results, rate limits, and the dashboard's stream.     *)
(* These components share no state in the models, so one run checks them    *)
(* side by side: "part" says which one a behaviour is about, and the others *)
(* stay as they began.                                                      *)
(***************************************************************************)
EXTENDS Naturals, FiniteSets, Sequences, TLC

CONSTANTS
  Firsts, Seconds,  \* workers, callers or clients, and what they act on
  Deletions, Retention, MaxJobs, Crashes,                       \* of RepositoryLifecycle
  Entries, Memories, Facts, OfEntry, OfVersion, ExpiresAt,      \* of RepositoryKnowledge
  EntryQuota, VersionQuota, MemoryQuota, RetainedEntries, RetainedMemories, MaxTime, Removals,
  Sandboxes, ActivePerOwner, LeasesPerOwner, LeaseTime,         \* of RepositorySandbox
  PreparationTimeout, RetainedSandboxes, RetainedRecoveries, MaxClock, Starts, MaxLives, MaxVersion,
  Sessions, Revisions, Workflows, RevisionOf, WorkflowOf,       \* of RepositorySession
  Expiration, MaxHistory, MaxHour, MaxUpdates, Restarts,
  Stages, Internal, MaxCalls, MaxRecoveries, MaxMoves, Collections, \* of RepositoryExecutionCoordinator
  Repositories, Requests, MaxEntries,                           \* of RetrievalCache
  Limit, Window, Batch, MaxTries,                               \* of RateLimit
  MaxAttempts, MaxSubs,                                         \* of IndexingStream
  Never, None

VARIABLES
  part,
  open, messages, order, records, lapsed, expiries, lock, phase, places, told, \* ChatSessions
  repository, lives, job, jobs, key, tombstone, disk, cleaner, worker, crashes, \* RepositoryLifecycle
  entry, memories, expired, published, time, remembering, collected, \* RepositoryKnowledge
  sandbox, leaseRows, standing, clock, leasing, claim, starting, starts, sandboxes, \* RepositorySandbox
  session, head, hour, operating, listing, restarts, \* RepositorySession
  row, fresh, call, calls, recoveries, moves, removed, \* RepositoryExecutionCoordinator
  current, known, entries, inFlight, loads, requests, \* RetrievalCache
  count, locked, request, tries, passed, now, \* RateLimit
  subs, active, view \* IndexingStream

chatVars == <<open, messages, order, records, lapsed, expiries, lock, phase, places, told>>
lifecycleVars ==
  <<repository, lives, job, jobs, key, tombstone, disk, cleaner, worker, crashes>>
knowledgeVars == <<entry, memories, expired, published, time, remembering, collected>>
sandboxVars ==
  <<sandbox, leaseRows, standing, clock, leasing, claim, starting, starts, sandboxes>>
sessionVars == <<session, head, hour, operating, listing, restarts>>
coordinatorVars == <<row, fresh, call, calls, recoveries, moves, removed>>
cacheVars == <<current, known, entries, inFlight, loads, requests>>
limiterVars == <<count, locked, request, tries, passed, now>>
streamVars == <<subs, active, view>>

\* Two asks with one key and one with a key of its own; or a third that has
\* the same key and asks something else.
TwoKeys == INSTANCE ChatSessions WITH
  Asks <- {"a", "b", "c"}, Notes <- {}, MaxExpiries <- 1,
  Key <- [x \in {"a", "b", "c"} |-> IF x = "c" THEN "l" ELSE "k"],
  Question <- [x \in {"a", "b", "c"} |-> IF x = "c" THEN "other" ELSE "one"]
OneKey == INSTANCE ChatSessions WITH
  Asks <- {"a", "b", "c"}, Notes <- {"n"}, MaxExpiries <- 1,
  Key <- [x \in {"a", "b", "c"} |-> "k"],
  Question <- [x \in {"a", "b", "c"} |-> IF x = "c" THEN "other" ELSE "one"]

\* Requests to delete while the backend crashes and checkouts are collected; or
\* two that it answers.
Lifecycle(deleters, keeping, crashing) == INSTANCE RepositoryLifecycle WITH
  Requests <- deleters, Workers <- Firsts, Revisions <- Seconds,
  Retention <- keeping, Crashes <- crashing
Twice == {"q1", "q2"}

\* Any entries and memories (of two entries the first one's first version is
\* remembered and expires at once, and archived entries are removed); or the
\* memories of two versions of one entry that stays.
MCOfEntry == [m \in Memories |-> "e1"]
MCOfVersion == [m \in Memories |-> 1]
MCExpiresAt == [m \in Memories |-> 0]
Knowledge(of) == INSTANCE RepositoryKnowledge WITH
  Callers <- Firsts, Entries <- of.entries, Memories <- of.memories,
  Revisions <- of.revisions, Facts <- of.facts, OfEntry <- of.entry, OfVersion <- of.version,
  ExpiresAt <- of.expires, EntryQuota <- of.quota, VersionQuota <- of.versions,
  MaxClock <- of.hours, Collections <- of.collections,
  rows <- entry, current <- published, clock <- time, call <- remembering
Kept ==
  [entries |-> Entries, memories |-> Memories, revisions |-> Seconds, facts |-> Facts,
   entry |-> OfEntry, version |-> OfVersion, expires |-> ExpiresAt,
   quota |-> EntryQuota, versions |-> VersionQuota, hours |-> MaxTime, collections |-> Removals]
Remembered ==
  [entries |-> {"e1"}, memories |-> {"m1", "m2"}, revisions |-> {"v"}, facts |-> {"f1", "f2"},
   entry |-> [m \in {"m1", "m2"} |-> "e1"],
   version |-> [m \in {"m1", "m2"} |-> IF m = "m1" THEN 1 ELSE 2],
   expires |-> [m \in {"m1", "m2"} |-> IF m = "m1" THEN 1 ELSE Never],
   quota |-> 1, versions |-> 2, hours |-> 1, collections |-> 0]

\* Any workers (two for one sandbox); one worker, and sandboxes whose rows
\* are removed; or two workers, and a sandbox more than they can hold.
Lending(of) == INSTANCE RepositorySandbox WITH
  Sandboxes <- of.sandboxes, Workers <- of.workers, LeaseTime <- of.term, Hung <- FALSE,
  MaxClock <- of.hours, Starts <- of.starts, MaxLives <- of.lives,
  rows <- sandbox, call <- leasing, lives <- sandboxes
Leased ==
  [sandboxes |-> Sandboxes, workers |-> Firsts, term |-> LeaseTime,
   hours |-> MaxClock, starts |-> Starts, lives |-> MaxLives]
Collected ==
  [sandboxes |-> Seconds, workers |-> {"w"}, term |-> 1, hours |-> 1, starts |-> 1, lives |-> 2]
Contended ==
  [sandboxes |-> Seconds \union {"s"}, workers |-> Firsts, term |-> 1, hours |-> 0, starts |-> 0,
   lives |-> 1]

MCRevisionOf == [s \in Sessions |-> "r1"]
MCWorkflowOf == [s \in Sessions |-> None]
Opened == INSTANCE RepositorySession WITH
  Callers <- Firsts, MaxClock <- MaxHour, MaxVersion <- MaxUpdates, Starts <- Restarts,
  rows <- session, current <- head, clock <- hour, call <- operating, starts <- restarts

\* Any calls (two at once over three stages, of which one cannot fall short);
\* or one caller's in turn, over the seven stages there are.  What is stored is
\* collected only where no two calls overlap.
MCStages == <<"query", "impact verification", "completion">>
Coordination(of) == INSTANCE RepositoryExecutionCoordinator WITH
  Callers <- of.callers, Stages <- of.stages, Internal <- of.internal,
  MaxMoves <- of.moves, Collections <- of.collections,
  current <- fresh, collected <- removed
Overlapping ==
  [callers |-> Firsts, stages |-> Stages, internal |-> Internal,
   moves |-> MaxMoves, collections |-> Collections]
Alone ==
  [callers |-> {"c"},
   stages |-> <<"query", "task planning", "specification generation", "impact verification",
                "review preparation", "execution readiness", "completion">>,
   internal |-> {"impact verification", "review preparation"}, moves |-> 1, collections |-> 1]

Cached == INSTANCE RetrievalCache WITH Loads <- Seconds
Limited == INSTANCE RateLimit WITH
  Requests <- Firsts, Keys <- Seconds,
  row <- count, lock <- locked, clock <- now
Stream == INSTANCE IndexingStream WITH Views <- Firsts

ASSUME RecordsAssumption ==
  /\ TwoKeys!ChatAssumption /\ OneKey!ChatAssumption
  /\ Lifecycle(Twice, Retention, 0)!LifecycleAssumption
  /\ Lifecycle(Deletions, 1, Crashes)!LifecycleAssumption
  /\ Knowledge(Kept)!KnowledgeAssumption /\ Knowledge(Remembered)!KnowledgeAssumption
  /\ Lending(Leased)!SandboxAssumption /\ Lending(Collected)!SandboxAssumption
  /\ Lending(Contended)!SandboxAssumption
  /\ Opened!SessionAssumption
  /\ Coordination(Overlapping)!CoordinatorAssumption /\ Coordination(Alone)!CoordinatorAssumption
  /\ Collections = 0 \/ \A c, d \in Firsts : c = d
  /\ Cached!EntriesAssumption /\ Cached!NoneAssumption
  /\ Limited!RateLimitAssumption
  /\ Stream!StreamAssumption

Symmetry == Permutations(Firsts) \union Permutations(Seconds)

\* What a component keeps that a behaviour is not about.
NoChat ==
  open = None /\ messages = None /\ order = None /\ records = None /\ lapsed = None /\
     expiries = None /\ lock = None /\ phase = None /\ places = None /\ told = None
NoLifecycle ==
  repository = None /\ lives = None /\ job = None /\ jobs = None /\ key = None /\
     tombstone = None /\ disk = None /\ cleaner = None /\ worker = None /\ crashes = None
NoKnowledge ==
  entry = None /\ memories = None /\ expired = None /\ published = None /\ time = None /\
     remembering = None /\ collected = None
NoSandbox ==
  sandbox = None /\ leaseRows = None /\ standing = None /\ clock = None /\ leasing = None /\
     claim = None /\ starting = None /\ starts = None /\ sandboxes = None
NoSession ==
  session = None /\ head = None /\ hour = None /\ operating = None /\ listing = None /\
     restarts = None
NoCoordinator ==
  row = None /\ fresh = None /\ call = None /\ calls = None /\ recoveries = None /\
     moves = None /\ removed = None
NoCache ==
  current = None /\ known = None /\ entries = None /\ inFlight = None /\ loads = None /\
     requests = None
NoLimiter ==
  count = None /\ locked = None /\ request = None /\ tries = None /\ passed = None /\
     now = None
NoStream ==
  subs = None /\ active = None /\ view = None

Init ==
  /\ part \in {"two keys", "one key", "deleted", "crashed", "kept", "remembered", "leased",
               "collected", "contended", "opened", "overlapping", "alone", "cached", "limited",
               "stream"}
  /\ CASE part = "two keys" -> TwoKeys!Init
       [] part = "one key" -> OneKey!Init
       [] OTHER -> NoChat
  /\ CASE part = "deleted" -> Lifecycle(Twice, Retention, 0)!Init
       [] part = "crashed" -> Lifecycle(Deletions, 1, Crashes)!Init
       [] OTHER -> NoLifecycle
  /\ CASE part = "kept" -> Knowledge(Kept)!Init
       [] part = "remembered" -> Knowledge(Remembered)!Init
       [] OTHER -> NoKnowledge
  /\ CASE part = "leased" -> Lending(Leased)!Init
       [] part = "collected" -> Lending(Collected)!Init
       [] part = "contended" -> Lending(Contended)!Init
       [] OTHER -> NoSandbox
  /\ IF part = "opened" THEN Opened!Init ELSE NoSession
  /\ CASE part = "overlapping" -> Coordination(Overlapping)!Init
       [] part = "alone" -> Coordination(Alone)!Init
       [] OTHER -> NoCoordinator
  /\ IF part = "cached" THEN Cached!Init ELSE NoCache
  /\ IF part = "limited" THEN Limited!Init ELSE NoLimiter
  /\ IF part = "stream" THEN Stream!Init ELSE NoStream

\* A step of one part leaves what the others keep as it is.
Chatting ==
  /\ \/ part = "two keys" /\ TwoKeys!Next
     \/ part = "one key" /\ OneKey!Next
  /\ UNCHANGED <<part, lifecycleVars, knowledgeVars, sandboxVars,
                 sessionVars, coordinatorVars, cacheVars, limiterVars, streamVars>>
Living ==
  /\ \/ part = "deleted" /\ Lifecycle(Twice, Retention, 0)!Next
     \/ part = "crashed" /\ Lifecycle(Deletions, 1, Crashes)!Next
  /\ UNCHANGED <<part, chatVars, knowledgeVars, sandboxVars, sessionVars,
                 coordinatorVars, cacheVars, limiterVars, streamVars>>
Knowing ==
  /\ \/ part = "kept" /\ Knowledge(Kept)!Next
     \/ part = "remembered" /\ Knowledge(Remembered)!Next
  /\ UNCHANGED <<part, chatVars, lifecycleVars, sandboxVars, sessionVars,
                 coordinatorVars, cacheVars, limiterVars, streamVars>>
Leasing ==
  /\ \/ part = "leased" /\ Lending(Leased)!Next
     \/ part = "collected" /\ Lending(Collected)!Next
     \/ part = "contended" /\ Lending(Contended)!Next
  /\ UNCHANGED <<part, chatVars, lifecycleVars, knowledgeVars, sessionVars,
                 coordinatorVars, cacheVars, limiterVars, streamVars>>
Opening ==
  /\ part = "opened" /\ Opened!Next
  /\ UNCHANGED <<part, chatVars, lifecycleVars, knowledgeVars, sandboxVars,
                 coordinatorVars, cacheVars, limiterVars, streamVars>>
Coordinating ==
  /\ \/ part = "overlapping" /\ Coordination(Overlapping)!Next
     \/ part = "alone" /\ Coordination(Alone)!Next
  /\ UNCHANGED <<part, chatVars, lifecycleVars, knowledgeVars, sandboxVars,
                 sessionVars, cacheVars, limiterVars, streamVars>>
Caching ==
  /\ part = "cached" /\ Cached!Next
  /\ UNCHANGED <<part, chatVars, lifecycleVars, knowledgeVars, sandboxVars,
                 sessionVars, coordinatorVars, limiterVars, streamVars>>
Limiting ==
  /\ part = "limited" /\ Limited!Next
  /\ UNCHANGED <<part, chatVars, lifecycleVars, knowledgeVars, sandboxVars,
                 sessionVars, coordinatorVars, cacheVars, streamVars>>
Streaming ==
  /\ part = "stream" /\ Stream!Next
  /\ UNCHANGED <<part, chatVars, lifecycleVars, knowledgeVars, sandboxVars,
                 sessionVars, coordinatorVars, cacheVars, limiterVars>>

Next ==
  Chatting \/ Living \/ Knowing \/ Leasing \/ Opening \/ Coordinating \/ Caching \/ Limiting
    \/ Streaming

vars ==
  <<part, chatVars, lifecycleVars, knowledgeVars, sandboxVars, sessionVars,
    coordinatorVars, cacheVars, limiterVars, streamVars>>
Spec == Init /\ [][Next]_vars

-----------------------------------------------------------------------------
(***************************************************************************)
(* Properties: of every part what its module says of it.                    *)
(***************************************************************************)
TypesKept ==
  /\ part = "two keys" => TwoKeys!TypeOK
  /\ part = "one key" => OneKey!TypeOK
  /\ part = "deleted" => Lifecycle(Twice, Retention, 0)!TypeOK
  /\ part = "crashed" => Lifecycle(Deletions, 1, Crashes)!TypeOK
  /\ part = "kept" => Knowledge(Kept)!TypeOK
  /\ part = "remembered" => Knowledge(Remembered)!TypeOK
  /\ part = "leased" => Lending(Leased)!TypeOK
  /\ part = "collected" => Lending(Collected)!TypeOK
  /\ part = "contended" => Lending(Contended)!TypeOK
  /\ part = "opened" => Opened!TypeOK
  /\ part = "overlapping" => Coordination(Overlapping)!TypeOK
  /\ part = "alone" => Coordination(Alone)!TypeOK
  /\ part = "cached" => Cached!TypeOK
  /\ part = "limited" => Limited!TypeOK
  /\ part = "stream" => Stream!TypeOK

\* A turn of a chat is stored whole and once for its key, what its clients
\* are answered is what is stored, and the turns do not mix: with retries
\* after a timeout, servers that are cut off, and keys that expire.
TurnsAreStoredOnce ==
  /\ part = "two keys" => TwoKeys!StoredOncePerKey /\ TwoKeys!SameAnswer
                          /\ TwoKeys!TurnsDoNotInterleave
  /\ part = "one key" => OneKey!StoredOncePerKey /\ OneKey!SameAnswer
                         /\ OneKey!AnswersAreStored

\* What is answered, kept, cached, let through or shown belongs to what there
\* is now: a connection's answer and the sandboxes to the repository that is
\* connected, what is cached to the revision that was seen last, the requests
\* let through to the window its row is in, what is shown to the one open
\* stream; and where nothing is deleted and all checkouts are retained, the
\* published one is in its place.
NothingOutlivesItsCause ==
  /\ part = "deleted" => /\ Lifecycle(Twice, Retention, 0)!AnsweredAgainIsConnected
                         /\ Lifecycle(Twice, Retention, 0)!PublishedStays
  /\ part = "crashed" => Lifecycle(Deletions, 1, Crashes)!AnsweredAgainIsConnected
  /\ part = "cached" => Cached!OneRevisionCached /\ Cached!NothingSurvivesInvalidation
  /\ part = "leased" => Lending(Leased)!NoneOfADeleted
  /\ part = "collected" => Lending(Collected)!NoneOfADeleted
  /\ part = "contended" => Lending(Contended)!NoneOfADeleted
  /\ part = "limited" => Limited!LimitPerWindow
  /\ part = "stream" => Stream!OneStream /\ Stream!EndShown

\* Who was told that it holds something, waits for something or has an answer
\* finds it stored so: a worker its lease until the repository is deleted, a
\* request the load that serves it, a caller the coordinated execution it was
\* answered with.  One worker's leases are within the owner's quota; each
\* further worker may take it past it by one.
WhatWasToldHolds ==
  /\ part = "leased" => Lending(Leased)!HeldIsLeased /\ Lending(Leased)!LeaseQuota
  /\ part = "collected" => Lending(Collected)!HeldIsLeased /\ Lending(Collected)!LeaseQuota
  /\ part = "contended" => Lending(Contended)!HeldIsLeased /\ Lending(Contended)!LeaseQuota
  /\ part = "cached" => Cached!SingleFlight /\ Cached!NoUnwantedWork /\ Cached!WaitersAreServed
  /\ part = "overlapping" => Coordination(Overlapping)!AnswersStand
  /\ part = "alone" => Coordination(Alone)!AnswersStand

\* What was begun earlier does not reach into what came after it: a worker
\* publishes into the repository it was started for and no failed build takes
\* its published checkout away, a deletion takes what its request saw, a
\* starting backend passes over nothing it has to recover, an operation of a
\* session completes what it began, and a record passes to another call at that
\* call's start only.  (The cleanup of a deletion and what a worker of an
\* earlier life still removes do reach the checkouts of a later one.)
StepsOfTheirOwnLife ==
  [][/\ part = "deleted" => /\ Lifecycle(Twice, Retention, 0)!PublishesIntoItsLife
                            /\ Lifecycle(Twice, Retention, 0)!DeletesWhatItSaw
                            /\ Lifecycle(Twice, Retention, 0)!KeepsPublished
     /\ part = "crashed" => /\ Lifecycle(Deletions, 1, Crashes)!PublishesIntoItsLife
                            /\ Lifecycle(Deletions, 1, Crashes)!DeletesWhatItSaw
                            /\ Lifecycle(Deletions, 1, Crashes)!KeepsPublished
     /\ part = "leased" => Lending(Leased)!RecoversOrStops
     /\ part = "collected" => Lending(Collected)!RecoversOrStops
     /\ part = "contended" => Lending(Contended)!RecoversOrStops
     /\ part = "opened" => Opened!CompletesOwn
     /\ part = "overlapping" => Coordination(Overlapping)!TakenOverAtStart
     /\ part = "alone" => Coordination(Alone)!TakenOverAtStart]_vars

\* Records are only added to and ends are final: versions, histories, memories,
\* archived and released records, and the count of a window.  A completed
\* execution is lost only to the start of a call that had looked for it before
\* it was completed, however the calls overlap.
RecordsStand ==
  [][/\ part = "kept" => Knowledge(Kept)!AddsVersions /\ Knowledge(Kept)!KeepsArchived
                         /\ Knowledge(Kept)!ReplacesNoMemory
     /\ part = "remembered" =>
          /\ Knowledge(Remembered)!AddsVersions /\ Knowledge(Remembered)!KeepsArchived
          /\ Knowledge(Remembered)!ReplacesNoMemory /\ Knowledge(Remembered)!MemoriesMatch'
     /\ part = "leased" => Lending(Leased)!RevivesNone
     /\ part = "collected" => Lending(Collected)!RevivesNone
     /\ part = "contended" => Lending(Contended)!RevivesNone
     /\ part = "opened" => Opened!HistoryGrows /\ Opened!ArchivedStays
     /\ part = "overlapping" => Coordination(Overlapping)!StaysCompleted
     /\ part = "alone" => Coordination(Alone)!StaysCompleted
     /\ part = "limited" => Limited!CountsEach]_vars
=============================================================================
