# Giro: a TLA+ verification of the backend

Giro connects a GitHub repository, clones and indexes it in worker processes, and
answers questions and runs agents over the indexed revision. This directory holds TLA+ models
of the parts of it that have to be right under concurrency and failure, the TLC runs
that check them, and TLAPS proofs of the results that hold for all values of the constants.
Paths below are relative to the repository's `backend/`.

The durable state is in Postgres and almost every change to it is a stored procedure of
`supabase/migrations`, called by the API processes and by separate indexing workers. A stored
procedure is one transaction. The hard behaviours are therefore *between* procedures: processes
that stop between two calls, answers that are lost after the commit, executors that go on
calling after they have lost what they were executing, and saves that were computed from a row that has
changed since. The in-process protocols (breaker, cache, event streams, deadlines, shutdown) have the same
shape between two awaits.

## Inventory

| Component | State | Operations | Interacts with | What is hard, and what must hold |
|---|---|---|---|---|
| Indexing job queue (`services/indexing/jobs`, migrations 20260711, 15, 22, 24, 27, 29, 30) | `indexing_jobs`: status, attempt, claim, lease, failure; `repositories.status` and published revision | connect, create, claim, start, heartbeat, progress, complete, fail, retry, recover, publish, delete | called by API and workers; writes `repositories` | leases that lapse under a live executor, lost answers, retry after a crash; one active job per repository, one execution per attempt, newest success is what is shown |
| Worker process (`services/indexing/worker`, `indexingJobWorker.ts`) | poll loop, held claim, heartbeat timer, abort controller, health | poll, heartbeat, recover, drain, exit | queue, pipeline, `indexing_workers` | a pipeline outlives the wait for it; a heartbeat outlives its job; shutdown against a poll; readiness comes back |
| Snapshots and versions (20260726, 0803-0806) | `repository_snapshots`, embedding, graph and intelligence versions; `publishing_revision` | begin, stage, validate, publish, discard, fail, collect, recover | one version of each kind per job, published together | abandoned builds, discard racing the next attempt; published = complete, one current revision |
| Repository lifecycle (20260727, 29, 30; `repositoryDeletionService.ts`, `revisionCheckouts.ts`) | `repositories`, tombstones, idempotency rows, checkouts on disk | connect, delete, clean up, collect | queue, snapshots, files | deletion against workers, connection after deletion, clean-up repeated late |
| Progress events (`indexing/events`, `routes/repositoryIndexingEvents.ts`; in the browser `services/sse`) | observations, delivery queues; connections, timers | subscribe, poll, deliver, reconnect | job rows, routes, views | a terminal event that is never lost; one stream |
| Circuit breaker, retry, deadlines (`src/runtime`, `middleware/requestTimeout.ts`) | circuit, samples, probes; timers, attempts | run, permit, record; attempt, sleep, abort | every external call and request | late answers of a probe; nested deadlines; one response |
| Shutdown coordination (`src/runtime`) | tasks, phase | run, force, time out | API, worker | order, one result, within a limit |
| Rate limiting (20260728, `services/rateLimit`) | window counters | count, collect | every route | several API processes on one window, row locks |
| Retrieval cache | entries, loads in flight | load, join, invalidate, cancel | routes | an invalidation that races a load |
| Chat sessions and turns (20260731) | sessions, messages, idempotency records | ask, post, delete, expire | routes, AI provider | concurrent turns, a retry after a timeout |
| Execution orchestrator (20260808), agent runtime (0809), tool invocation (0810), collaboration (0811) | runs, units, leases, invocations, sessions | start, lease, complete, fail, cancel, review, recover | one on top of the other | leases, dependencies, quotas, replays |
| Workspace, artifact, review, proposal, apply (0812-0816) | versioned rows that name the versions they were built on | create, decide, expire, archive, recover | each on those before it | a decision on what has moved on |
| Knowledge memory (0817), workflow (0818), platform API (0819), sandbox (0820) | versioned rows, leases, records of keys | create, evolve, stage, approve, lease, recover | routes; the workflow calls the engines above | saves computed on old rows, quotas, start-up recovery |
| Intelligence lineage and cached engines (0821-0828) | semantic, feature and change graphs; queries, insights, evolutions, plans, specifications | index, save, reuse, recover, collect | published revision | results of a revision that is no longer current |
| Execution coordinator (0829), gateway (0830), engineering sessions (0831) | one record per request identity | coordinate, hit, stage, recover | engines above | the cached record taken over |
| Retrieval, ranking, analysers | none of their own | pure computations | - | functions, tested as such |
| Routes, contracts, configuration, observability, AI and database clients, rest of the frontend | none another part relies on | parsing, formatting, external calls | - | not candidates |

`PROJECT.json` lists the components with their status, and the hazards of the code line by
line with the property that guards each, or the reason none does.

## Modules

Rows and records keep the names of the code's fields. Time is kept as
"live or lapsed" flags that any step may turn, except where its amount matters (`RequestDeadline`,
`RateLimit`, the sandbox's and the session's clocks). Identities that are hashes of content are the content.

| Module | Code | What it is about |
|---|---|---|
| `IndexingJobs` | queue, worker processes, pipelines | fencing of jobs by leases and claims |
| `JobLedger` | - | what the queue promises: one outcome per holding, a visible revision |
| `IndexingJobsImplementsLedger` | - | the refinement mapping from `IndexingJobs` to `JobLedger` |
| `SnapshotPublication` | snapshots, artifacts, versions | how a repository comes to show a revision |
| `RepositoryLifecycle` | connect, delete, checkouts, clean-up | lives of a repository and what is on disk |
| `WorkerReadiness` | `continuousIndexingWorker.ts`, `services/health` | what a worker says of itself |
| `ProgressEvents` | progress publisher and its route | streams over a shared observation |
| `IndexingStream` | browser subscription, hook, view | what the user is shown of the stream |
| `CircuitBreaker` | `runtime/circuitBreaker.ts` | generations, probes, rolling window |
| `RequestDeadline` | `runtime/retry.ts`, request timeout, AI client | a request's deadline around a call's |
| `ShutdownCoordinator` | `runtime/shutdownCoordinator.ts` | ordered tasks and a forced stop |
| `RateLimit` | rate limit procedure and store | a window counted by several processes |
| `RetrievalCache` | `retrievalCache.ts` | shared loads and invalidation |
| `ChatSessions` | sessions store, ask route | turns stored once per key |
| `RepositoryExecution` | execution store, 20260808 | units leased under approvals and quotas |
| `AgentRuntime` | agent runtime procedures (20260809), executor | leased runtimes, fences asked before writes |
| `ToolInvocation` | tool invocation service and store | invocations replayed by identity |
| `MultiAgentCollaboration` | collaboration service and store | participants, work, reviews |
| `ChangePipeline` | five engines, 20260812-16 | from workspace to apply, version on version |
| `RepositoryKnowledge` | knowledge store, 20260817 | entries, their versions, memories of them |
| `AutonomousWorkflow` | workflow service, 20260818 | stages, attempts, approval |
| `PlatformIdempotency` | platform API, 20260819 | requests repeated under a key |
| `RepositorySandbox` | sandbox service, 20260820 | leases and recovery at start-up |
| `RepositoryExecutionCoordinator` | coordinator service, 20260829 | one record per request, taken over |
| `RepositorySession` | session service, 20260831 | sessions begun, attached, archived |

Five modules give these their values for TLC. `MCIndexingJobs` and `MCSnapshotPublication` extend one
module each. `MCEngines`, `MCRecords` and `MCProcesses` put several components side by side: in the models those
components share no variable (where one calls another, the caller's module has the calls it makes), so a product of
them would only multiply states that have nothing to say to each other. Instead a variable
`part` says which component a behaviour is about, that component takes the steps, and the others keep still:
the behaviours of a part are those of the component's own module. A property such as
`ResultsOfTheHolder` then says of each part what it means there.

| Module | Parts |
|---|---|
| `MCEngines` | the change pipeline (extended; twice more as an instance, with callers that take their time), `RepositoryExecution`, `AgentRuntime`, `ToolInvocation`, `MultiAgentCollaboration`, `AutonomousWorkflow`, `PlatformIdempotency` |
| `MCRecords` | `ChatSessions`, `RepositoryLifecycle`, `RepositoryKnowledge`, `RepositorySandbox`, `RepositorySession`, `RepositoryExecutionCoordinator`, `RetrievalCache`, `RateLimit`, `IndexingStream` |
| `MCProcesses` | `CircuitBreaker`, `ShutdownCoordinator`, `ProgressEvents`, `RequestDeadline`, `RateLimit`, `WorkerReadiness`, `ToolInvocation` without faults |

The modules whose names end in `Proofs` hold the TLAPS proofs; *Proofs* below says what each proves.

### IndexingJobs

*State.* `jobs[j]` is a row of `indexing_jobs` with status (`unborn` and `deleted` for no
row), repository, attempt, claimed_by and claim_token, the lease as live or lapsed, the retry
delay as due or not, and whether the failure is retryable. `repos[r]` has whether the row
exists, whether a deletion tombstone does, `status`, and `publisher`: the claim token of the
job whose publication set the current revision. `workers[w]` is where the poll of a process is and
the claim it holds. `pipelines` is the set of claims whose `executeRepositoryIndexingPipeline`
is still executing: `waitForDeadline` stops waiting and stops nothing, so a pipeline stays there
after its worker has moved on, and goes on calling the database until one of its calls is
refused, it ends, or the process exits.

*Actions.*

| Action | Code |
|---|---|
| `Connect` | `connect_repository_idempotently` with the `create_indexing_job` in it |
| `Delete` | `delete_repository_transactionally`: jobs, repository and tombstone in one transaction |
| `ClaimNext` | `claim_next_indexing_job`, the answer delivered or lost |
| `StartFails` | `authorizeIndexingJob` refuses or a call fails before the pipeline |
| `MarkRunning` | `mark_indexing_job_running`, accepted, accepted with the answer lost, or refused |
| `Abandon` | the wait for the pipeline ends without it: deadline, failed heartbeat call, abort |
| `Heartbeat` | `heartbeat_indexing_job`, renewed or refused |
| `BeginSnapshot`, `ReportProgress`, `Publish`, `PipelineFails` | the calls of a pipeline, its worker waiting or not: `begin_repository_snapshot`, `update_indexing_job_progress` refused, `publish_repository_snapshot`, an error with `discard_repository_snapshot` |
| `CompleteJob` | `complete_indexing_job` and what follows it in the worker |
| `MarkFailed` | the worker's catch block: `fail_indexing_job` accepted, refused or not reached |
| `ScheduleRetry` | `schedule_indexing_job_retry`, accepted, refused by its conditions or by the unique index, or lost |
| `RecoverStale` | `recover_stale_indexing_jobs` from any worker's loop or the API's start |
| `Crash`, `Restart` | a process exits with what it was executing; the supervisor starts it |
| `LeaseLapses`, `BackoffElapses` | time passes |

*Abstractions.* A claim token (a random uuid) is a number that grows, so that "newer" can be
stated; the code only compares tokens for equality and the model's actions do the same.
`repository_version` is left out: a compare-and-swap that succeeds read the current row, one that
fails changes nothing. Failure codes are "retryable" or "terminal", chosen freely. What a
snapshot contains, stages and percentages, health rows, and the checkouts on disk are not in
this module. `cancel_claimed_indexing_job` has no caller outside the store. Start-up clean-up of an
abandoned publication (`revisionCheckouts.ts:106`) depends on `publishing_revision`, which this
module does not keep and `SnapshotPublication` does.

### JobLedger

A job is absent, waiting, held under a number, succeeded, failed with another attempt to come, or
dead; a repository shows the holding that succeeded last. There are no workers, leases,
clocks or lost answers. `ImplementsLedger` says every behaviour of `IndexingJobs`, seen through
`PhaseOf`, is one of `JobLedger`: fencing makes all the machinery invisible.

### SnapshotPublication

One repository, and everything an indexing pipeline writes about a revision of it. The module looks
inside the step that `IndexingJobs` calls publication, and in return keeps of the queue only what the
stored procedures of publication compare.

*State.* `jobs[j]` has the status, the attempt and the lease; a claim is a job and its attempt, since an
attempt is claimed once. `repo` has the three revision pointers of `repositories`.
`snapshots[r]`, `artifacts` and `versions[kind][r]` are the rows of `repository_snapshots`,
`repository_artifacts` and of the embedding index, the graph and the intelligence, with the job that
builds each; `publications[kind]` is the publication row of a kind. `pipelines[e]` is what an executor has still to
call: the scripts `Begins`, then `Build`, `Restore` or `Republish` as the answers of the begins decide,
and `Discards`, the catch block. `recovering` is set between the two calls of start-up recovery.

*Actions.*

| Action | Code |
|---|---|
| `RequestJob`, `StartJob`, `LeaseLapses`, `FailJob`, `RetryJob`, `RecoverJob` | the queue; claim and start are one step, and the clone picks a revision |
| `BeginSnapshot` | `begin_repository_snapshot`: shown already, restorable, or a new build |
| `BeginVersion` | `begin_` procedures of the three kinds |
| `StoreChunk` | `hasChunk` and `storeChunk`, under the trigger that keeps an index immutable |
| `StageArtifacts`, `StageVersion`, `Validate` | the staging and validating procedures |
| `Publish` | `publish_repository_snapshot`, with its wrappers for the graph and the intelligence: one transaction over versions, snapshot, pointers and job |
| `DiscardEmbedding`, `FailIntelligence`, `DiscardGraph`, `DiscardSnapshot` | the calls of the catch block, in its order |
| `CollectSnapshots`, `CollectIntelligence` | `collect_repository_artifacts`, `collect_repository_intelligence_versions` |
| `RecoverVersions`, `FindAbandoned`, `MarkAbandonedFailed` | the start of the API process |
| `CallFails`, `PipelineDies` | a call is refused or never arrives; the process stops |

Every call that commits may also lose its answer (`Returns`, `Begun`), which sends the executor
where an error would: out of the pipeline before the `try`, to the next call where a call is caught by
itself, to the discards otherwise. `FailJob` and `RetryJob` may come at any time: the worker may have given up
waiting for a pipeline that goes on.

*Abstractions.* A revision fixes its content, so a part of it is either written or not: two chunks stand
for all, the graph and the intelligence are one call each, and validation finds an incomplete
version invalid and may find any other invalid too. The model, the dimension, the parser and the analysis
version are a deployment's and do not change, so a kind has one version of a revision. Quotas can
refuse a call, which `CallFails` covers. Which snapshots are the newest is left open in collection.
Left out: repository summaries, checkouts, the deletion cascade, and
`collect_repository_graph_versions` and `rollback_repository_revision`, which nothing calls. The later
`graphStore.publish` and `intelligenceStore.publish` of the pipeline write nothing new to Postgres.

### RepositoryLifecycle

*State.* `repository` is the row, numbered by its life; `job` its active job; `key` the idempotency
record of the connection; `tombstone` the record of the deletion; `disk` the revisions that have a
checkout; `worker` and `cleaner` where each worker and each deletion stands between its calls.

*Actions.* `Connect` is `connect_repository_idempotently`. `Ask`, `Delete`, `DeleteRefused` and
`DeleteRepeated` are `repositoryDeletionService.ts` around `delete_repository_transactionally`; `Clean`
and `Record` the removal of files after it and the note of how it ended. `Claim`, `Clone`, `Begin`, `Seal`,
`Publish`, `Fail`, `Discard`, `Remove`, `FailJob`, `Collect` are a worker on its own files. `Restart` is the
backend starting, which repeats the cleanups that are pending.
The queue is reduced to one claim per job (`IndexingJobs` has it in full).

*Seen while modelling.* A stale worker of a deleted repository can clone after the clean-up and leave a checkout no one removes. A collector that looked at
the row just before a publication may remove the checkout that is published. The memory
store refuses a reconnection that Postgres accepts.

### WorkerReadiness

*State.* `loop` is where the loop and its poll are, `state` the health the process keeps, `beat` the
heartbeats under way with the job each is of, `row` what `indexing_workers` says, `world` whether the database
answers. Time stamps are kept as ages.

*Actions.* The steps of `pollOnce` with what each records, the heartbeat that runs beside the job, the
shutdown and its timer, and the API's reading of the row. `IndexingJobs` has what the calls do to the queue.

*Seen while modelling.* The row of a stopped worker may be overwritten by a heartbeat that was in flight.

### ProgressEvents

*State.* `row` is the latest job, `observation` what the publisher has told its subscribers last,
`streams` the event streams with their delivery queues, `polls` the reads under way.

*Actions.* `Open`, `ReadJob`, `Subscribe`, `Deliver`, `Disconnect` are the route;
`StartPoll`, `PollReads`, `PollAnswers`, `PollFails` the shared observation; `JobAdvances` the worker, in
another process. A poll keeps the observation it was begun for, since the observation can be
dropped and begun again under it.

### IndexingStream

*State.* `view` is what each progress view shows, `sub` every subscription with its
connection, attempts and timer, `current` the stream the client holds to be its only one.

*Actions.* The subscription's connection, its answers and errors, the end of the stream, the delay of the
reconnection, and the view's mounting, retry and unmounting (`services/sse/indexing-events.ts`, the hook and
the view over it).

*Seen while modelling.* Attempts are counted over the whole life of a subscription. A view whose stream another view took over is stopped
without being told.

### CircuitBreaker

*State.* `circuit` (state, cooldown, probes), `samples`, `calls`. A new generation turns the probes in
flight into stale ones. *Actions.* `Start` and `End` of a call, with success, failure or an excused error;
`CooldownEnds`, `SampleAges`, and `GetState`, which moves an open circuit on.

*Seen while modelling.* A lone probe that is cancelled closes the circuit without a success. Failures of calls begun before the
opening are counted against a circuit that has closed since. With more than one probe, overlapping ones may keep a circuit half-open.

### RequestDeadline

*State.* A clock, the request's deadline, the provider call's inside it, the retry loop, the handler, the
response. *Actions.* An attempt succeeding or failing, the sleep and its end, either deadline's timer, the
client's disconnection, the handler's end. Timers fire at or after their time; an abort runs its listeners
at once. The stream after a call that has succeeded and the breaker's refusal are not part of it.

*Seen while modelling.* A 504 may come from the provider call's own deadline or from the retry loop refusing to sleep.

### ShutdownCoordinator

*State.* `phase`, the tasks in their order, and two asynchronous functions, `run` and `force`, that go on
beside each other once the timer has fired. *Actions.* A signal, a task ending or failing, the timer,
and the flushes. A task may hang: nothing is assumed of it.

### RateLimit

*State.* The committed rows, who has locked which, and each request's transaction. *Actions.* `Arrive`, and
`Works`: the upsert (which waits for the row's lock and reads it again), the choice of expired rows on
the statement's snapshot, their deletion one lock at a time, the commit, and the abort of a deadlock.

*Seen while modelling.* Requests that collect each other's expired rows can deadlock; Postgres aborts one, and the route answers 500.
`Retry-After` compares the application's clock with the database's `reset_at`.

### RetrievalCache

*State.* The revision each repository shows and the one a request saw last, the entries in their order
of use, the load in flight of each key, and the requests. *Actions.* `Ask` and `ReadRevision` around the first
await; `Hit`, `Join`, `BeginLoad`; `Settle` after the second; `Cancel`, `Invalidate`, `ChangeRevision`.

### ChatSessions

*State.* The session's messages with their places in its order, the records of idempotency keys, the row's
lock, and where each ask is. *Actions.* An ask receives, looks its key up, generates, and commits in
a transaction of several steps (`Begin`, `FindStored`, `FindDeleted`, `Commit`, `RollBack`);
`Expire` is its deadline. `Post` and `StoreNote` are a message that takes its number before it waits for
the lock. `Delete`, `CleanUp`, `Lapse` are the session's end and the expiry of a record.

*Seen while modelling.* A posted message may stand between a turn's question and its answer. A retry after a 504 without an
`Idempotency-Key`, or after the key's record has expired, stores a second turn.

### RepositoryExecution

*State.* `run[r]` is a run with its units: status, attempt (which is the claim token), lease, output;
`counted` the calls for a unit that have counted the user's leases and not looked for a unit yet.

*Actions.* `Create` under the quota, `Approve`, `Reject`, `Stop`, `CountLeases`, `LeaseNext`, `LeaseNone`, `Heartbeat`,
`PublishOutput`, `FailUnit`, `Review`, `Expire`, `Recover`, `BecomeOverdue`. The constant `Durable` selects the memory
store, which the repository's tests exercise, or the procedures of migration 20260808, on which the program runs;
each guard that only one has names it. `lease_repository_execution_work_unit` counts the user's leases (595-604) before it
locks anything, so the count and the lease are two steps, with the steps of any other call between them. Otherwise a call on a run is
one step. Two reads stay within theirs although no lock covers them, and the properties claim nothing that depends on it: the count of active
runs in `create_repository_execution` (398-404), and `refresh_repository_execution` (240-286), which reads all units of a run while its
caller has locked one.

*Seen while modelling.* The leases of a user exceed the quota by one for every further call that overlaps. Two calls that end a run's last
two units at once may each miss the other's, and leave a run whose units have ended running until something refreshes it again.

### AgentRuntime

*State.* `runtime[r]` is the row of a runtime with its lease and its outputs, `executor[e]` where an executor is, with the claim it holds
and the output version its fence has read, `candidate` what a recovery has selected.

*Actions.* The procedures of migration 20260809 ask before they lock: the count of the tenant's leases (304-308), the fence (341-347) and
the selection of a recovery are reads of rows that are not locked, and what they decide is written later whatever the row is by then. So each is
two steps: `CountLeases`, then `LeaseNext` or `LeaseNone`; `AskStart` or `AskPause`, then `Transition`; `AskPublish`, then `Publish`; `AskFail`, then
`Fail`; `FindCandidates`, then `Recover` or `SkipCandidate` for each. `Heartbeat` may come late and renews the lease that is there. `Cancel` and
`Supersede` delete the lease and the outputs that are there when their statements run (`deleted`, `seen`). `Crash`, `Expire` and `BecomeOverdue` may come at any time.

*Abstractions.* A recovery's clock is the server's and may be ahead. `collect_agent_runtimes` is left out, and so is the count of active runtimes
at creation, which is unlocked and refuses none of the creations that overlap.

*Seen while modelling.* A call under way overwrites what was decided meanwhile: a runtime that was cancelled or superseded after the fence is set to completed, or
to running without a lease, where nothing takes it up until it is overdue and a backend starts. A late failure puts a runtime that has completed or failed back to
ready, also beyond its retries, and deletes the lease of the claim that came after. A ready runtime whose lease has been left behind cannot be leased
until a recovery: the insertion fails. Overdue runtimes are passed over at leasing (312) and keep their status.

### ToolInvocation

*State.* `record[i]` in the store, `caller[c]` within `ToolInvocationService.invoke`. *Actions.* `Replay`, `Refuse`
and `Acquire` are the answers of the store's first call; `Working` the start, the handler, the retry and
the publication, any of which may fail before or after it commits; `Crash`, `Expire`, `Recover`.

*Seen while modelling.* An invocation that failed retryably and used its retries up is replayed as failed for ever.

### MultiAgentCollaboration

*State.* `session` as stored, and the `outcome` each server has worked out on the session it loaded. *Actions.*
`Schedule`, `ParticipantStep` (register, lease, heartbeat, start, answer, ask for a review, review, release),
`Transition`, `Recover`, and `Persist`, which saves an outcome when the version is still the one loaded.

*Seen while modelling.* A repeated request for review asks another reviewer. Releasing a unit that awaits its review leaves that review
unanswerable. A participant that was abandoned cannot register again.

### ChangePipeline

*State.* `rows`: the workspace, its artifacts and reviews, the proposal and the transaction, each with the
versions of the other rows that every one of its versions was built on; `held`, what a slow caller loaded,
and `moved`, the rows saved since.

*Actions.* The operations of the five engines (`WorkspaceStep`, `ArtifactStep`, `ReviewStep`,
`ProposalStep`, `TransactionStep`), each on fresh or on held inputs, with what its save procedure compares;
`RecoveryStep` at start-up; `Lapse`, `ChangeRevision`. Applying is left to the operator: nothing in the
program executes an apply or a rollback plan, it prepares and confirms them.

*Seen while modelling.* An archived artifact or review blocks deciding and expiring its proposal. The replay of a decision is unreachable once
decided. The quota of active rows per owner refuses nothing in the Postgres store.

### RepositoryKnowledge

*State.* `rows` (entries) and `memories`, and each caller's call between loading and saving. *Actions.*
`Create`, `Evolve`, `Archive`, `Remember`; `Count` and `Persist`, `Check` and `Insert`, the two halves of a
save; `Recover`, `Collect`, `Publish`, `Tick`.

*Seen while modelling.* After a re-publication a subject known at an older revision can be neither evolved nor archived; an archived subject
cannot be recorded again until it is collected. A call that loaded an entry before it was collected and
created anew can save over the new one. At run time only retrieval, verification and recovery are called.

### AutonomousWorkflow

*State.* `flow`, the workflow's row, and how many of a stage's calls have taken effect (`made`); the run the
execution stage creates and its consent; callers, and the user who approves or cancels. *Actions.* `StageStep`
(begin, call, complete, fail, retry, resume), `UserStep`, `Expire`, `Recover`, `Publish`.

*Seen while modelling.* Stages that have expired are recovered only when a backend starts. A stage interrupted before its repository moved on
cannot be saved as failed: recovery throws and the backend exits, as it does for workspaces and sandboxes.

### PlatformIdempotency

*State.* The workflow's version and each key's record. *Actions.* `Get`, `Operate` and `Put`, the three calls
a request makes, between any two of which it may be lost (`Lose`); `Expire`.

### RepositorySandbox

*State.* `rows` and `leaseRows`, what each worker's call has loaded and what it was told it holds, the clock,
and the backend that is starting. *Actions.* `Create`, `Prepare`, `Acquire`, `Renew`, `Release`, `Archive` load
and compute, `Save` and `Stale` compare the version; `Start`, `Recover`, `Serve`; `Collect`, `Tick`; `Move` (the repository shows another
revision) and `Delete`, which takes the sandboxes and the leases of the repository with it (`on delete cascade`, 20260820:6-7, 59-61). `standing` is what the
sandboxes' repository is: at their revision, moved on, or deleted.

*Seen while modelling.* No route uses sandboxes; only start-up verifies and recovers them. A sandbox is leased at most once, so the fence
against a newer lease never acts.

### RepositoryExecutionCoordinator

*State.* `row`, the one record of a request's identity, and each call's copy of it. *Actions.* `Coordinate`
looks the row up; `Hit` answers from it, `Begin` starts it over; `Stage`, `Finish`, `Fail` save; `Recover`,
`Collect`, `Move`.

*Seen while modelling.* Recovery makes every execution of an older revision stale again at each start, and a later save overwrites the
recovery count. The revision and the workflow are read by a save without a lock.

### RepositorySession

*State.* `rows`, the calls under way, the last listing. *Actions.* `Create`, `Begin` with `Complete`, `View`,
`Attach`, `Archive` and their saves, `List`, `Start` with its recovery, `Publish`, `Tick`.

*Seen while modelling.* Recovery recovers archived expired sessions again at each start. Overlapping saves lose reuse counts.

## Runs

Nine runs check the project's properties and three show where the code departs from what the repository says of it
(*Findings*). The instance lists the constants that bound a run, with the size of each set; symmetry is declared
in the `MC` modules over sets whose members no property tells apart, and never in a run with a liveness property.
`PROJECT.json` has a mutant for every property of every run below: a change of one mapped definition, of the kind a
wrong edit of the code would be, that makes the run find the property violated.

| Run | What it asks | Properties | Instance |
|---|---|---|---|
| `queue` | Two workers, two repositories of one owner, two jobs: every interleaving of requests, claims, heartbeats, abandoned pipelines, recoveries, crashes and lost answers, with the workers' clocks agreeing with the database's. | `TypeOK`, `OneActiveJobPerRepository`, `OneExecutionPerAttempt`, `PublicationIsNewestSuccess`, `NoJobOutlivesItsRepository`, `StatusAgreesWithPublication`, `LiveLeaseIsNotTaken`, `LapsedLeaseStaysLapsed`, `OutcomeIsFinal` | Users: 1, Repos: 2, Jobs: 2, Workers: 2, MaxAttempts 2, MaxConcurrent 2, not ClockSkew |
| `queue_skew` | Recovery by a process whose clock is ahead takes jobs from live holders: is there still one execution per attempt and one outcome per holding? | `OneExecutionPerAttempt`, `PublicationIsNewestSuccess`, `ImplementsLedger` | as `queue`, one repository, ClockSkew |
| `queue_live` | One worker that may crash at any time, two jobs of a repository that may be deleted and connected again: does every job settle? | `EveryJobSettles` | Repos: 1, Jobs: 2, Workers: 1 |
| `publication` | Two jobs for either of two revisions, the second beside the executor of the first: calls fail, lose their answers, are cut off by a crash or by recovery. | `TypeOK`, `CurrentIsComplete`, `PublishingIsBuilt`, `LiveBuildIsKept` | Jobs: 2, Revisions: 2, MaxAttempts 1, Retention 1, MaxPipelines 2 |
| `restore` | After two publications, two attempts of a third job on any of three revisions: is the revision to roll back to kept? | `CurrentIsComplete`, `PreviousIsRestorable` | from `SpecTwicePublished`: Jobs: 3, Revisions: 3, MaxAttempts 2, Retention 1, MaxPipelines 2 |
| `retried_build` | Two attempts of one job, the executor of the first still calling under its old claim. | `LiveBuildIsKept` | Jobs: 1, Revisions: 2, MaxAttempts 2, Retention 1, MaxPipelines 2 |
| `engines` | The engines that plan, carry out and deliver agents' work, while leases expire, callers answer late, servers overlap and backends recover. | `TypesKept`, `ResultsOfTheHolder`, `NothingBeforeItsTime`, `WithinLimits`, `SessionsAgree`, `RepeatedIsDoneOnce`, `AppliedWasReviewed`, `EndsStand`, `HistoryKept`, `DecisionsStand` | *Parts* below |
| `records` | What the server and its clients keep about a repository's use, under overlapping calls, crashes, retries and late answers. | `TypesKept`, `TurnsAreStoredOnce`, `NothingOutlivesItsCause`, `WhatWasToldHolds`, `StepsOfTheirOwnLife`, `RecordsStand` | *Parts* below |
| `processes` | What runs in one process, under its fairness: does it keep to what is under way, and does everything end? | `TypesKept`, `KeepsWhatIsUnderWay`, `OutcomesStand`, `EverythingEnds` | *Parts* below |
| `retry_lost` | *Findings* | `RetryableFailuresAreRequeued` (violated) | |
| `quota_exceeded` | *Findings* | `ConcurrencyWithinQuota` (violated) | |
| `abandoned_build` | *Findings* | `AbandonedBuildsAreReleased` (violated) | |

*Properties of `queue`.* `OneActiveJobPerRepository`; `OneExecutionPerAttempt` (with executors that
outlive their lease, two claims in use for a job are of different attempts, and the current attempt
is executed under the row's own claim); `PublicationIsNewestSuccess` (a stale executor neither
publishes nor overwrites); `NoJobOutlivesItsRepository`; `StatusAgreesWithPublication`;
`LiveLeaseIsNotTaken` (recovery leaves live holders alone: needs agreeing clocks, so it is not in
`queue_skew`); `LapsedLeaseStaysLapsed`; `OutcomeIsFinal`.

*Properties of publication.* `CurrentIsComplete`: the current revision has its published snapshot,
its artifacts and a whole published version of every kind, and every publication row is of it.
`PublishingIsBuilt`: the publishing revision is not the current one and its snapshot is being built.
`PreviousIsRestorable`: the revision to roll back to keeps its artifacts and a snapshot that can be taken up again
through failed re-publications and collection. Its snapshot may be *failed* after a job that is tried again
began another revision, which `begin_repository_snapshot` allows (20260726:77-79): the proof found this case, and
`rollback_repository_revision`, which has no caller yet, asks for the artifacts only.
`LiveBuildIsKept`: no step of another executor, of the queue or of
recovery takes from an executor that holds its lease what it has built. Intelligence is not in it:
`fail_repository_intelligence_version` compares the job and not the claim, so the executor of an
earlier attempt can fail the version of the current one, which then fails at publication.

### Parts

*What the properties of `engines` say of each part.*

| Property | Part: what it says |
|---|---|
| `ResultsOfTheHolder` | executions: the output that is judged is of the last agent that had the unit, and what is out has a lease recovery can find; agents: a runtime's outputs are published in the order of its claims, one of a claim at most; workflow: each checkpoint is the result of the attempt that was in flight |
| `NothingBeforeItsTime` | executions: units after their prerequisites; workflow: no stage after the execution's before its approval |
| `WithinLimits` | executions: a unit whose attempt failed or was recovered waits for another only within the limit, and the user's leases exceed the quota only by the calls for a unit that overlap; workflow: attempts within retries and resumes |
| `SessionsAgree` | collaboration: units in their order, reviewed work approved by another participant, lists and retries kept, the session ends with its units |
| `RepeatedIsDoneOnce` | tools: an invocation runs for one caller at a time and all are told the stored end; platform: a key's request is carried out once, and an answered success was done |
| `AppliedWasReviewed`, `HistoryKept`, `DecisionsStand` | pipeline: what is applied was approved in the very versions it names; no version is rewritten; no decision taken back |
| `EndsStand` | late decisions: a decision is on what its caller saw; executions: ended units stay, and in the memory store ended runs; agents: outputs stand, a superseded runtime is leased to nobody; served twice: no save overwrites another server's; workflow: its end, checkpoints and requests stand |

*The instances of `engines`.* Pipeline: two versions of everything, one artifact and review; slow pipeline: one version and callers that keep
what they loaded; late decisions: two versions of the artifact, such callers. Execution: the memory store, a chain of two units
and a third beside it, two attempts; durable execution: the chain in the stored procedures, with an attempt more than
allowed; shared executions: three units of a user with one lease, and two calls for a unit at a time. Agents: one runtime, two executors, three leases of it, one retry. Tools: three callers of
two invocations, one retry, store calls that fail before or after they commit. Collaboration: one reviewed unit, three participants, one retry; chained: two
units; served twice: two servers, two participants. Workflow: two stages, two callers, one retry, one resume; asked twice: two
requests that differ. Platform: four requests under two keys.

*What the properties of `records` say of each part.*

| Property | Part: what it says |
|---|---|
| `TurnsAreStoredOnce` | chats: a turn once per key, whole, answered as stored, not mixed with another |
| `NothingOutlivesItsCause` | lifecycle: who is answered that a repository is connected finds it so, a published revision keeps its files where nothing is deleted and all are retained; sandboxes: none of a deleted repository, nor its leases; cache: one revision, nothing older than its invalidation; limiter: no more than the limit let through in a window; stream: one connection, and its view shows the end |
| `WhatWasToldHolds` | sandboxes: the holder of a lease has it until the repository is deleted, and each worker but the first takes the owner past the quota by one lease at most; cache: one load per key, none unwanted, waiters served; coordinator: an answer is what is stored |
| `StepsOfTheirOwnLife` | lifecycle: a worker publishes into the life it was started for, a deletion takes what its request saw, a failed build leaves the published checkout; sandboxes: a starting backend recovers everything or stops; sessions: an operation completes its own event; coordinator: a record passes to another call at its start only |
| `RecordsStand` | knowledge: versions are added, archives final, memories immutable and of the version they name; sandboxes: none is revived; sessions: history grows, archives stay; coordinator: what has completed is lost only to the start of a call that had looked before, whether calls overlap or not; limiter: each counts |

*The instances of `records`.* Two keys, one key: three asks, two of them with one key, or all three with a posted message beside.
Deleted, crashed: two workers, two revisions, and two requests to delete or one and a crash of the backend. Kept: two entries and a memory, up to three versions,
one collection; remembered: memories of two versions of one entry; two callers. Leased: one sandbox, two workers, two starts of a backend, versions up to 4;
collected: two sandboxes, one worker, rows removed and created again; contended: three sandboxes, two workers, a quota of one. Opened: two callers of one session, versions up to 3, one start.
Overlapping: two calls at once over three stages; alone: two calls in turn over the seven stages. Cached: three requests, two loads, one entry.
Limited: two requests, two keys. `Lifecycle(...)`, `Knowledge(...)`, `Lending(...)` and `Coordination(...)` are instances with
parameters, so that a theorem is proved once for all of a component's instances. Stream: two views, up to three subscriptions.

*What the properties of `processes` say of each part.* `KeepsWhatIsUnderWay`: a half-open circuit counts its probes, a closed one has no reason to be
open, one that fails opens again; shutdown tasks run in order and a clean exit is one; the job is polled exactly while someone listens; no sleep
passes the deadline and a disconnection is no timeout; a worker whose heartbeat failed is unready. `OutcomesStand`: a circuit closes
with its last probe; an exit code and a response are given once; no attempt begins after the deadline. `EverythingEnds`: liveness, under *Fairness*.

*The instances of `processes`.* Three calls with two probes at a time, or one; six tasks; two streams over rows that end twice; a request of
10 around a call of 8 with three attempts, up to time 14; two requests that remove each other's rows; a late heartbeat, or an outage; two tool
invocations of two callers.

### Bounds

*Bounds of publication.* Two revisions give one that is shown and one that replaces it, and the way back.
Two jobs give a stale executor beside a live one, three in a row a revision that is shown, superseded
and published again or given up. `MaxPipelines` bounds how many executors are under way; two are
the stale and the live one. Two attempts of one job are a run of their own, since the claims differ
where the job ids do not. Retention is 1, the least, so that collection bites.

*Bounds of the queue, and why they are enough.* The pool `Jobs` is how many jobs are ever created; two give a job
of a repository and one that replaces it, or jobs of two repositories of one owner. Two attempts
give a first one, a retry or recovery, and the cap. Two workers give a stale executor and the one
that has its job now; a single worker can be both, since its abandoned pipelines live on beside its
next claim. Tokens are bounded by attempts and jobs. The proofs below need none of
these bounds. Deadlock is not checked because the pool is finite: when every job is settled and
every process idle, the model may stop. Symmetry over repositories, jobs and workers is
used in the safety runs only; all owners are the same there, so a permutation changes nothing.

*Bounds of the others.* The rule is the same everywhere: as many actors as a race has sides (two, three where a third can
come between, as in the cache and the chat), as many rows as a quota needs to be passed (two, quota one), as many attempts,
versions or revisions as give a first, a next, and a limit reached. Faults (crashes, lost answers, restarts,
publications, expiries, collections) are counted down from a `Max...` constant, each one of the bounds
named above. Deadlock is not checked where a bound or an ended lifecycle may stop the model;
the configurations say so. A cache of one entry, a quota of one and a history of the least length make limits bite.

### Fairness

*Fairness, and why the code justifies it.* A process's own steps are weakly fair: the poll loop runs
until shutdown, and `Abandon` is among those steps, which the indexing deadline
(`maxIndexingDurationMs`) forces. Restart is weakly fair: the worker runs under a supervisor that
restarts it. Recovery is: every loop repeats it. Back-offs run out; a lease does when no process acts
under its token, since nothing renews it then. Nothing is assumed of pipelines, requests, errors or
crashes. Under this fairness `EveryJobSettles` holds although crashes are unbounded, because each
recovery spends an attempt.

*Fairness of `processes`.* `Fairness` in `MCProcesses` gives each part that of its module. Circuit (`RecoversWithDependency`):
calls keep coming and end, the cooldown ends. Shutdown (`ShutdownEnds`): the timer fires; tasks may hang. Events
(`StreamsInStepClose`): polls are answered or fail, one of those that recur is answered (strong fairness), deliveries proceed.
Deadline (`Answered`): clock and timers only, nothing of handlers or providers. Limiter (`Answered`): each transaction's steps,
waiting excepted. Worker (`Restored`, `Stops`): the loop's steps; each call ends by its answer or its deadline. Tools
(`EveryInvocationEnds`): handlers and the store answer, without faults.

## Findings

The three runs that expect a violation, each of what a line of the repository says.

- `retry_lost` (src/services/indexing/worker/continuousIndexingWorker.ts:185): backend/README.md:80 says
"Retryable failures are requeued with bounded exponential backoff". The code fails the job in one call
(fail_indexing_job, a committed transaction that clears the lease) and requeues it in a second one
(schedule_indexing_job_retry) that only the process that failed it makes, once. The run shows that a crash
between the two, a lost answer to the first or an error of the second leaves the job failed, retryable and with
attempts left for ever: stale recovery looks at claimed and running rows only.
- `quota_exceeded` (supabase/migrations/20260724000000_add_indexing_lease_fencing.sql:300):
backend/.env.example:185 sets REPOSITORY_QUOTA_MAX_CONCURRENT_PER_USER=2, the number of jobs an owner may have
queued or executing, which create_indexing_job enforces under an advisory lock. schedule_indexing_job_retry puts
a failed job back into the queue without counting: the run shows an owner whose job failed retryably, who
connects another repository before the retry is scheduled, ending up with one active job more than the quota.
- `abandoned_build` (src/services/repository/revisionCheckouts.ts:106):
backend/src/tests/repositoryResourceQuotas.test.ts:201 says "startup recovery clears an abandoned publication
fence before checkout cleanup", and the code records "abandoned_publication_recovered"
(revisionCheckouts.ts:106). Recovery clears repositories.publishing_revision only. The snapshot row stays in
building under the job that began it, and begin_repository_snapshot refuses the revision to every other job
("repository revision is already being built", 20260726000000_add_immutable_revision_publication.sql:79):
nothing but the dead job's own claim can discard it, and collection passes over building snapshots. The run
shows that a crash is not even needed: an error of a begin call, which is outside the try
(indexingJobWorker.ts:512), leaves the row without a discard, and once the job has failed for good the revision
cannot be indexed again.

### Divergences seen while modelling

What else a doc, a comment or a test says and the code does not do, found by modelling and
checking the behaviours; no run is kept for each. Three patterns recur. A save whose
first version is not compared, or compared on one row while the condition is about others, lets two callers both pass (quotas,
take-overs). Start-up recovery saves rows under the condition that their revision is current, and exits when it is not.
And rules that the in-memory stores, which the tests exercise, enforce are missing from the stored procedures.

- src/services/retrieval/cache/retrievalCache.ts:198: The test
src/backend/src/tests/retrievalCache.test.ts:220 says "a cancelled sole request aborts shared work and does not
populate cache" and ends (line 239) with a later request that loads afresh, after a setImmediate. The code
leaves the aborted load in inFlight until it settles, and getOrLoad joins whatever it finds there: a request
that comes in between waits for work that has been told to stop and is rejected with the other caller's abort
reason.
- src/services/indexing/events/indexingProgressPublisher.ts:201: The test
src/backend/src/tests/indexingProgressSse.test.ts:213 says "failed worker event closes every stream and records
failure metrics and logs". subscribe replays the job the route has read earlier and joins the repository's
observation without comparing it: when that observation has already published the terminal row (or was begun
with it by another stream), every later poll finds the fingerprint unchanged, and the late stream shows its old
stage for ever, with heartbeats, until the client leaves or another job begins.
- src/services/repositoryExecution/store.ts:239: The test
src/backend/src/tests/repositoryExecutionOrchestrator.test.ts:383 says "quotas reject excess work units, active
runs, leases, outputs, and duration". leaseNext marks a run failed when its duration is used up but leaves its
leases; heartbeat, publishOutput and failUnit ask only for a live lease, so an agent's answer makes the failed
run running again, beside the run created in its place.
- supabase/migrations/20260808000000_add_repository_execution_orchestrator.sql:759: The
test src/backend/src/tests/repositoryExecutionOrchestrator.test.ts:287 says "review approval is output-fenced
and changes requested supports bounded retry". submit_repository_execution_review makes the unit ready again
without looking at its attempts, and lease_repository_execution_work_unit does not look at them either: the
retries are not bounded.
- supabase/migrations/20260808000000_add_repository_execution_orchestrator.sql:553: The
test src/backend/src/tests/repositoryExecutionOrchestrator.test.ts:352 says "cancellation and supersession
invalidate leases and never resume". decide_repository_execution does not ask whether the run has ended: an
approval (with a new idempotency key) that arrives after the cancellation makes the run approved, with
approvedAt set.
- supabase/migrations/20260808000000_add_repository_execution_orchestrator.sql:603: The
test src/backend/src/tests/repositoryExecutionOrchestrator.test.ts:223 says "selected work-unit approval permits
only explicitly approved ready work". lease_repository_execution_work_unit demands the approval state approved,
which a selection of units does not give: the approved unit is refused with execution_approval_required until
every unit is approved.
- supabase/migrations/20260808000000_add_repository_execution_orchestrator.sql:595: The test
src/backend/src/tests/repositoryExecutionOrchestrator.test.ts:383, quoted above, names the quota of leases.
lease_repository_execution_work_unit counts the user's leases before it locks a unit, and under no lock of the user's: of
calls that overlap each finds room. `LeasesWithinQuota` says what holds: one lease more for each call but one that overlaps.
- supabase/migrations/20260808000000_add_repository_execution_orchestrator.sql:240:
refresh_repository_execution reads all units of a run while its caller has locked one of them. Two calls that end a run's last
two units at once may each read the other's unit as it was: the run stays running, and a unit that waited for both stays
blocked, until another call on the run refreshes it. The model refreshes with the call, so this is not among its behaviours.
- supabase/migrations/20260809000000_add_agent_runtime_capability_framework.sql:341: The test
src/backend/src/tests/agentRuntime.test.ts:205 says "cancellation, supersession, orphan output fencing, quotas, and tenant
isolation hold" (in the memory store, one call after the other). assert_agent_runtime_fence reads the runtime and its lease without a lock, and
publish_agent_runtime_output (439-451), transition and fail_agent_runtime then write whatever the runtime is by now: one that was cancelled,
superseded or recovered in between becomes completed with a published output, running without a lease, or ready. What keeps
two claims from publishing the same version is the primary key of the outputs.
- supabase/migrations/20260809000000_add_agent_runtime_capability_framework.sql:304: lease_agent_runtime counts the
tenant's leases before it locks a runtime, as the executions do: the quota of the same test is exceeded by calls that overlap.
- supabase/migrations/20260809000000_add_agent_runtime_capability_framework.sql:467: The test
src/backend/src/tests/agentRuntime.test.ts:173 says "retry is bounded". fail_agent_runtime compares the attempt its fence read: a failure that arrives when
the runtime has been recovered for the last time and failed, or has completed, makes it ready once more.
- src/services/toolInvocation/service.ts:161: An error of a persistence call is made a
retryable failure (src/backend/src/services/toolInvocation/store.ts:303: `toolFailure("runtime",
"tool_persistence_failed", message, true)`), and the test
src/backend/src/tests/toolInvocationFramework.test.ts:214 says "timeouts and retries are persisted as structured
failures without outputs". invoke returns store.complete(...) from within the try without awaiting it, so its
rejection skips the catch, the retries and store.fail: the caller gets the error and the invocation stays
running, refusing equal requests as in progress and holding a parallel place, until its lease has expired and a
backend starts.
- supabase/migrations/20260812000000_add_repository_workspace_patch_engine.sql:209: src/backend/src/tests/repositoryWorkspacePatchEngine.test.ts:208 says "recovery handles expired leases,
incomplete patches, abandoned workspaces, and stale snapshots". save_repository_workspace accepts a row only
while the workspace's revision is the repository's current one, for recovery too (and the procedures of
artifacts, reviews, proposals and apply transactions likewise). When a workspace's preparation or
lease outlives its revision, start-up recovery finds it, cannot save it as failed or expired, and throws;
index.ts:311-319 then ends the process, at every start until a rollback makes the revision current again.
- src/services/autonomousWorkflow/composition.ts:366: src/backend/src/tests/engineeringWorkflowIntegrationHarness.test.ts:626 says "every stage supports deterministic
failure retry with audit preservation"; its injected failures come before a stage's first call. The workspace,
review, proposal and apply stages make several calls, and a failure after the second of the workspace's or the
first of the others' leaves records that refuse those calls (only a created workspace is prepared; a review,
proposal or transaction that awaits its decision is not created again), while the retry has to replay the same
request: the stage fails until its retries and resumes are used up.
- supabase/migrations/20260808000000_add_repository_execution_orchestrator.sql:554: src/backend/src/tests/autonomousWorkflowOrchestrator.test.ts:273 says "cancellation composes execution
cancellation and is terminal". The durable decide_repository_execution does not look at the run's status (the
memory store refuses a terminal run): an approval whose check came before a concurrent cancellation sets the
cancelled run to approved, and then fails to approve the workflow, which is cancelled. The run's units stay
cancelled.
- supabase/migrations/20260819000000_add_engineering_platform_api.sql:95: src/backend/API_CONTRACT.md:118 gives an Idempotency-Key a "24-hour idempotency scope". The lookup ignores a
record that has expired, and the put that follows the operation finds it all the same: a request with another
payload is carried out and answered 409, one with the same payload is answered the old response as a new one,
and the record is never renewed. Nothing in the repository calls the procedure that collects expired records.
- src/services/repository/revisionCheckouts.ts:137: src/backend/src/services/repository/revisionCheckouts.ts:112 says of collectRepositoryCheckouts: "Best-effort,
concurrency-safe GC. Durable pointers are re-read before every deletion." The pointers are read, and then the
checkout is made writable and removed; a job that begins in between finds the old checkout, uses it as it is and
publishes it, and the removal takes the current revision's files away. The worker that collects has finished its
job, so the next one may run.
- supabase/migrations/20260727000000_add_transactional_repository_deletion.sql:56: src/backend/docs/sprints/SPRINT-06-REPOSITORY-LIFECYCLE.md:9-18 gives the lifecycle as "Connect ... -> Cleanup
-> Reconnect", and src/backend/src/routes/repositories.ts:528 describes "DELETE /repos/:owner/:repo" as the
cleanup of a repository. connect_repository_idempotently inserts the row again and leaves the tombstone; every
later DELETE is answered from the tombstone with the report of the first deletion, and the repository stays.
(The in-memory store refuses the connection instead: memoryRepositoryStore.ts:124.)
- src/services/repository/repositoryDeletionService.ts:38: src/backend/src/tests/transactionalRepositoryDeletion.test.ts:40 asserts, inside the removal of the checkouts,
that the store has no such repository: "assert.equal(state.repositories.getRepository(repositoryId), null)".
Nothing keeps a connection out between the transaction and the removal, nor between a removal that failed and
the one that repeats it (a later request, or the start of the backend): the removal then takes the checkouts of
the repository that was connected again.
- src/services/repositorySandbox/store.ts:670: src/backend/src/tests/repositorySandbox.test.ts:165 asserts that a second lease of an owner with a quota of one
is refused with "repository_sandbox_lease_quota_exceeded" (one call after the other, in the in-memory store). In
the Postgres store acquire counts the leases in a list of the owner's sandboxes and then saves the one row under
that row's version: two acquisitions of different sandboxes both find no lease and both are saved. The quota of
active sandboxes is counted in the same way.
- supabase/migrations/20260820000000_add_repository_sandbox_execution_environment.sql:193: src/backend/src/index.ts:330 gives "repository_sandbox_database_objects_unavailable" as the reason why the
backend exits when the sandboxes cannot be verified and recovered. save_repository_sandbox refuses every row
whose revision is no longer its repository's current one, so a lease that expires after the repository is
indexed again, or an unprepared sandbox of it, makes the recovery throw and every start exit while all the
database objects are there; the row cannot be released or archived either.
- src/services/repositorySandbox/store.ts:440: src/backend/supabase/migrations/20260820000000_add_repository_sandbox_execution_environment.sql:87 makes the
recovery's id the key of its record: "primary key(tenant_id,sandbox_id,recovery_id)". The id is made of the
reason and of the length of the history, and the history is cut to the last retainedRecoveryRecords (100): from
then on every recovery for the same reason has the same id, and its record is dropped by "on conflict ... do
nothing".
- supabase/migrations/20260820000000_add_repository_sandbox_execution_environment.sql:214: src/backend/tests/postgres/repositorySandbox.test.mjs:128 asserts that a save under an old version is refused:
"assert.match(stale.stderr, /repository_sandbox_version_conflict/)". A sandbox has the same id and starts again
at version 1 when it is created after its collection, so a save computed from the row of the earlier life is
accepted when the versions meet.
- supabase/migrations/20260728000000_add_distributed_rate_limits.sql:64: src/backend/supabase/migrations/20260728000000_add_distributed_rate_limits.sql:62 says: "Bounded opportunistic
collection keeps expired identities from accumulating". The rows are chosen on the statement's snapshot and
deleted by their key; the condition on reset_at stands in the inner query only. A row whose request begins a new
window after the snapshot is locked, waited for, and deleted with its count, so that identity's window begins
again with the next request.
- src/services/repositorySession/service.ts:187: src/docs/product.md:11 says of engineering
sessions: "Sessions can be reopened so work continues from the same repository context." A session's id is a
function of what it is created from; create returns the one that is there when it is active or recovered, and
otherwise saves an empty record over it with no expected version. A session is interrupted while a query, plan,
specification, coordination or insight is under way (and after one that failed, until a backend starts), so
creating it again then erases its events and context; the operation under way fails on its version.
- src/services/repositorySession/service.ts:144: src/backend/src/services/repositorySession/service.ts:465 refuses an attachment with "Workflow is already
attached to another repository session." create accepts a workflow another session has, and attachWorkflow looks
for it among the active and recovered sessions only, and saves under the version of its own session alone: an
interrupted session, or one that is attached in between, is not seen.
- src/services/repositorySession/service.ts:199: src/docs/api.md:47 offers "List sessions."
list authorises each active or recovered session of the owner against the current revision of its repository:
one session of a repository that has been indexed again makes it throw repository_session_revision_conflict for
all sessions, of every repository. archive authorises in the same way, so that session cannot be archived either
until it expires.
- src/services/repositoryKnowledge/store.ts:675: src/backend/src/services/repositoryKnowledge/store.ts:681 refuses an entry with "Repository knowledge quota was
exceeded." when the repository has as many as it may. In the Postgres store the entries are listed and counted
before the save, and the save locks and compares the one entry: two creations of different subjects both find
room and both are saved. The quota of memories is counted in the same way.
- supabase/migrations/20260817000000_add_repository_knowledge_agent_memory_engine.sql:537: src/backend/src/services/repositoryKnowledge/store.ts:417 refuses a memory with "An immutable memory identity
already has different content." and compares without the time of creation;
src/backend/src/tests/repositoryKnowledgeEngine.test.ts:223 asserts that a repetition is answered with the
first. save_repository_agent_memory compares the time of creation too, and the store finds an earlier memory
only while it is listed: the second of two simultaneous calls, and a repetition after the memory expired, are
refused as repository_memory_immutable_conflict with the same content.
- supabase/migrations/20260817000000_add_repository_knowledge_agent_memory_engine.sql:514: src/backend/src/services/repositoryKnowledge/validation.ts:182 says "Agent memory must reference the current
owned knowledge version." save_repository_agent_memory looks at the entry without a lock and inserts in a later
statement; an evolution or archive that commits in between leaves a memory saved for a superseded version.
- supabase/migrations/20260829000000_add_repository_execution_coordinator.sql:512: src/backend/src/tests/repositoryExecutionCoordinator.test.ts:274 is named "recovery fences interrupted and
partial executions", and the recovery writes "Invalid execution coordination state was fenced from reuse." The
in-memory store raises the record's version as it recovers it
(src/backend/src/services/repositoryExecutionCoordinator/store.ts:118);
recover_repository_coordinated_executions leaves the version as it is, so a call that is still at work in
another backend saves its next stage over the recovered record and completes it.
- src/services/repositoryExecutionCoordinator/service.ts:149: src/backend/src/tests/repositoryExecutionCoordinator.test.ts:211 is named "coordinator orchestrates existing
services, tracks ordered stages, builds readiness, and reuses completed execution". A call that looked before
the execution was completed starts it over with a save that names no version: the completed record is gone, and
the execution may end failed or partial.
- src/services/repositoryExecutionCoordinator/service.ts:149: src/backend/src/services/repositoryExecutionCoordinator/store.ts:62 refuses a save with "Coordinated execution
was modified concurrently." The first save of a call names no version and is never refused: it replaces the
record another call is at, and it is that other call, which was there first, that fails on its next save.
- src/services/indexing/worker/continuousIndexingWorker.ts:136: src/backend/src/tests/continuousIndexingWorker.test.ts:191 is named "shutdown prevents new claims". pollOnce
looks at the request once, before it records its health and recovers stale jobs; a request that arrives during
either call is followed by a claim. No poll was active when it arrived, so the shutdown timeout is not armed for
that job.
- src/services/health/runtimeProductionHealth.ts:80: src/backend/README.md:107 says "A worker
becomes unready after repeated poll/database failures, immediately after a lease heartbeat or fence failure,
while publication dependencies fail, or when its loop timestamps become stale." The API also wants the last
successful poll and claim to be recent; both are recorded when a poll reports, so a worker that is busy with a
job for longer than the stall timeout is unready although its heartbeats keep the loop's time stamp fresh.
- src/services/indexing/worker/continuousIndexingWorker.ts:295: src/backend/src/services/indexing/worker/continuousIndexingWorker.ts:295 aborts with "Indexing job lease was
lost." the controller that is active when the answer arrives. A heartbeat that is out when its job ends is not
stopped; refused, because the job is finished, it aborts the job of the next poll, whose lease is held, and
makes the worker unready.
- frontend/services/sse/indexing-events.ts:191: src/backend/frontend/features/indexing/indexing-progress-view.tsx:44 shows "Reconnecting automatically" while
the hook's reconnecting is set, and :62 offers the retry only when it is not. A subscription that gives up,
after its last attempt or on an error that is not retryable, calls onError alone, which does not clear
reconnecting: the view goes on saying that it reconnects, nothing does, and there is no button to retry.
- frontend/services/sse/indexing-events.ts:147: src/backend/frontend/features/indexing/indexing-progress-view.tsx:34 labels a view that is neither connected,
reconnecting nor disconnected "Connecting". The end of the stream after a terminal event leaves it so: the view
of a job that has ended says it is connecting, and nothing connects.

## Proofs

A theorem holds for all values of the constants that the module's named assumptions allow; TLC evaluates those
assumptions on every run. Where a theorem is about a part of `MCEngines`, `MCRecords` or `MCProcesses`, the constants of
the part that are numbers or sets given there in the definition are those of the part.

| Module | Theorems |
|---|---|
| `IndexingJobsProofs` | `Invariance`, `TypeCorrect`, `OneActiveJob`, `OneExecution`, `Publication`, `DeletionIsComplete`, `StatusAgreement`, `LapsedLease`, `FinalOutcome`, `LiveLease` (assuming `~ClockSkew`), `Refinement` (`Spec => ImplementsLedger`): each property of `queue` |
| `SnapshotPublicationProofs` | `TypeCorrect`, `CurrentComplete`, `PublishingBuilt`, `PreviousRestorable`, `LiveBuildKept`: each property of the publication runs |
| `ChangePipelineProofs` | `TypeCorrect`, `VersionsKept`, `DecidedForGood`, `ReviewedBeforeApplied`, `SeenDecided` (`DecidedAsSeen`) |
| `RepositoryExecutionProofs` | `TypeCorrect`, `NoneBeforeItsTime`, `OutWithLease`, `OutputIsTheHolders`, `ReadyHasAttempts`, `EndsStay`, `WithinQuota` |
| `EnginesProofs` | `TypesHold`, `HoldersResults`, `InTheirTime`, `LimitsKept`, `RepeatedOnce`, `SessionsInAgreement`, `EndsKept`: `TypesKept`, `ResultsOfTheHolder`, `NothingBeforeItsTime`, `WithinLimits`, `RepeatedIsDoneOnce`, `SessionsAgree`, `EndsStand`: with those of `ChangePipelineProofs`, each property of `engines`; `AnyCollaboration`, `AnyWorkflow`: `MultiAgentCollaboration` and `AutonomousWorkflow` with any constants |
| `ProcessesProofs` | `TypesHold`, `UnderWayKept`, `OutcomesKept`: `TypesKept`, `KeepsWhatIsUnderWay`, `OutcomesStand` of `processes` |
| `ChatSessionsProofs` | `TypeCorrect`, `AnswersStored`, `StoredOnce`, `AnswersSame`, `TurnsApart` |
| `RecordsProofs` | `TypesHold`, `TurnsStoredOnce`, `CausesStand`, `ToldHolds`, `LivesApart`, `RecordsFinal`: `TypesKept`, `TurnsAreStoredOnce`, `NothingOutlivesItsCause`, `WhatWasToldHolds`, `StepsOfTheirOwnLife`, `RecordsStand`: each property of `records` |

*The queue.* Assumed: every repository has an owner; at least one attempt; a quota of at least one;
`ClockSkew` either way; `None` is none of the other values. None of the properties is inductive alone. In `IndInv`, `RowOK` ties a row
to its repository and says when it carries a claim: without it a step on an unclaimed row could
match an old claim. `WorkerOK` gives a busy worker a claim of its own. `ClaimOK` keeps every
claim in use within the tokens handed out, so that the next token is unlike all of them.
`CompletingOK` says that a worker about to call `complete_indexing_job` finds the row settled by the
publication already, so that the call never makes a success without a revision. `PublisherOK`
says a holding is newer than the publication it may replace; with it a publication only moves
forward. The proof first shows that the types are kept, action by action. For the rest it classifies what a step does to a row
(kept, requeued, claimed, renewed, settled, withdrawn), a worker and a repository: the "moves". One group of lemmas proves
that steps made of such moves keep each conjunct of `IndInv`; another, one lemma per action, that each action makes only
such moves. The action properties are read off the same classification: each is shown of every move of a row, once.
The refinement shows that what the mapping sees of a row is its claim, its attempt and
its phase, so that leases, back-offs, and the step from claimed to running are stutters; the other
actions each give their ledger step.

*Publication.* Any jobs, revisions, attempts and executors. The scripts are shown to be in order once, so that from the call an
executor makes one knows which may come next. What is shown is whole (`DataInv`) because `publish_repository_snapshot` looks at
everything again, in the transaction that moves the pointers: this part rests on nothing executors have done, and needs besides the two properties only that
a validating intelligence is whole. What an executor finds (`Sound`) does rest on what it has done: with a claim that has not been given up its snapshot is
its own, with a live lease the versions it has begun are its own as well, and an executor that has begun the current revision finds it published
in every kind. Each step of an executor keeps `Sound` for itself, and each step of anyone leaves alone what it says of the others, which needs that one job is active at a
time. The previous revision (`FreshJobs`, `PreviousInv`): a job that has begun no snapshot has none of its name, so a job's first attempt has no building
snapshot of another revision to fail; only one that is tried again may fail the snapshot of the revision to roll back to.

*The change pipeline.* Any numbers of artifacts and reviews, any bounds. What a slow caller holds are rows that once were, not the rows that are, so the properties are not inductive
without saying what `held` may be. `HeldIsCurrent` says that a held row whose version is not among those that moved is the
row itself; a save accepts only such rows. `RowStep` lists what one row may do in a step (kept, created, next version with its
decision), each of the five engines' operations is shown to be a `RowStep` of its own row, and the invariant, that each version names
versions its own row approved, is shown of `RowStep`s once. `HeldStands` carries it over to the rows a caller holds. That a decision is on what its
caller saw (`SeenDecided`) follows from `HeldIsCurrent` alone: a decision is saved on a held row whose version is still the row's, so the
version that is decided is the one that was loaded.

*Executions.* Any runs, units, prerequisites, attempts, quotas and overlapping calls; the memory store and the procedures. Runs
do not disturb each other but for the quota, so the invariant `RunInv` is one of a single run. A step that ends with scheduling is proved in two
parts: what it does to a unit (`UnitsInv`: a unit is out with its lease, a lease publishes one output, an output is its holder's, what has begun is
prepared), and what scheduling then adds. Scheduling leaves what is done as it is, so what was prepared for a unit that has begun is never taken back. In the memory
store what has ended is at rest besides (`AtRest`), which is why an ended run stays so; of the procedures only the ended units are claimed, and
only that a unit which failed or was recovered has an attempt left (a review that asks for changes gives one anyway). `WithinQuota` counts
the leases of all runs together with the calls that have counted them and have not leased yet (`QuotaInv`): a call joins when there is room, so
the sum passes the quota by the calls but one.

*The other engines.* Tools: an invocation has begun as often as its status says, never or once, and its
end is final, so whoever was told an end was told the stored one. Platform: a request is carried out on the version it expects, which is not the
workflow's version afterwards; that, and not the key's record, keeps it from being carried out again when the record has expired or was never put. Agents: what an executor may still
write is bounded by what its fence read (`MayPublish`): it asked for a version while it held the lease, so that version was the next one then and its claim the last; if
the version still is the next one no claim has published since, and its claim is later than every claim that has; if not, the primary key
refuses it. So outputs come in the order of the claims although fence and write are apart, and nothing is said of the status, which any late call may overwrite. Workflow: an attempt is in flight
under the version that it gave the row (`Placed`), so a caller whose version still is the row's has the attempt that is in flight; every attempt before it is paid
for by a failure of its stage, and failures by retries and resumes (`Spent`). `EnginesProofs` proves this of `MCEngines`, for any callers, executors, invocations, runtimes, retries, leases, parallel invocations,
stages, calls, requests and keys, and takes the executions over from `RepositoryExecutionProofs` and the pipeline from
`ChangePipelineProofs`, each instantiated three times with the constants of the run's parts. The workflow is proved about for any
constants (`AnyWorkflow`); the two the run has are cases of it.

*The collaboration.* Any units, participants, roles, prerequisites, order, retries, quota of reviews and servers (`AnyCollaboration`; the
run's three collaborations are cases of it). `Sound` says of a session that a unit has an owner when it is under way or done, that what it builds on is done
unless it waits for that, that the participants' lists are what they have under way, that the review of the output that waits was asked for by
its owner, and that reviewed work that is done was approved by another. `OneChange` shows that a session stays sound when one unit and one list are replaced by a
row that fits (`UnitBecomes`), which every operation on a unit is; `ReadinessIs` and `PropagatedSound` do the same of propagation, which changes
many units but only those that were blocked. What `schedule` and `recover` do in a loop are recursive functions here, `AllAssigned` and `AllRerouted`; that such a function is there
and that its last value is sound is shown by induction (`Iterated`, `StaysIn`). `Ends` ties the session's end to its units once an
operation has finished and propagated. An outcome that was worked out on the stored version takes nothing back (`Offered`), and any other is
refused by the procedure, which gives `NothingIsLost`.

*One process.* Any calls, limits, tasks, streams, job rows, timeouts, delays, keys, failures and outages. The circuit's counter is the number of
probes of the present generation that are out: an answer of an older generation is not counted, so the counter cannot reach the limit early or miss its last probe. What a shutdown
reports follows from how far its function and the forced one have come. A stream and a poll keep rows of the job, and the observation is
there exactly while a stream is subscribed. A retry loop that sleeps has an attempt left and sleeps less than its call has time. A transaction of the limiter
has locked its own key and the rows it removed, never its own key among them. A heartbeat goes with a claimed
job, and one that has failed does not go on, so nothing makes the worker ready before its next poll. The circuit and the worker, which the run instantiates twice, are proved
about as instances with parameters, of which the run's are two each.

*Chats.* Any asks, posted messages, keys, questions and expiries. The lock is held by the ask whose transaction is under way and whose key has no record;
every stored turn lies before the places the holder has taken; a record names a stored turn of its key; and the turns of a key are counted
by its records, present and expired (`CountInv`). A posted message takes its place outside the lock, which is why only turns are kept apart. `RecordsProofs` takes what
is shown of every step over for the two chats of `MCRecords`.

*What is kept about a repository's use.* Any workers, callers, requests, sandboxes, entries, memories, sessions, stages, keys and limits.
The parts of `MCRecords` share no state, so `RecordsInv` is one invariant for each part (`LifecycleInv`, `KnowledgeInv` and so on),
and a step of one part leaves the others as they are. What recurs in them is a call that holds a copy of a row across an `await`: the
invariant says how far the copy may have fallen behind (`SeenInv`, `LoadedFrom`, `MadeFrom`, `FromItsRow`, `RowFollows`), and that
the copy's version being the row's, the row is what the copy was made of; a save compares nothing else.

- *Lives of a repository.* A worker's claim is of the life there is and lasts until its job ends or the repository is deleted (`ClaimsInv`); what a
  request to delete has seen is the row or an older version of it. That the published checkout stays where it is has to be shown of
  `removeUnpublishedRepositoryCheckout`, and holds only as long as nothing is collected: the collector reads the
  row again before each checkout it removes (`revisionCheckouts.ts:137`), but a revision whose old checkout is published between that
  look and the removal (146) loses its files.
  `PublishedStays` therefore says "where nothing is deleted and all revisions are retained". Whatever is deleted or collected, a build that fails does not take the
  published checkout of its own life away (`KeptInv`): a worker at a build of the life there is has the claim, so nothing else is published before it has
  removed what it failed with.
- *Knowledge.* An entry has been saved once for each version and once more when it was archived (`SavedOften`), so the number of saves
  that a save compares tells whether the entry is archived. The count begins anew when an archived entry is collected and created
  again: a call that loaded it in its earlier life can then archive or evolve the new one. The proof found this case; `KeepsArchived` names it.
- *Sandboxes.* Only the last lease of a leased sandbox is open (`LastIsOpen`), a save that will be accepted was made from the row there is
  (`MadeFrom`), and what a starting backend listed is still so if its version is (`ListedInv`); all three until the repository is deleted, when there are no rows and no leases
  (`GoneInv`). The leases and the workers that have counted them and not saved theirs are together fewer than the quota and the workers (`QuotaInv`): each
  worker but the first may take the owner past the quota by one.
- *Sessions.* A caller's copy is of the row it loaded as long as the version is (`FromItsRow`).
- *Coordinated executions.* What an execution's status says of its stages (`ExecutionStands`), and no copy is ahead of the stored
  execution (`RowFollows`), so a save that is accepted continues the execution it was made of, and a completed one is replaced only by a call that begins, which had
  looked before it was completed: with calls that overlap as without. Assumed besides: what is stored is collected only where calls do not overlap. Without it a
  call whose execution was collected and begun anew by another could save over it, since versions begin anew too.
- *The cache.* What is cached is of the revision seen last, a load that has not been told to stop is the one requests for its key join, and who
  waits waits for one load (`EntriesFit`, `LoadsFit`, `WaitersFit`). What deleting keys leaves of the entries (`Without`, a recursive
  function) is shown by induction: the library's theorems take an operator, so `AllNaturals` is proved for sets of numbers, from
  `WellFoundedInduction`'s facts about minimal elements. The collaboration uses the same.
- *The limiter.* A transaction has locked its own key and the rows it removed, and will write what the row says now, so nothing is counted twice (`TransactionOK`).
- *The stream.* The connection that is live is the active one and the last of its view (`LiveIsActive`).

*Only model-checked.* Liveness (`EveryJobSettles`, `EverythingEnds`): fairness and `ENABLED` are outside the
prover's reach. Every invariant and every action property of a passing run is a theorem.
The locks of two procedures taken in different orders (a hazard in `PROJECT.json`) are covered by no property: a procedure is one step here.

## Not modelled

By size most of the repository is not in the map, which covers less than a fifth of its lines. What is left out, and why:

- *Pure computations* (retrieval, ranking, context assembly, about ninety analysers, the engines behind queries, insights,
  evolutions, plans and specifications; some 30,000 lines). Functions of their input over large records, mostly
  text; the repository tests them as functions, and their state is their result.
- *Observability* (metrics, logs, traces), *contracts, validation, configuration*: formatting and parsing. Nothing another
  part does depends on them.
- *Routes*: authorisation and formatting around services; what they do to state is in the module of the service.
- *The frontend*, the progress view excepted: presentation over the API.
- *In-memory stores*: test doubles. Where they differ from the procedures, the model follows the procedures
  (`RepositoryExecution` has both), and a finding says what the tests then say of the double only.
- *External services* (GitHub, AI provider, Postgres itself): calls that answer, fail or lose their answer.
- *Row locks* between procedures: what a procedure does under its row locks is one step, except in `RateLimit`. What it reads
  before it locks is a step of its own where something depends on it (`AgentRuntime`, the leases of `RepositoryExecution`). Where two take locks in different orders Postgres
  aborts one, which is a call that fails.

## Plan

Done: the queue, publication, lifecycle, in-process protocols, sessions, orchestration, the change
pipeline, and the proofs named above. Left, in order of worth:

1. An abstract specification of publication, a repository that shows one complete revision or none.
2. The in-memory job store beside the durable one.

## Running

    tlc -config MCIndexingJobs.cfg MCIndexingJobs
    tlc -config MCPublication.cfg MCSnapshotPublication
    tlc -config MCEngines.cfg MCEngines
    tlapm IndexingJobsProofs.tla
    tlapm EnginesProofs.tla
    tlapm RecordsProofs.tla

Every other run likewise: `PROJECT.json` gives the module and the configuration of each. `RecordsProofs` takes about
twenty-five minutes from nothing, `EnginesProofs` twenty, the others ten at most.
