---------------------------- MODULE IndexingJobs ----------------------------
(***************************************************************************)
(* The indexing queue: the rows of indexing_jobs, the part of repositories *)
(* the queue reads and writes, and the worker processes that claim, run    *)
(* and settle the jobs through the stored procedures of                    *)
(* backend/supabase/migrations.                                            *)
(*                                                                         *)
(* A stored procedure is one transaction, hence one action.  A worker sits *)
(* between two calls in one of the states of `workers`.  The pipeline a    *)
(* worker started outlives the wait for it (waitForDeadline gives up on    *)
(* the promise, it does not stop it), so the pipelines still executing are *)
(* a set of their own: a member whose worker has moved on is a stale       *)
(* executor that still calls the database with its old claim.              *)
(*                                                                         *)
(* Time: a lease is "live" or "lapsed" and a back-off is due or not; the   *)
(* actions LeaseLapses and BackoffElapses are the clock.  A claim token (a *)
(* fresh uuid) is the next number of `issued`.  repository_version is not  *)
(* kept: a compare-and-swap that succeeds is one that read the row as it   *)
(* still is, and one that fails changes nothing.                           *)
(***************************************************************************)
EXTENDS Integers, FiniteSets

CONSTANTS
  Repos,          \* repository ids
  Jobs,           \* job ids; the pool bounds how many jobs are ever created
  Workers,        \* worker processes (INDEXING_WORKER_ID)
  Users,          \* repository owners
  OwnerOf,        \* the owner each repository is connected by
  MaxAttempts,    \* indexing_jobs.max_attempts
  MaxConcurrent,  \* REPOSITORY_QUOTA_MAX_CONCURRENT_PER_USER
  ClockSkew,      \* whether the recovering process's clock may run ahead of the database's
  None

ASSUME OwnerAssumption == OwnerOf \in [Repos -> Users]
ASSUME AttemptAssumption == MaxAttempts \in Nat \ {0}
ASSUME QuotaAssumption == MaxConcurrent \in Nat \ {0}
ASSUME SkewAssumption == ClockSkew \in BOOLEAN

VARIABLES
  jobs,       \* indexing_jobs: one row per job id
  repos,      \* repositories and repository_deletion_tombstones
  issued,     \* claim tokens handed out so far
  workers,    \* what each worker process is doing, and the claim it holds
  pipelines   \* claims whose indexing pipeline is still executing somewhere

vars == <<jobs, repos, issued, workers, pipelines>>

(***************************************************************************)
(* The shape of the state                                                  *)
(***************************************************************************)
NoToken == 0

ActiveStatuses == {"queued", "claimed", "running"}
JobStatuses == {"unborn", "deleted", "succeeded", "failed"} \cup ActiveStatuses

Failures == {"retryable", "terminal"}

JobRow ==
  [status: JobStatuses, repo: Repos \cup {None}, attempt: 0..MaxAttempts,
   by: Workers \cup {None}, token: Nat,
   lease: {"none", "live", "lapsed"}, wait: {"none", "due", "later"},
   failure: Failures \cup {"none"}]

RepoRow ==
  [connected: BOOLEAN, tombstone: BOOLEAN,
   status: {"none", "indexing", "indexed", "failed"}, publisher: Nat]

Claim == [job: Jobs, by: Workers, token: Nat, attempt: 1..MaxAttempts]

ASSUME NoneAssumption == None \notin Repos \cup Jobs \cup Workers \cup Claim

WorkerState ==
  [pc: {"down", "idle", "claimed", "running", "completing", "failing", "retrying"},
   claim: Claim \cup {None}, failure: Failures \cup {"none"}]

TypeOK ==
  /\ jobs \in [Jobs -> JobRow]
  /\ repos \in [Repos -> RepoRow]
  /\ issued \in Nat
  /\ workers \in [Workers -> WorkerState]
  /\ pipelines \subseteq Claim

\* A row no worker has a claim on.
UnclaimedRow(status, r, attempt, wait) ==
  [status |-> status, repo |-> r, attempt |-> attempt, by |-> None,
   token |-> NoToken, lease |-> "none", wait |-> wait, failure |-> "none"]

QueuedRow(r, attempt, wait) == UnclaimedRow("queued", r, attempt, wait)
NoRow(status) == UnclaimedRow(status, None, 0, "none")

\* What the stored procedures do to a row, the triggers' part included.
Claimed(row, w, token) ==
  [row EXCEPT !.status = "claimed", !.by = w, !.token = token, !.lease = "live", !.wait = "none"]
Succeeded(row) ==
  [row EXCEPT !.status = "succeeded", !.lease = "none"]
Failed(row, failure) ==
  [row EXCEPT !.status = "failed", !.lease = "none", !.failure = failure]

NoRepo == [connected |-> FALSE, tombstone |-> FALSE, status |-> "none", publisher |-> NoToken]
DeletedRepo == [NoRepo EXCEPT !.tombstone = TRUE]

AtRest(pc) == [pc |-> pc, claim |-> None, failure |-> "none"]
Idle == AtRest("idle")
Failing(c, failure) == [pc |-> "failing", claim |-> c, failure |-> failure]

Init ==
  /\ jobs = [j \in Jobs |-> NoRow("unborn")]
  /\ repos = [r \in Repos |-> NoRepo]
  /\ issued = 0
  /\ workers = [w \in Workers |-> Idle]
  /\ pipelines = {}

(***************************************************************************)
(* Predicates of the stored procedures                                     *)
(***************************************************************************)
Exists(j) == jobs[j].status \notin {"unborn", "deleted"}
Active(j) == jobs[j].status \in ActiveStatuses
ActiveOn(r) == {j \in Jobs : Active(j) /\ jobs[j].repo = r}
ActiveOf(u) == {j \in Jobs : Active(j) /\ OwnerOf[jobs[j].repo] = u}

\* Mutant of Owns: the token is not compared, only the worker.
OwnsByWorker(c) == jobs[c.job].by = c.by

\* claimed_by and claim_token match the caller's.
Owns(c) == jobs[c.job].by = c.by /\ jobs[c.job].token = c.token

\* ... and the lease has not expired by the database's clock.
Holds(c) ==
  /\ Owns(c)
  /\ jobs[c.job].status \in {"claimed", "running"}
  /\ jobs[c.job].lease = "live"

Executing(c) == Holds(c) /\ jobs[c.job].status = "running"

\* The process that claimed c still waits for c's pipeline.
Waiting(c) == workers[c.by].pc = "running" /\ workers[c.by].claim = c

\* The repository's status: `status` unless a revision is published.
Unless(status, r) == IF repos[r].publisher = NoToken THEN status ELSE "indexed"

Busy(w, pc) == workers[w].pc = pc

(***************************************************************************)
(* Requests: connect a repository, delete a repository                     *)
(***************************************************************************)

\* connect_repository_idempotently and the create_indexing_job it calls: a
\* repository has at most one active job, an owner at most MaxConcurrent.  The
\* quota exception rolls the whole transaction back.  A tombstone is not looked at.
Connect(r) ==
  /\ \/ /\ ActiveOn(r) # {}
        /\ jobs' = jobs
     \/ /\ ActiveOn(r) = {}
        /\ Cardinality(ActiveOf(OwnerOf[r])) < MaxConcurrent
        /\ \E j \in Jobs :
             /\ jobs[j].status = "unborn"
             /\ jobs' = [jobs EXCEPT ![j] = QueuedRow(r, 1, "due")]
  /\ repos' = [repos EXCEPT ![r] = [@ EXCEPT !.connected = TRUE, !.status = "indexing"]]
  /\ UNCHANGED <<issued, workers, pipelines>>

\* Mutant of Delete: only the jobs nobody has claimed yet are removed.
DeleteUnclaimed(r) ==
  /\ repos[r].connected
  /\ ~repos[r].tombstone
  /\ jobs' = [j \in Jobs |-> IF jobs[j].repo = r /\ jobs[j].status = "queued"
                             THEN NoRow("deleted") ELSE jobs[j]]
  /\ repos' = [repos EXCEPT ![r] = DeletedRepo]
  /\ UNCHANGED <<issued, workers, pipelines>>

\* delete_repository_transactionally.  With a tombstone already there it answers
\* from the tombstone and changes nothing.
Delete(r) ==
  /\ repos[r].connected
  /\ ~repos[r].tombstone
  /\ jobs' = [j \in Jobs |-> IF jobs[j].repo = r THEN NoRow("deleted") ELSE jobs[j]]
  /\ repos' = [repos EXCEPT ![r] = DeletedRepo]
  /\ UNCHANGED <<issued, workers, pipelines>>

(***************************************************************************)
(* The worker: processNextIndexingJob and ContinuousIndexingWorker.pollOnce *)
(***************************************************************************)

\* claim_next_indexing_job: any due row, since SKIP LOCKED passes over the ones
\* other claimers have locked.  A lost answer leaves the row claimed by nobody.
ClaimNext(w) ==
  /\ Busy(w, "idle")
  /\ \E j \in Jobs, delivered \in BOOLEAN :
       /\ jobs[j].status = "queued"
       /\ jobs[j].wait = "due"
       /\ repos[jobs[j].repo].connected
       /\ jobs' = [jobs EXCEPT ![j] = Claimed(@, w, issued + 1)]
       /\ workers' =
            IF delivered
            THEN [workers EXCEPT ![w] =
                   [pc |-> "claimed", failure |-> "none",
                    claim |-> [job |-> j, by |-> w, token |-> issued + 1,
                               attempt |-> jobs[j].attempt]]]
            ELSE workers
  /\ issued' = issued + 1
  /\ UNCHANGED <<repos, pipelines>>

\* An error between the claim and the pipeline: authorizeIndexingJob refuses, or
\* a call does not reach the database.
StartFails(w) ==
  /\ Busy(w, "claimed")
  /\ \E failure \in Failures :
       workers' = [workers EXCEPT ![w] = Failing(workers[w].claim, failure)]
  /\ UNCHANGED <<jobs, repos, issued, pipelines>>

\* mark_indexing_job_running, then the pipeline starts; a lost answer is an error
\* like any other, a refused fence ends the poll.
MarkRunning(w) ==
  LET c == workers[w].claim
      started == jobs[c.job].status = "claimed" /\ Holds(c)
      r == jobs[c.job].repo
  IN /\ Busy(w, "claimed")
     /\ \/ /\ started
           /\ jobs' = [jobs EXCEPT ![c.job].status = "running"]
           /\ repos' = [repos EXCEPT ![r].status = Unless("indexing", r)]
           /\ \/ /\ workers' = [workers EXCEPT ![w].pc = "running"]
                 /\ pipelines' = pipelines \cup {c}
              \/ /\ \E failure \in Failures :
                      workers' = [workers EXCEPT ![w] = Failing(workers[w].claim, failure)]
                 /\ pipelines' = pipelines
        \/ /\ ~started
           /\ workers' = [workers EXCEPT ![w] = Idle]
           /\ UNCHANGED <<jobs, repos, pipelines>>
     /\ UNCHANGED issued

\* The wait ends without the pipeline: the indexing deadline passes, a heartbeat
\* call fails, or the shutdown timeout aborts.  The pipeline keeps executing.
Abandon(w) ==
  /\ Busy(w, "running")
  /\ \E failure \in Failures :
       workers' = [workers EXCEPT ![w] = Failing(workers[w].claim, failure)]
  /\ UNCHANGED <<jobs, repos, issued, pipelines>>

\* Mutant of Heartbeat: the renewal does not ask whether the lease is still live.
HeartbeatRevives(w) ==
  LET c == workers[w].claim
  IN /\ workers[w].pc \notin {"down", "idle"}
     /\ Owns(c)
     /\ jobs[c.job].status \in {"claimed", "running"}
     /\ jobs' = [jobs EXCEPT ![c.job].lease = "live"]
     /\ UNCHANGED <<workers, repos, issued, pipelines>>

\* heartbeat_indexing_job, called from the claim to the end of the poll: renews a
\* live lease, and no other; a refusal aborts the wait for the pipeline, if there is one.
Heartbeat(w) ==
  LET c == workers[w].claim
  IN /\ workers[w].pc \notin {"down", "idle"}
     /\ \/ /\ Holds(c)
           /\ jobs' = [jobs EXCEPT ![c.job].lease = "live"]
           /\ workers' = workers
        \/ /\ ~Holds(c)
           /\ Busy(w, "running")
           /\ jobs' = jobs
           /\ \E failure \in Failures :
                workers' = [workers EXCEPT ![w] = Failing(workers[w].claim, failure)]
     /\ UNCHANGED <<repos, issued, pipelines>>

\* complete_indexing_job once the pipeline has returned: idempotent, since
\* publication has already settled the row.  An error after it (the call itself
\* or the lifecycle event) goes to the failure path.
CompleteJob(w) ==
  LET c == workers[w].claim
  IN /\ Busy(w, "completing")
     /\ jobs' = IF Executing(c)
                THEN [jobs EXCEPT ![c.job] = Succeeded(@)]
                ELSE jobs
     /\ workers' \in {[workers EXCEPT ![w] = Idle], [workers EXCEPT ![w] = Failing(c, "retryable")]}
     /\ UNCHANGED <<repos, issued, pipelines>>

\* Mutant of MarkFailed: the status and the lease of the row are not checked.
MarkFailedUnfenced(w) ==
  LET c == workers[w].claim
  IN /\ Busy(w, "failing")
     /\ Owns(c)
     /\ jobs' = [jobs EXCEPT ![c.job] = Failed(@, "terminal")]
     /\ workers' = [workers EXCEPT ![w] = Idle]
     /\ UNCHANGED <<repos, issued, pipelines>>

\* Mutant of MarkFailed: the repository reads failed even if an older revision is shown.
MarkFailedHidesRevision(w) ==
  LET c == workers[w].claim
  IN /\ Busy(w, "failing")
     /\ Holds(c)
     /\ jobs' = [jobs EXCEPT ![c.job] = Failed(@, "terminal")]
     /\ repos' = [repos EXCEPT ![jobs[c.job].repo].status = "failed"]
     /\ workers' = [workers EXCEPT ![w] = Idle]
     /\ UNCHANGED <<issued, pipelines>>

\* fail_indexing_job.  Refused by the fence, or not reaching the database, it
\* ends the poll with the row as it is; so does a lost answer, after the commit.
MarkFailed(w) ==
  LET c == workers[w].claim
      failure == workers[w].failure
      r == jobs[c.job].repo
  IN /\ Busy(w, "failing")
     /\ \/ /\ Holds(c)
           /\ jobs' = [jobs EXCEPT ![c.job] = Failed(@, failure)]
           /\ repos' = [repos EXCEPT ![r].status = Unless("failed", r)]
           /\ \/ /\ failure = "retryable" /\ c.attempt < MaxAttempts
                 /\ workers' = [workers EXCEPT ![w].pc = "retrying"]
              \/ workers' = [workers EXCEPT ![w] = Idle]
        \/ /\ workers' = [workers EXCEPT ![w] = Idle]
           /\ UNCHANGED <<jobs, repos>>
     /\ UNCHANGED <<issued, pipelines>>

\* Mutant of ScheduleRetry: another job of the repository does not refuse the retry.
ScheduleRetryBeside(w) ==
  LET c == workers[w].claim
      row == jobs[c.job]
  IN /\ Busy(w, "retrying")
     /\ Owns(c)
     /\ row.status = "failed"
     /\ row.attempt < MaxAttempts
     /\ jobs' = [jobs EXCEPT ![c.job] = QueuedRow(row.repo, row.attempt + 1, "later")]
     /\ workers' = [workers EXCEPT ![w] = Idle]
     /\ UNCHANGED <<repos, issued, pipelines>>

\* schedule_indexing_job_retry.  The unique index of active jobs refuses the row
\* when the repository has been given another job; a call that fails is not repeated.
ScheduleRetry(w) ==
  LET c == workers[w].claim
      row == jobs[c.job]
  IN /\ Busy(w, "retrying")
     /\ \/ /\ Owns(c)
           /\ row.status = "failed"
           /\ row.failure = "retryable"
           /\ row.attempt < MaxAttempts
           /\ ActiveOn(row.repo) = {}
           /\ jobs' = [jobs EXCEPT ![c.job] = QueuedRow(row.repo, row.attempt + 1, "later")]
        \/ jobs' = jobs
     /\ workers' = [workers EXCEPT ![w] = Idle]
     /\ UNCHANGED <<repos, issued, pipelines>>

(***************************************************************************)
(* The pipeline, attached to its worker or not                             *)
(***************************************************************************)

\* The pipeline of c ends; the worker that still waits for it goes on as `next`.
Ends(c, next) ==
  /\ pipelines' = pipelines \ {c}
  /\ workers' = IF Waiting(c) THEN [workers EXCEPT ![c.by] = next] ELSE workers

\* begin_repository_snapshot, as far as the repository's status goes.
BeginSnapshot(c) ==
  LET r == jobs[c.job].repo
  IN /\ Executing(c)
     /\ repos' = [repos EXCEPT ![r].status = Unless("indexing", r)]
     /\ UNCHANGED <<jobs, issued, workers, pipelines>>

\* update_indexing_job_progress.  Accepted, it writes a stage and a percentage, which
\* are not kept here; refused by the fence, it is rethrown and ends the poll.
ReportProgress(c) ==
  /\ ~Executing(c)
  /\ Ends(c, Idle)
  /\ UNCHANGED <<jobs, repos, issued>>

\* Mutant of Publish: the claim is not checked against the row.
PublishUnfenced(c) ==
  LET r == jobs[c.job].repo
  IN /\ r # None
     /\ jobs' = [jobs EXCEPT ![c.job] = Succeeded(@)]
     /\ repos' = [repos EXCEPT ![r] = [@ EXCEPT !.status = "indexed", !.publisher = c.token]]
     /\ Ends(c, [pc |-> "completing", claim |-> c, failure |-> "none"])
     /\ UNCHANGED issued

\* publish_repository_snapshot: the new revision becomes current and the job
\* succeeds in one transaction.  Publishing the revision that is current already
\* leaves the status as it is.  A lost answer looks like a failure.
Publish(c) ==
  LET r == jobs[c.job].repo
  IN /\ Executing(c)
     /\ jobs' = [jobs EXCEPT ![c.job] = Succeeded(@)]
     /\ \E status \in {"indexed", repos[r].status} :
          /\ status = "indexed" \/ repos[r].publisher # NoToken
          /\ repos' = [repos EXCEPT ![r] = [@ EXCEPT !.status = status, !.publisher = c.token]]
     /\ \/ Ends(c, [pc |-> "completing", claim |-> c, failure |-> "none"])
        \/ \E failure \in Failures : Ends(c, Failing(c, failure))
     /\ UNCHANGED issued

\* Any stage of the pipeline throws.  What it staged is discarded, if it began a
\* snapshot and discard_repository_snapshot still knows the claim.
PipelineFails(c) ==
  LET r == jobs[c.job].repo
  IN /\ \E failure \in Failures : Ends(c, Failing(c, failure))
     /\ \/ repos' = repos
        \/ /\ Holds(c) \/ (Owns(c) /\ jobs[c.job].status = "failed")
           /\ repos' = [repos EXCEPT ![r].status = Unless("failed", r)]
     /\ UNCHANGED <<jobs, issued>>

(***************************************************************************)
(* Recovery, crashes and the clock                                         *)
(***************************************************************************)
\* Mutant of Stale: recovery does not look at the lease.
StaleWhileLive(j) == jobs[j].status \in {"claimed", "running"}

\* Mutant of Stale: a job that was claimed and never started is not recovered.
StaleOnceRunning(j) == jobs[j].status = "running" /\ jobs[j].lease = "lapsed"

Stale(j) ==
  /\ jobs[j].status \in {"claimed", "running"}
  /\ jobs[j].lease = "lapsed" \/ ClockSkew

\* Mutant of RecoverStale: the attempt spent is not counted.
RecoverStaleUncounted ==
  /\ \E j \in {i \in Jobs : Stale(i)} :
       jobs' = [jobs EXCEPT ![j] = QueuedRow(jobs[j].repo, jobs[j].attempt, "later")]
  /\ UNCHANGED <<repos, issued, workers, pipelines>>

\* Mutant of RecoverStale: the cap on attempts is not checked.
RecoverStaleUncapped ==
  /\ \E j \in {i \in Jobs : Stale(i)} :
       jobs' = [jobs EXCEPT ![j] = QueuedRow(jobs[j].repo, jobs[j].attempt + 1, "later")]
  /\ UNCHANGED <<repos, issued, workers, pipelines>>

\* recover_stale_indexing_jobs, called by every worker's poll loop and by the API
\* at start-up.  SKIP LOCKED: any of the stale rows.  The cut-off is the caller's clock.
RecoverStale ==
  /\ \E stale \in SUBSET {j \in Jobs : Stale(j)} \ {{}} :
       jobs' = [j \in Jobs |->
                 IF j \notin stale THEN jobs[j]
                 ELSE IF jobs[j].attempt < MaxAttempts
                 THEN QueuedRow(jobs[j].repo, jobs[j].attempt + 1, "later")
                 ELSE Failed(jobs[j], "terminal")]
  /\ UNCHANGED <<repos, issued, workers, pipelines>>

\* A process dies with whatever it was executing: a crash, or the exit after the
\* shutdown timeout.  An idle process with no stale pipeline has nothing to lose.
Crash(w) ==
  LET own == {c \in pipelines : c.by = w}
  IN /\ workers[w].pc \notin {"down", "idle"} \/ own # {}
     /\ workers' = [workers EXCEPT ![w] = AtRest("down")]
     /\ pipelines' = pipelines \ own
     /\ UNCHANGED <<jobs, repos, issued>>

\* The supervisor starts the process again; its start-up recovery is RecoverStale.
Restart(w) ==
  /\ Busy(w, "down")
  /\ workers' = [workers EXCEPT ![w] = Idle]
  /\ UNCHANGED <<jobs, repos, issued, pipelines>>

LeaseLapses(j) ==
  /\ jobs[j].lease = "live"
  /\ jobs' = [jobs EXCEPT ![j].lease = "lapsed"]
  /\ UNCHANGED <<repos, issued, workers, pipelines>>

BackoffElapses(j) ==
  /\ jobs[j].status = "queued"
  /\ jobs[j].wait = "later"
  /\ jobs' = [jobs EXCEPT ![j].wait = "due"]
  /\ UNCHANGED <<repos, issued, workers, pipelines>>

Request(r) == Connect(r) \/ Delete(r)

WorkerStep(w) ==
  \/ StartFails(w) \/ MarkRunning(w) \/ Abandon(w) \/ Heartbeat(w)
  \/ CompleteJob(w) \/ MarkFailed(w) \/ ScheduleRetry(w)

PipelineStep(c) == BeginSnapshot(c) \/ ReportProgress(c) \/ Publish(c) \/ PipelineFails(c)

Clock(j) == LeaseLapses(j) \/ BackoffElapses(j)

Next ==
  \/ \E r \in Repos : Request(r)
  \/ \E w \in Workers : ClaimNext(w) \/ WorkerStep(w) \/ Crash(w) \/ Restart(w)
  \/ \E c \in pipelines : PipelineStep(c)
  \/ \E j \in Jobs : Clock(j)
  \/ RecoverStale

Spec == Init /\ [][Next]_vars

(***************************************************************************)
(* Fairness.  Restart is the supervisor's restart-on-failure.  A worker's  *)
(* own steps include giving up on its pipeline, which the indexing         *)
(* deadline forces, so nothing is assumed of pipelines: one may hang for   *)
(* ever.  Back-offs run out by the clock, and so does a lease that no      *)
(* process renews; every poll loop and API start repeats the recovery.     *)
(* Nothing obliges requests, crashes or errors to happen or not to happen. *)
(***************************************************************************)
Unattended(j) ==
  \A w \in Workers : workers[w].claim # None => workers[w].claim.token # jobs[j].token

Fairness ==
  /\ \A w \in Workers :
       WF_vars(ClaimNext(w)) /\ WF_vars(WorkerStep(w)) /\ WF_vars(Restart(w))
  /\ \A j \in Jobs : WF_vars(Unattended(j) /\ LeaseLapses(j)) /\ WF_vars(BackoffElapses(j))
  /\ WF_vars(RecoverStale)

FairSpec == Spec /\ Fairness

(***************************************************************************)
(* Safety                                                                  *)
(***************************************************************************)

\* A repository never has two jobs queued or executing at once, whatever connects,
\* retries and recoveries interleave (indexing_jobs_one_active_per_repository,
\* create_indexing_job, schedule_indexing_job_retry).
OneActiveJobPerRepository ==
  \A r \in Repos : \A i, j \in ActiveOn(r) : i = j

ClaimsInUse == pipelines \cup ({workers[w].claim : w \in Workers} \ {None})

\* No attempt of a job is ever executed twice: two claims still in use for one job
\* are of different attempts, none is ahead of the row, and the row's own attempt
\* is executed by its own claim (claim_next_indexing_job against
\* recover_stale_indexing_jobs and schedule_indexing_job_retry, with executors that
\* outlive their lease).
OneExecutionPerAttempt ==
  /\ \A c, d \in ClaimsInUse : c.job = d.job /\ c.attempt = d.attempt => c = d
  /\ \A c \in ClaimsInUse :
       Exists(c.job) =>
         /\ c.attempt <= jobs[c.job].attempt
         /\ c.attempt = jobs[c.job].attempt => Owns(c)

\* The revision a repository shows was published by the claim of a job that
\* succeeded, and by the newest such claim of that repository: a stale executor
\* neither publishes nor overwrites (publish_repository_snapshot, complete_indexing_job).
PublicationIsNewestSuccess ==
  \A r \in Repos :
    LET succeeded == {j \in Jobs : jobs[j].status = "succeeded" /\ jobs[j].repo = r}
    IN /\ repos[r].publisher # NoToken => \E j \in succeeded : jobs[j].token = repos[r].publisher
       /\ \A j \in succeeded : jobs[j].token <= repos[r].publisher

\* Deleting a repository leaves no job of it behind, and no later call of a worker
\* brings one back (delete_repository_transactionally against every worker call).
NoJobOutlivesItsRepository ==
  \A j \in Jobs : Exists(j) => repos[jobs[j].repo].connected

\* A repository reads "indexed" only with a published revision and "failed" only
\* without one, through every connect, start, failure and publication.
StatusAgreesWithPublication ==
  \A r \in Repos :
    /\ repos[r].status = "indexed" => repos[r].publisher # NoToken
    /\ repos[r].status = "failed" => repos[r].publisher = NoToken

(***************************************************************************)
(* What a step may never do                                                *)
(***************************************************************************)

\* A job whose lease is live is given back or failed only by its own holder, never
\* by recovery; it needs the clocks to agree (recover_stale_indexing_jobs compares
\* the lease with the caller's clock).
LiveLeaseIsNotTaken ==
  [][\A j \in Jobs :
       jobs[j].lease = "live" /\ jobs'[j].status \in {"queued", "failed"} =>
         /\ jobs'[j].status = "failed"
         /\ \E w \in Workers : Busy(w, "failing") /\ workers[w].claim.token = jobs[j].token]_vars

\* An executor whose lease has lapsed never gets it back under the same claim:
\* what it lost it can only claim anew (heartbeat_indexing_job).
LapsedLeaseStaysLapsed ==
  [][\A j \in Jobs :
       jobs[j].lease = "lapsed" /\ jobs'[j].token = jobs[j].token => jobs'[j].lease # "live"]_vars

\* Success is final, a terminal failure is final, and the attempt of a job never goes
\* back; only the deletion of the repository ends them (enforce_indexing_job_lifecycle).
OutcomeIsFinal ==
  [][\A j \in Jobs :
       Exists(j) /\ jobs'[j].status # "deleted" =>
         /\ jobs[j].status = "succeeded" => jobs'[j] = jobs[j]
         /\ jobs[j].failure = "terminal" => jobs'[j] = jobs[j]
         /\ jobs'[j].attempt >= jobs[j].attempt]_vars

(***************************************************************************)
(* Liveness                                                                *)
(***************************************************************************)

\* Every job is settled for good in the end: crashes, lost answers, hung pipelines and
\* lapsed leases cost attempts, and attempts are capped (recover_stale_indexing_jobs).
EveryJobSettles ==
  \A j \in Jobs : Active(j) ~> []~Active(j)

RetryDue(j) ==
  /\ jobs[j].status = "failed"
  /\ jobs[j].failure = "retryable"
  /\ jobs[j].attempt < MaxAttempts

\* backend/README.md:80: "Retryable failures are requeued with bounded exponential
\* backoff": a job failed retryably with attempts left leaves that state.
RetryableFailuresAreRequeued ==
  \A j \in Jobs : RetryDue(j) ~> ~RetryDue(j)

\* .env.example:185, REPOSITORY_QUOTA_MAX_CONCURRENT_PER_USER: an owner's active jobs
\* never outnumber the limit.
ConcurrencyWithinQuota ==
  \A u \in Users : Cardinality(ActiveOf(u)) <= MaxConcurrent
=============================================================================
