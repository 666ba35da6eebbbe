------------------------- MODULE IndexingJobsProofs -------------------------
(***************************************************************************)
(* What IndexingJobs guarantees, for every pool of repositories, jobs and  *)
(* workers, every cap, and with or without clock skew.  In four parts:     *)
(*                                                                         *)
(* 1. The inductive invariant (StateOK), and the proof that no step leaves *)
(*    the types.                                                           *)
(* 2. Each action is reduced to a few moves: what one step may do to one   *)
(*    row, one repository, one worker and the set of claims in use.  The   *)
(*    invariant survives the moves, whatever the action was; from it       *)
(*    follow the safety properties.                                        *)
(* 3. What a step never does, and what a repository's status says of it.   *)
(* 4. The refinement: the first state maps to the empty ledger, and each   *)
(*    step to one step of the ledger or to none.                           *)
(***************************************************************************)
EXTENDS IndexingJobsImplementsLedger, TLAPS

Held(j) == jobs[j].status \in {"claimed", "running"}

\* A row is of a connected repository or is no row at all; it carries a claim from
\* the moment it is claimed until it is queued again, and a lease while it is held.
RowOK(j) ==
  /\ Exists(j) => /\ jobs[j].repo \in Repos
                  /\ repos[jobs[j].repo].connected
                  /\ jobs[j].attempt >= 1
  /\ ~Exists(j) => jobs[j].repo = None
  /\ jobs[j].status \in {"unborn", "deleted", "queued"} =>
       jobs[j].by = None /\ jobs[j].token = NoToken
  /\ jobs[j].token <= issued
  /\ ~Held(j) => jobs[j].lease = "none"

\* A busy worker holds a claim of its own.
WorkerOK(w) ==
  /\ workers[w].pc \in {"down", "idle"} => workers[w].claim = None
  /\ workers[w].pc \notin {"down", "idle"} => workers[w].claim \in Claim
  /\ workers[w].claim # None => workers[w].claim.by = w

ClaimOK(c) == c.token \in 1..issued /\ jobs[c.job].status # "unborn"

\* What a worker still has to complete is settled already, as long as it is its own.
CompletingOK(w) ==
  Busy(w, "completing") /\ Owns(workers[w].claim) =>
    jobs[workers[w].claim.job].status = "succeeded"

\* A holding is newer than the publication it may replace.
PublisherOK(r) ==
  /\ repos[r].publisher <= issued
  /\ \A j \in Jobs : Held(j) /\ jobs[j].repo = r => repos[r].publisher < jobs[j].token

StateOK ==
  /\ TypeOK
  /\ \A j \in Jobs : RowOK(j)
  /\ \A w \in Workers : WorkerOK(w)
  /\ \A c \in ClaimsInUse : ClaimOK(c)

IndInv ==
  /\ StateOK
  /\ OneActiveJobPerRepository
  /\ OneExecutionPerAttempt
  /\ \A w \in Workers : CompletingOK(w)
  /\ \A r \in Repos : PublisherOK(r)
  /\ PublicationIsNewestSuccess

-----------------------------------------------------------------------------
(***************************************************************************)
(* Types                                                                   *)
(***************************************************************************)
\* A row that is not there is a row.
LEMMA NoRowType == \A status \in JobStatuses : NoRow(status) \in JobRow
BY AttemptAssumption DEF NoRow, UnclaimedRow, JobRow, NoToken

\* A queued row is a row, whatever repository, attempt and back-off it has.
LEMMA QueuedRowType ==
  \A r \in Repos, n \in 0..MaxAttempts, wait \in {"due", "later"} :
    QueuedRow(r, n, wait) \in JobRow
BY DEF QueuedRow, UnclaimedRow, JobRow, JobStatuses, ActiveStatuses, NoToken

\* Claiming, completing and failing a row give a row.
LEMMA RowTypes ==
  ASSUME NEW row \in JobRow
  PROVE  /\ Succeeded(row) \in JobRow
         /\ \A failure \in Failures \cup {"none"} : Failed(row, failure) \in JobRow
         /\ \A w \in Workers, token \in Nat : Claimed(row, w, token) \in JobRow
<1>1. Succeeded(row) \in JobRow
  BY DEF Succeeded, JobRow, JobStatuses
<1>2. ASSUME NEW failure \in Failures \cup {"none"}
      PROVE  Failed(row, failure) \in JobRow
  BY DEF Failed, JobRow, JobStatuses
<1>3. ASSUME NEW w \in Workers, NEW token \in Nat
      PROVE  Claimed(row, w, token) \in JobRow
  BY DEF Claimed, JobRow, JobStatuses, ActiveStatuses
<1> QED
  BY <1>1, <1>2, <1>3

\* One row is written.
LEMMA RowWritten ==
  ASSUME TypeOK, NEW j \in Jobs
  PROVE  /\ jobs[j] \in JobRow
         /\ \A row \in JobRow : [jobs EXCEPT ![j] = row] \in [Jobs -> JobRow]
         /\ \A status \in {"claimed", "running"} :
              [jobs EXCEPT ![j].status = status] \in [Jobs -> JobRow]
<1>1. jobs[j] \in JobRow
  BY DEF TypeOK
<1>2. \A row \in JobRow : [jobs EXCEPT ![j] = row] \in [Jobs -> JobRow]
  BY DEF TypeOK
<1>3. ASSUME NEW status \in {"claimed", "running"}
      PROVE  [jobs[j] EXCEPT !.status = status] \in JobRow
  BY <1>1 DEF JobRow, JobStatuses, ActiveStatuses
<1> QED
  BY <1>1, <1>2, <1>3

\* The states a worker is put in are worker states.
LEMMA WorkerTypes ==
  /\ Idle \in WorkerState
  /\ AtRest("down") \in WorkerState
  /\ \A c \in Claim, failure \in Failures : Failing(c, failure) \in WorkerState
BY DEF Idle, AtRest, Failing, WorkerState

\* A repository that was never connected and a deleted one are repository rows.
LEMMA RepoTypes == NoRepo \in RepoRow /\ DeletedRepo \in RepoRow
BY DEF NoRepo, DeletedRepo, RepoRow, NoToken

\* The claim a busy worker acts for.
LEMMA BusyClaim ==
  ASSUME StateOK, NEW w \in Workers,
         workers[w].pc \in {"claimed", "running", "completing", "failing", "retrying"}
  PROVE  workers[w].claim \in Claim /\ workers[w].claim.by = w /\ workers[w].claim # None
BY NoneAssumption DEF StateOK, WorkerOK

\* The empty queue has the types.
LEMMA InitType == Init => TypeOK
<1> SUFFICES ASSUME Init PROVE TypeOK
  OBVIOUS
<1>1. jobs \in [Jobs -> JobRow]
  BY NoRowType DEF Init, JobStatuses
<1>2. repos \in [Repos -> RepoRow]
  BY RepoTypes DEF Init
<1>3. workers \in [Workers -> WorkerState]
  BY WorkerTypes DEF Init
<1> QED
  BY <1>1, <1>2, <1>3 DEF Init, TypeOK

\* connect_repository_idempotently keeps the types.
LEMMA ConnectType ==
  ASSUME TypeOK, NEW r \in Repos, Connect(r)
  PROVE  TypeOK'
<1>1. QueuedRow(r, 1, "due") \in JobRow
  BY QueuedRowType, AttemptAssumption
<1>2. jobs' \in [Jobs -> JobRow]
  BY <1>1 DEF TypeOK, Connect
<1>3. repos' \in [Repos -> RepoRow]
  BY DEF TypeOK, Connect, RepoRow
<1> QED
  BY <1>2, <1>3 DEF TypeOK, Connect

\* delete_repository_transactionally keeps the types.
LEMMA DeleteType ==
  ASSUME TypeOK, NEW r \in Repos, Delete(r)
  PROVE  TypeOK'
<1>1. NoRow("deleted") \in JobRow
  BY NoRowType DEF JobStatuses
<1>2. jobs' \in [Jobs -> JobRow]
  BY <1>1 DEF TypeOK, Delete
<1>3. repos' \in [Repos -> RepoRow]
  BY RepoTypes DEF TypeOK, Delete
<1> QED
  BY <1>2, <1>3 DEF TypeOK, Delete

\* claim_next_indexing_job keeps the types: what is queued has an attempt to spend.
LEMMA ClaimNextType ==
  ASSUME StateOK, NEW w \in Workers, ClaimNext(w)
  PROVE  TypeOK'
<1>1. PICK j \in Jobs, delivered \in BOOLEAN :
        /\ jobs[j].status = "queued"
        /\ jobs' = [jobs EXCEPT ![j] = Claimed(@, w, issued + 1)]
        /\ workers' =
             IF delivered
             THEN [workers EXCEPT ![w] =
                    [pc |-> "claimed", failure |-> "none",
                     claim |-> [job |-> j, by |-> w, token |-> issued + 1,
                                attempt |-> jobs[j].attempt]]]
             ELSE workers
  BY DEF ClaimNext
<1>2. jobs[j].attempt \in 1..MaxAttempts
  BY <1>1, AttemptAssumption DEF StateOK, TypeOK, RowOK, Exists, JobRow
<1>3. jobs' \in [Jobs -> JobRow]
  BY <1>1, RowTypes DEF StateOK, TypeOK
<1>4. workers' \in [Workers -> WorkerState]
  BY <1>1, <1>2 DEF StateOK, TypeOK, WorkerState, Claim
<1> QED
  BY <1>3, <1>4 DEF StateOK, TypeOK, ClaimNext

\* A worker whose call fails keeps its claim and goes to the failure path.
LEMMA FailingType ==
  ASSUME StateOK, NEW w \in Workers, Busy(w, "claimed") \/ Busy(w, "running"),
         \E failure \in Failures :
           workers' = [workers EXCEPT ![w] = Failing(workers[w].claim, failure)]
  PROVE  workers' \in [Workers -> WorkerState]
<1>1. workers[w].claim \in Claim
  BY BusyClaim DEF Busy
<1> QED
  BY <1>1, WorkerTypes DEF StateOK, TypeOK

\* mark_indexing_job_running keeps the types.
LEMMA MarkRunningType ==
  ASSUME StateOK, NEW w \in Workers, MarkRunning(w)
  PROVE  TypeOK'
<1>1. workers[w].claim \in Claim
  BY BusyClaim DEF MarkRunning, Busy
<1>2. jobs' \in [Jobs -> JobRow]
  <2>1. [jobs EXCEPT ![workers[w].claim.job].status = "running"] \in [Jobs -> JobRow]
    BY <1>1, RowWritten DEF StateOK, Claim
  <2> QED
    BY <2>1 DEF StateOK, TypeOK, MarkRunning
<1>3. repos' \in [Repos -> RepoRow]
  BY DEF StateOK, TypeOK, MarkRunning, RepoRow, Unless
<1>4. workers' \in [Workers -> WorkerState]
  <2>1. [workers EXCEPT ![w].pc = "running"] \in [Workers -> WorkerState]
    BY DEF StateOK, TypeOK, WorkerState
  <2>2. [workers EXCEPT ![w] = Idle] \in [Workers -> WorkerState]
    BY WorkerTypes DEF StateOK, TypeOK
  <2> QED
    BY <2>1, <2>2, FailingType DEF MarkRunning
<1>5. pipelines' \subseteq Claim
  BY <1>1 DEF StateOK, TypeOK, MarkRunning
<1> QED
  BY <1>2, <1>3, <1>4, <1>5 DEF StateOK, TypeOK, MarkRunning

\* heartbeat_indexing_job keeps the types.
LEMMA HeartbeatType ==
  ASSUME StateOK, NEW w \in Workers, Heartbeat(w)
  PROVE  TypeOK'
<1>1. jobs' \in [Jobs -> JobRow]
  BY DEF StateOK, TypeOK, Heartbeat, JobRow
<1>2. workers' \in [Workers -> WorkerState]
  BY FailingType DEF StateOK, TypeOK, Heartbeat
<1> QED
  BY <1>1, <1>2 DEF StateOK, TypeOK, Heartbeat

\* complete_indexing_job keeps the types.
LEMMA CompleteJobType ==
  ASSUME StateOK, NEW w \in Workers, CompleteJob(w)
  PROVE  TypeOK'
<1>1. workers[w].claim \in Claim
  BY BusyClaim DEF CompleteJob, Busy
<1>2. jobs' \in [Jobs -> JobRow]
  BY RowTypes DEF StateOK, TypeOK, CompleteJob
<1>3. workers' \in [Workers -> WorkerState]
  BY <1>1, WorkerTypes DEF StateOK, TypeOK, CompleteJob, Failures
<1> QED
  BY <1>2, <1>3 DEF StateOK, TypeOK, CompleteJob

\* fail_indexing_job keeps the types.
LEMMA MarkFailedType ==
  ASSUME StateOK, NEW w \in Workers, MarkFailed(w)
  PROVE  TypeOK'
<1>1. jobs' \in [Jobs -> JobRow]
  <2>1. workers[w].failure \in Failures \cup {"none"}
    BY DEF StateOK, TypeOK, WorkerState
  <2>2. workers[w].claim.job \in Jobs
    BY BusyClaim DEF MarkFailed, Busy, Claim
  <2>3. [jobs EXCEPT ![workers[w].claim.job] = Failed(@, workers[w].failure)] \in [Jobs -> JobRow]
    BY <2>1, <2>2, RowTypes, RowWritten DEF StateOK
  <2> QED
    BY <2>3 DEF StateOK, TypeOK, MarkFailed
<1>2. repos' \in [Repos -> RepoRow]
  <2> DEFINE r == jobs[workers[w].claim.job].repo
  <2>1. repos' = repos \/ repos' = [repos EXCEPT ![r].status = Unless("failed", r)]
    BY DEF MarkFailed
  <2>2. Unless("failed", r) \in {"failed", "indexed"}
    BY DEF Unless
  <2> QED
    BY <2>1, <2>2 DEF StateOK, TypeOK, RepoRow
<1>3. workers' \in [Workers -> WorkerState]
  <2>1. [workers EXCEPT ![w].pc = "retrying"] \in [Workers -> WorkerState]
    BY DEF StateOK, TypeOK, WorkerState
  <2>2. [workers EXCEPT ![w] = Idle] \in [Workers -> WorkerState]
    BY WorkerTypes DEF StateOK, TypeOK
  <2> QED
    BY <2>1, <2>2 DEF MarkFailed
<1> QED
  BY <1>1, <1>2, <1>3 DEF StateOK, TypeOK, MarkFailed

\* schedule_indexing_job_retry keeps the types: the cap leaves room for one more attempt.
LEMMA ScheduleRetryType ==
  ASSUME StateOK, NEW w \in Workers, ScheduleRetry(w)
  PROVE  TypeOK'
<1> DEFINE row == jobs[workers[w].claim.job]
<1>1. workers[w].claim.job \in Jobs
  BY BusyClaim DEF ScheduleRetry, Busy, Claim
<1>2. ASSUME row.status = "failed", row.attempt < MaxAttempts
      PROVE  QueuedRow(row.repo, row.attempt + 1, "later") \in JobRow
  <2>1. row.repo \in Repos /\ row.attempt + 1 \in 0..MaxAttempts
    BY <1>1, <1>2, AttemptAssumption DEF StateOK, TypeOK, RowOK, Exists, JobRow
  <2> QED
    BY <2>1, QueuedRowType
<1>3. jobs' \in [Jobs -> JobRow]
  BY <1>2 DEF StateOK, TypeOK, ScheduleRetry
<1>4. workers' \in [Workers -> WorkerState]
  BY WorkerTypes DEF StateOK, TypeOK, ScheduleRetry
<1> QED
  BY <1>3, <1>4 DEF StateOK, TypeOK, ScheduleRetry

\* The end of a pipeline keeps the types.
LEMMA EndsType ==
  ASSUME StateOK, NEW c \in pipelines, NEW next \in WorkerState, Ends(c, next)
  PROVE  pipelines' \subseteq Claim /\ workers' \in [Workers -> WorkerState]
BY DEF StateOK, TypeOK, Ends, Claim

\* A repository whose status is written as long as no revision is published.
LEMMA StatusType ==
  ASSUME TypeOK, NEW r
  PROVE  \A status \in {"indexing", "failed"} :
           [repos EXCEPT ![r].status = Unless(status, r)] \in [Repos -> RepoRow]
<1> SUFFICES ASSUME NEW status \in {"indexing", "failed"}
             PROVE  [repos EXCEPT ![r].status = Unless(status, r)] \in [Repos -> RepoRow]
  OBVIOUS
<1>1. Unless(status, r) \in {"indexing", "failed", "indexed"}
  BY DEF Unless
<1> QED
  BY <1>1 DEF TypeOK, RepoRow

\* What a pipeline does keeps the types.
LEMMA PipelineStepType ==
  ASSUME StateOK, NEW c \in pipelines, PipelineStep(c)
  PROVE  TypeOK'
<1>1. c \in Claim
  BY DEF StateOK, TypeOK
<1>2. Idle \in WorkerState /\ \A failure \in Failures : Failing(c, failure) \in WorkerState
  BY <1>1, WorkerTypes
<1>3. CASE ReportProgress(c)
  BY <1>2, <1>3, EndsType DEF StateOK, TypeOK, ReportProgress
<1>4. CASE Publish(c)
  <2> DEFINE r == jobs[c.job].repo
  <2>1. jobs' \in [Jobs -> JobRow]
    BY <1>4, RowTypes DEF StateOK, TypeOK, Publish
  <2>2. repos' \in [Repos -> RepoRow]
    <3>1. r \in Repos /\ c.token \in Nat
      BY <1>1, <1>4 DEF Publish, Executing, Holds, Claim, StateOK, RowOK, Exists
    <3>2. PICK status \in {"indexed", repos[r].status} :
            repos' = [repos EXCEPT ![r] = [@ EXCEPT !.status = status, !.publisher = c.token]]
      BY <1>4 DEF Publish
    <3>3. status \in {"none", "indexing", "indexed", "failed"} /\ repos[r] \in RepoRow
      BY <3>1 DEF StateOK, TypeOK, RepoRow
    <3>4. [repos[r] EXCEPT !.status = status, !.publisher = c.token] \in RepoRow
      BY <3>1, <3>3 DEF RepoRow
    <3> QED
      BY <3>1, <3>2, <3>4 DEF StateOK, TypeOK
  <2>3. [pc |-> "completing", claim |-> c, failure |-> "none"] \in WorkerState
    BY <1>1 DEF WorkerState
  <2> QED
    BY <1>2, <1>4, <2>1, <2>2, <2>3, EndsType DEF StateOK, TypeOK, Publish
<1>5. CASE PipelineFails(c)
  <2>1. repos' \in [Repos -> RepoRow]
    <3> DEFINE r == jobs[c.job].repo
    <3>1. repos' = repos \/ repos' = [repos EXCEPT ![r].status = Unless("failed", r)]
      BY <1>5 DEF PipelineFails
    <3>2. [repos EXCEPT ![r].status = Unless("failed", r)] \in [Repos -> RepoRow]
      BY StatusType DEF StateOK
    <3> QED
      BY <3>1, <3>2 DEF StateOK, TypeOK
  <2> QED
    BY <1>2, <1>5, <2>1, EndsType DEF StateOK, TypeOK, PipelineFails
<1>6. CASE BeginSnapshot(c)
  <2>1. repos' \in [Repos -> RepoRow]
    BY <1>6, StatusType DEF StateOK, BeginSnapshot
  <2> QED
    BY <1>6, <2>1 DEF StateOK, TypeOK, BeginSnapshot
<1> QED
  BY <1>3, <1>4, <1>5, <1>6 DEF PipelineStep

\* recover_stale_indexing_jobs keeps the types: a job at its cap is failed, not requeued.
LEMMA RecoverStaleType ==
  ASSUME StateOK, RecoverStale
  PROVE  TypeOK'
<1>1. PICK stale \in SUBSET {j \in Jobs : Stale(j)} :
        jobs' = [j \in Jobs |->
                  IF j \notin stale THEN jobs[j]
                  ELSE IF jobs[j].attempt < MaxAttempts
                  THEN QueuedRow(jobs[j].repo, jobs[j].attempt + 1, "later")
                  ELSE Failed(jobs[j], "terminal")]
  BY DEF RecoverStale
<1>2. ASSUME NEW j \in stale, jobs[j].attempt < MaxAttempts
      PROVE  QueuedRow(jobs[j].repo, jobs[j].attempt + 1, "later") \in JobRow
  <2>1. jobs[j].repo \in Repos /\ jobs[j].attempt + 1 \in 0..MaxAttempts
    BY <1>2, AttemptAssumption DEF StateOK, TypeOK, RowOK, Exists, JobRow, Stale
  <2> QED
    BY <2>1, QueuedRowType
<1>3. ASSUME NEW j \in Jobs
      PROVE  Failed(jobs[j], "terminal") \in JobRow
  BY RowTypes DEF StateOK, TypeOK, Failures
<1>4. jobs' \in [Jobs -> JobRow]
  BY <1>1, <1>2, <1>3 DEF StateOK, TypeOK
<1> QED
  BY <1>4 DEF StateOK, TypeOK, RecoverStale

\* Crashes, restarts and errors of a process keep the types.
LEMMA ProcessType ==
  ASSUME StateOK, NEW w \in Workers, Crash(w) \/ Restart(w) \/ StartFails(w) \/ Abandon(w)
  PROVE  TypeOK'
<1>1. workers' \in [Workers -> WorkerState]
  BY WorkerTypes, FailingType DEF StateOK, TypeOK, Crash, Restart, StartFails, Abandon
<1> QED
  BY <1>1 DEF StateOK, TypeOK, Crash, Restart, StartFails, Abandon

\* The clock keeps the types.
LEMMA ClockType ==
  ASSUME StateOK, NEW j \in Jobs, Clock(j)
  PROVE  TypeOK'
<1>1. jobs' \in [Jobs -> JobRow]
  BY DEF StateOK, TypeOK, Clock, LeaseLapses, BackoffElapses, JobRow
<1> QED
  BY <1>1 DEF StateOK, TypeOK, Clock, LeaseLapses, BackoffElapses

\* No step leaves the types.
LEMMA NextType == StateOK /\ [Next]_vars => TypeOK'
<1> SUFFICES ASSUME StateOK, [Next]_vars PROVE TypeOK'
  OBVIOUS
<1>1. CASE \E r \in Repos : Request(r)
  BY <1>1, ConnectType, DeleteType DEF Request, StateOK
<1>2. CASE \E w \in Workers : ClaimNext(w) \/ WorkerStep(w) \/ Crash(w) \/ Restart(w)
  BY <1>2, ClaimNextType, MarkRunningType, HeartbeatType, CompleteJobType, MarkFailedType,
     ScheduleRetryType, ProcessType DEF WorkerStep
<1>3. CASE \E c \in pipelines : PipelineStep(c)
  BY <1>3, PipelineStepType
<1>4. CASE \E j \in Jobs : Clock(j)
  BY <1>4, ClockType
<1>5. CASE RecoverStale
  BY <1>5, RecoverStaleType
<1>6. CASE UNCHANGED vars
  BY <1>6 DEF StateOK, TypeOK, vars
<1> QED
  BY <1>1, <1>2, <1>3, <1>4, <1>5, <1>6 DEF Next

-----------------------------------------------------------------------------
(***************************************************************************)
(* The moves                                                               *)
(***************************************************************************)

OthersKept(j) == \A i \in Jobs \ {j} : jobs'[i] = jobs[i]

\* A job enters the queue of a repository that had no active job.
Born(j) ==
  /\ jobs[j].status = "unborn"
  /\ OthersKept(j)
  /\ \E r \in Repos : /\ ActiveOn(r) = {}
                      /\ repos'[r].connected
                      /\ jobs'[j] = QueuedRow(r, 1, "due")

Taken(j) ==
  /\ jobs[j].status = "queued"
  /\ issued' = issued + 1
  /\ \E w \in Workers : jobs'[j] = Claimed(jobs[j], w, issued + 1)

SameClaim(j) ==
  /\ jobs'[j].repo = jobs[j].repo
  /\ jobs'[j].attempt = jobs[j].attempt
  /\ jobs'[j].by = jobs[j].by
  /\ jobs'[j].token = jobs[j].token

\* The row stays in its phase: started, renewed, lapsed, progress, back-off over.
Going(j) ==
  /\ Exists(j)
  /\ SameClaim(j)
  /\ \/ jobs'[j].status = jobs[j].status
     \/ (jobs[j].status = "claimed" /\ jobs'[j].status = "running")
  /\ ~Held(j) => jobs'[j].lease = jobs[j].lease

Settled(j) ==
  /\ Held(j)
  /\ SameClaim(j)
  /\ jobs'[j].status \in {"succeeded", "failed"}
  /\ jobs'[j].lease = "none"
  /\ jobs'[j].status = "succeeded" => repos'[jobs[j].repo].publisher = jobs[j].token

Requeued(j) ==
  /\ \/ Held(j)
     \/ /\ jobs[j].status = "failed"
        /\ ActiveOn(jobs[j].repo) = {}
        /\ OthersKept(j)
  /\ jobs[j].attempt < MaxAttempts
  /\ jobs'[j] = QueuedRow(jobs[j].repo, jobs[j].attempt + 1, "later")

Deleted(j) ==
  /\ Exists(j)
  /\ jobs'[j] = NoRow("deleted")
  /\ repos'[jobs[j].repo] = DeletedRepo

RowMove(j) ==
  \/ jobs'[j] = jobs[j]
  \/ Born(j) \/ Taken(j) \/ Going(j) \/ Settled(j) \/ Requeued(j) \/ Deleted(j)

Kept(r) ==
  /\ repos'[r].publisher = repos[r].publisher
  /\ repos[r].connected => repos'[r].connected

Published(r) ==
  /\ repos[r].connected => repos'[r].connected
  /\ \E j \in Jobs : /\ Held(j)
                     /\ jobs[j].repo = r
                     /\ repos'[r].publisher = jobs[j].token
                     /\ jobs'[j] = Succeeded(jobs[j])
                     /\ OthersKept(j)

Removed(r) ==
  /\ repos'[r].publisher = NoToken
  /\ \A j \in Jobs : jobs'[j] = IF jobs[j].repo = r THEN NoRow("deleted") ELSE jobs[j]

RepoMove(r) == Kept(r) \/ Published(r) \/ Removed(r)

BusyPcs == {"claimed", "running", "completing", "failing", "retrying"}

\* The claim the step hands to a worker.
FreshClaim(c) ==
  /\ c \in Claim
  /\ c.token = issued + 1
  /\ issued' = issued + 1
  /\ jobs[c.job].status = "queued"
  /\ c.attempt = jobs[c.job].attempt
  /\ jobs'[c.job] = Claimed(jobs[c.job], c.by, c.token)

Stepped(w) ==
  /\ workers'[w].pc \in BusyPcs
  /\ workers'[w].claim \in Claim
  /\ workers'[w].claim.by = w
  /\ workers'[w].pc = "completing" => jobs'[workers'[w].claim.job].status = "succeeded"

WorkerMove(w) ==
  \/ workers'[w] = workers[w]
  \/ workers'[w] = Idle \/ workers'[w] = AtRest("down")
  \/ Stepped(w)

ClaimsMove ==
  \/ ClaimsInUse' \subseteq ClaimsInUse
  \/ \E f \in Claim : FreshClaim(f) /\ ClaimsInUse' \subseteq ClaimsInUse \cup {f}

Moves ==
  /\ issued' \in {issued, issued + 1}
  /\ \A j \in Jobs : RowMove(j)
  /\ \A r \in Repos : RepoMove(r)
  /\ \A w \in Workers : WorkerMove(w)
  /\ ClaimsMove

-----------------------------------------------------------------------------
(***************************************************************************)
(* From the moves to the invariant                                         *)
(***************************************************************************)
\* What a row is after a move: its fields, one by one.
LEMMA WrittenRows ==
  /\ \A r, n, wait : LET row == QueuedRow(r, n, wait)
                     IN /\ row.status = "queued" /\ row.repo = r /\ row.attempt = n
                        /\ row.by = None /\ row.token = NoToken /\ row.lease = "none"
  /\ LET row == NoRow("deleted")
     IN /\ row.status = "deleted" /\ row.repo = None /\ row.attempt = 0
        /\ row.by = None /\ row.token = NoToken /\ row.lease = "none"
BY DEF QueuedRow, NoRow, UnclaimedRow

\* What claiming and completing leave of a row.
LEMMA ChangedRows ==
  ASSUME NEW row \in JobRow
  PROVE  /\ \A w, token : LET new == Claimed(row, w, token)
                          IN /\ new.status = "claimed" /\ new.repo = row.repo
                             /\ new.attempt = row.attempt /\ new.by = w /\ new.token = token
         /\ LET new == Succeeded(row)
            IN /\ new.status = "succeeded" /\ new.repo = row.repo
               /\ new.attempt = row.attempt /\ new.by = row.by /\ new.token = row.token
               /\ new.lease = "none"
         /\ \A failure : LET new == Failed(row, failure)
            IN /\ new.status = "failed" /\ new.repo = row.repo
               /\ new.attempt = row.attempt /\ new.by = row.by /\ new.token = row.token
               /\ new.lease = "none"
BY DEF Claimed, Succeeded, Failed, JobRow

\* A row stays within RowOK.
LEMMA RowKept ==
  ASSUME StateOK, TypeOK', Moves, NEW j \in Jobs
  PROVE  RowOK(j)'
<1>1. RowOK(j) /\ jobs[j] \in JobRow /\ jobs'[j] \in JobRow /\ issued \in Nat
  BY DEF StateOK, TypeOK
<1>2. RowMove(j) /\ \A r \in Repos : RepoMove(r)
  BY DEF Moves
<1>3. issued <= issued' /\ issued' \in Nat
  BY <1>1 DEF Moves
<1>4. ASSUME NEW r \in Repos, jobs'[j].repo = r, repos[r].connected
      PROVE  repos'[r].connected
  <2>1. ~Removed(r)
    BY <1>4, WrittenRows, NoneAssumption DEF Removed
  <2> QED
    BY <1>2, <1>4, <2>1 DEF RepoMove, Kept, Published
<1>5. CASE jobs'[j] = jobs[j]
  BY <1>1, <1>3, <1>4, <1>5 DEF RowOK, Exists, Held, JobRow
<1>6. CASE Born(j)
  BY <1>1, <1>3, <1>6, WrittenRows, AttemptAssumption DEF RowOK, Exists, Held, Born, NoToken
<1>7. CASE Taken(j)
  <2>1. PICK w \in Workers : jobs'[j] = Claimed(jobs[j], w, issued + 1)
    BY <1>7 DEF Taken
  <2>2. /\ jobs'[j].status = "claimed" /\ jobs'[j].repo = jobs[j].repo
        /\ jobs'[j].attempt = jobs[j].attempt /\ jobs'[j].token = issued + 1
    BY <1>1, <2>1, ChangedRows
  <2>3. jobs'[j].repo \in Repos /\ repos[jobs'[j].repo].connected /\ jobs'[j].attempt >= 1
    BY <1>1, <1>7, <2>2 DEF RowOK, Exists, Taken
  <2> QED
    BY <1>1, <1>4, <1>7, <2>2, <2>3 DEF RowOK, Exists, Held, Taken
<1>8. CASE Going(j)
  <2>1. jobs'[j].repo \in Repos /\ repos[jobs'[j].repo].connected /\ jobs'[j].attempt >= 1
    BY <1>1, <1>8 DEF RowOK, Exists, Going, SameClaim
  <2> QED
    BY <1>1, <1>3, <1>4, <1>8, <2>1 DEF RowOK, Exists, Held, Going, SameClaim, JobRow
<1>9. CASE Settled(j)
  <2>1. jobs'[j].repo \in Repos /\ repos[jobs'[j].repo].connected /\ jobs'[j].attempt >= 1
    BY <1>1, <1>9 DEF RowOK, Exists, Settled, SameClaim, Held
  <2> QED
    BY <1>1, <1>3, <1>4, <1>9, <2>1 DEF RowOK, Exists, Held, Settled, SameClaim, JobRow
<1>10. CASE Requeued(j)
  <2>1. /\ jobs'[j].repo \in Repos /\ repos[jobs'[j].repo].connected
        /\ jobs'[j].attempt >= 1 /\ jobs'[j].status = "queued"
        /\ jobs'[j].by = None /\ jobs'[j].token = NoToken /\ jobs'[j].lease = "none"
    BY <1>1, <1>10, WrittenRows DEF RowOK, Exists, Requeued, Held, JobRow
  <2> QED
    BY <1>1, <1>3, <1>4, <2>1 DEF RowOK, Exists, Held, NoToken
<1>11. CASE Deleted(j)
  BY <1>1, <1>3, <1>11, WrittenRows DEF RowOK, Exists, Held, Deleted, NoToken
<1> QED
  BY <1>2, <1>5, <1>6, <1>7, <1>8, <1>9, <1>10, <1>11 DEF RowMove

\* Workers and claims stay within WorkerOK and ClaimOK.
LEMMA WorkersKept ==
  ASSUME StateOK, TypeOK', Moves
  PROVE  /\ \A w \in Workers : WorkerOK(w)'
         /\ \A c \in ClaimsInUse' : ClaimOK(c)'
<1>1. ASSUME NEW w \in Workers
      PROVE  WorkerOK(w)'
  <2>1. WorkerOK(w) /\ WorkerMove(w)
    BY DEF StateOK, Moves
  <2> QED
    BY <2>1 DEF WorkerOK, WorkerMove, Stepped, BusyPcs, Idle, AtRest
<1>2. ASSUME NEW c \in Claim, c \in ClaimsInUse \/ FreshClaim(c)
      PROVE  ClaimOK(c)'
  <2>1. c.token \in 1..issued'
    BY <1>2 DEF StateOK, ClaimOK, Moves, FreshClaim, TypeOK
  <2>2. c.job \in Jobs /\ jobs[c.job].status # "unborn" /\ RowMove(c.job) /\ jobs[c.job] \in JobRow
    BY <1>2 DEF StateOK, TypeOK, ClaimOK, Moves, FreshClaim, Claim
  <2>3. jobs'[c.job].status # "unborn"
    BY <2>2, WrittenRows, ChangedRows DEF RowMove, Born, Taken, Going, Settled, Requeued, Deleted, Exists
  <2> QED
    BY <2>1, <2>3 DEF ClaimOK
<1>3. ClaimsInUse \subseteq Claim
  BY DEF StateOK, TypeOK, ClaimsInUse, WorkerState
<1> QED
  BY <1>1, <1>2, <1>3 DEF Moves, ClaimsMove

\* The types and the shape of the state are inductive.
LEMMA StateKept ==
  ASSUME StateOK, TypeOK', Moves
  PROVE  StateOK'
BY RowKept, WorkersKept DEF StateOK

\* A claim that owns its row after a step owned it before, and the row was there.
LEMMA OwnedBefore ==
  ASSUME StateOK, Moves, NEW c \in ClaimsInUse, c \in Claim, Owns(c)'
  PROVE  Owns(c) /\ (jobs[c.job].status = "succeeded" => jobs'[c.job].status = "succeeded")
<1>1. c.job \in Jobs /\ RowMove(c.job) /\ jobs[c.job] \in JobRow /\ issued \in Nat
  BY DEF Claim, Moves, StateOK, TypeOK
<1>2. c.token \in 1..issued
  BY DEF StateOK, ClaimOK
<1>3. jobs'[c.job].by = c.by /\ jobs'[c.job].token = c.token
  BY DEF Owns
<1>4. ~Born(c.job) /\ ~Requeued(c.job) /\ ~Deleted(c.job)
  BY <1>2, <1>3, WrittenRows DEF Born, Requeued, Deleted, NoToken
<1>5. ~Taken(c.job)
  <2> SUFFICES ASSUME Taken(c.job) PROVE FALSE
    OBVIOUS
  <2>1. jobs'[c.job].token = issued + 1
    BY <1>1, ChangedRows DEF Taken
  <2> QED
    BY <1>1, <1>2, <1>3, <2>1
<1> QED
  BY <1>1, <1>3, <1>4, <1>5 DEF RowMove, Going, Settled, SameClaim, Owns, Held

\* Two claims in use never stand for the same attempt of a job.
LEMMA ExecutionKept ==
  ASSUME StateOK, Moves, OneExecutionPerAttempt
  PROVE  OneExecutionPerAttempt'
<1>1. ClaimsInUse \subseteq Claim /\ \A c \in ClaimsInUse : ClaimOK(c)
  BY DEF StateOK, TypeOK, ClaimsInUse, WorkerState
<1>2. ASSUME NEW f \in Claim, FreshClaim(f), NEW c \in ClaimsInUse, c.job = f.job
      PROVE  c.attempt # f.attempt
  <2>1. f.job \in Jobs /\ RowOK(f.job) /\ jobs[f.job].status = "queued"
    BY <1>2 DEF Claim, FreshClaim, StateOK
  <2>2. jobs[f.job].token = NoToken /\ c.token \in 1..issued /\ issued \in Nat
    BY <1>1, <1>2, <2>1 DEF RowOK, ClaimOK, StateOK, TypeOK
  <2>3. ~Owns(c)
    BY <1>2, <2>2 DEF Owns, NoToken
  <2>4. Exists(c.job)
    BY <1>2, <2>1 DEF Exists
  <2> QED
    BY <1>2, <2>3, <2>4 DEF OneExecutionPerAttempt, FreshClaim
<1>3. ASSUME NEW c \in ClaimsInUse', NEW d \in ClaimsInUse',
             c.job = d.job, c.attempt = d.attempt
      PROVE  c = d
  BY <1>2, <1>3 DEF Moves, ClaimsMove, OneExecutionPerAttempt
<1>4. ASSUME NEW c \in ClaimsInUse, Exists(c.job)'
      PROVE  /\ c.attempt <= jobs'[c.job].attempt
             /\ c.attempt = jobs'[c.job].attempt => Owns(c)'
  <2>1. /\ c \in Claim /\ c.job \in Jobs /\ RowMove(c.job) /\ RowOK(c.job)
        /\ jobs[c.job] \in JobRow /\ ClaimOK(c) /\ issued \in Nat /\ c.attempt \in Nat
    BY <1>1, AttemptAssumption DEF Claim, Moves, StateOK, TypeOK
  <2>2. ~Born(c.job) /\ ~Deleted(c.job)
    BY <1>4, <2>1, WrittenRows DEF Born, ClaimOK, Deleted, Exists
  <2>3. CASE jobs'[c.job] = jobs[c.job]
    BY <1>4, <2>3 DEF OneExecutionPerAttempt, Exists, Owns
  <2>4. CASE Going(c.job) \/ Settled(c.job)
    BY <2>4 DEF OneExecutionPerAttempt, Exists, Owns, Going, Settled, SameClaim, Held
  <2>5. CASE Taken(c.job)
    <3>1. jobs[c.job].token = NoToken /\ Exists(c.job)
      BY <2>1, <2>5 DEF RowOK, Taken, Exists
    <3>2. ~Owns(c)
      BY <2>1, <3>1 DEF Owns, ClaimOK, NoToken
    <3>3. jobs'[c.job].attempt = jobs[c.job].attempt
      BY <2>1, <2>5, ChangedRows DEF Taken
    <3> QED
      BY <3>1, <3>2, <3>3 DEF OneExecutionPerAttempt
  <2>6. CASE Requeued(c.job)
    <3>1. Exists(c.job) /\ jobs'[c.job].attempt = jobs[c.job].attempt + 1
      BY <2>6, WrittenRows DEF Requeued, Exists, Held
    <3>2. c.attempt <= jobs[c.job].attempt /\ jobs[c.job].attempt \in Nat
      BY <2>1, <3>1 DEF OneExecutionPerAttempt, JobRow
    <3> QED
      BY <2>1, <3>1, <3>2
  <2> QED
    BY <2>1, <2>2, <2>3, <2>4, <2>5, <2>6 DEF RowMove
<1>5. ASSUME NEW f \in Claim, FreshClaim(f)
      PROVE  f.attempt <= jobs'[f.job].attempt /\ Owns(f)'
  <2>1. /\ f.job \in Jobs /\ jobs[f.job] \in JobRow
        /\ f.attempt = jobs[f.job].attempt /\ f.attempt \in Nat
    BY <1>5, AttemptAssumption DEF Claim, FreshClaim, StateOK, TypeOK
  <2> QED
    BY <1>5, <2>1, ChangedRows DEF FreshClaim, Owns
<1> QED
  BY <1>3, <1>4, <1>5 DEF Moves, ClaimsMove, OneExecutionPerAttempt

\* A repository never gets a second active job.
LEMMA OneActiveKept ==
  ASSUME StateOK, Moves, OneActiveJobPerRepository
  PROVE  OneActiveJobPerRepository'
<1> SUFFICES ASSUME NEW r \in Repos, NEW i \in Jobs, NEW j \in Jobs,
                    i \in ActiveOn(r)', j \in ActiveOn(r)', i # j
             PROVE  FALSE
  BY DEF OneActiveJobPerRepository, ActiveOn
<1>1. ASSUME NEW k \in Jobs, k \in ActiveOn(r)'
      PROVE  k \in ActiveOn(r) \/ (ActiveOn(r) = {} /\ OthersKept(k))
  <2>1. Active(k)' /\ jobs'[k].repo = r /\ RowMove(k) /\ jobs[k] \in JobRow
    BY <1>1 DEF ActiveOn, Moves, StateOK, TypeOK
  <2>2. CASE jobs'[k] = jobs[k]
    BY <2>1, <2>2 DEF ActiveOn, Active
  <2>3. CASE Born(k)
    BY <2>1, <2>3, WrittenRows DEF Born
  <2>4. CASE Taken(k)
    BY <2>1, <2>4, ChangedRows DEF Taken, ActiveOn, Active, ActiveStatuses
  <2>5. CASE Going(k) \/ Settled(k)
    BY <2>1, <2>5 DEF Going, Settled, SameClaim, ActiveOn, Active, ActiveStatuses, Held
  <2>6. CASE Requeued(k)
    BY <2>1, <2>6, WrittenRows DEF Requeued, ActiveOn, Active, ActiveStatuses, Held
  <2>7. ~Deleted(k)
    BY <2>1, WrittenRows DEF Deleted, Active, ActiveStatuses
  <2> QED
    BY <2>1, <2>2, <2>3, <2>4, <2>5, <2>6, <2>7 DEF RowMove
<1>2. ASSUME NEW k \in Jobs, NEW l \in Jobs, k # l, OthersKept(k), l \in ActiveOn(r)'
      PROVE  l \in ActiveOn(r)
  BY <1>2 DEF OthersKept, ActiveOn, Active
<1>3. i \in ActiveOn(r) /\ j \in ActiveOn(r)
  BY <1>1, <1>2
<1> QED
  BY <1>3 DEF OneActiveJobPerRepository

\* What a worker still has to complete stays settled.
LEMMA CompletingKept ==
  ASSUME StateOK, Moves, NEW w \in Workers, CompletingOK(w)
  PROVE  CompletingOK(w)'
<1> SUFFICES ASSUME Busy(w, "completing")', Owns(workers[w].claim)'
             PROVE  jobs'[workers'[w].claim.job].status = "succeeded"
  BY DEF CompletingOK
<1>1. WorkerMove(w) /\ WorkerOK(w)
  BY DEF Moves, StateOK
<1>2. CASE workers'[w] = workers[w]
  <2>1. workers[w].claim \in Claim /\ workers[w].claim \in ClaimsInUse
    BY <1>1, <1>2, NoneAssumption DEF WorkerOK, Busy, ClaimsInUse
  <2>2. PICK c \in ClaimsInUse : c \in Claim /\ c = workers[w].claim
    BY <2>1
  <2>3. Owns(c)'
    BY <1>2, <2>2 DEF Owns
  <2>4. Owns(c) /\ (jobs[c.job].status = "succeeded" => jobs'[c.job].status = "succeeded")
    BY <2>2, <2>3, OwnedBefore
  <2>5. jobs[c.job].status = "succeeded"
    BY <1>2, <2>2, <2>4 DEF CompletingOK, Busy
  <2> QED
    BY <1>2, <2>2, <2>4, <2>5
<1>3. CASE Stepped(w)
  BY <1>3 DEF Stepped, Busy
<1> QED
  BY <1>1, <1>2, <1>3 DEF WorkerMove, Idle, AtRest, Busy

\* A holding stays newer than the publication it may replace.
LEMMA PublisherKept ==
  ASSUME StateOK, TypeOK', Moves, OneActiveJobPerRepository,
         NEW r \in Repos, PublisherOK(r)
  PROVE  PublisherOK(r)'
<1>1. /\ RepoMove(r) /\ issued \in Nat /\ issued' \in Nat /\ issued <= issued'
      /\ repos[r].publisher \in Nat /\ repos[r].publisher <= issued
  BY DEF Moves, StateOK, TypeOK, RepoRow, PublisherOK
<1>2. repos'[r].publisher <= issued'
  <2>1. CASE Kept(r)
    BY <1>1, <2>1 DEF Kept
  <2>2. CASE Published(r)
    <3>1. PICK k \in Jobs : repos'[r].publisher = jobs[k].token
      BY <2>2 DEF Published
    <3>2. jobs[k].token <= issued /\ jobs[k].token \in Nat
      BY DEF StateOK, TypeOK, RowOK, JobRow
    <3> QED
      BY <1>1, <3>1, <3>2
  <2>3. CASE Removed(r)
    BY <1>1, <2>3 DEF Removed, NoToken
  <2> QED
    BY <1>1, <2>1, <2>2, <2>3 DEF RepoMove
<1>3. ASSUME NEW j \in Jobs, Held(j)', jobs'[j].repo = r
      PROVE  repos'[r].publisher < jobs'[j].token
  <2>1. RowMove(j) /\ jobs[j] \in JobRow /\ jobs[j].token \in Nat /\ jobs[j].token <= issued
    BY DEF Moves, StateOK, TypeOK, RowOK, JobRow
  <2>2. /\ jobs'[j].repo = jobs[j].repo
        /\ \/ (Held(j) /\ jobs'[j].token = jobs[j].token)
           \/ jobs'[j].token = issued + 1
    <3>1. CASE jobs'[j] = jobs[j]
      BY <1>3, <3>1 DEF Held
    <3>2. CASE Taken(j)
      BY <2>1, <3>2, ChangedRows DEF Taken
    <3>3. CASE Going(j) \/ Settled(j)
      BY <1>3, <3>3 DEF Going, Settled, SameClaim, Held
    <3>4. ~Born(j) /\ ~Requeued(j) /\ ~Deleted(j)
      BY <1>3, WrittenRows DEF Born, Requeued, Deleted, Held
    <3> QED
      BY <2>1, <3>1, <3>2, <3>3, <3>4 DEF RowMove
  <2>3. repos[r].publisher < jobs'[j].token
    BY <1>1, <1>3, <2>1, <2>2 DEF PublisherOK
  <2>4. CASE Kept(r)
    BY <2>3, <2>4 DEF Kept
  <2>5. CASE Published(r)
    <3>1. PICK k \in Jobs : /\ Held(k) /\ jobs[k].repo = r
                            /\ jobs'[k] = Succeeded(jobs[k]) /\ OthersKept(k)
      BY <2>5 DEF Published
    <3>2. jobs'[k].status = "succeeded"
      BY <3>1, ChangedRows DEF StateOK, TypeOK
    <3>3. j # k
      BY <1>3, <3>2 DEF Held
    <3>4. Held(j) /\ jobs[j].repo = r
      BY <1>3, <3>1, <3>3 DEF OthersKept, Held
    <3>5. j \in ActiveOn(r) /\ k \in ActiveOn(r)
      BY <3>1, <3>4 DEF ActiveOn, Active, ActiveStatuses, Held
    <3> QED
      BY <3>3, <3>5 DEF OneActiveJobPerRepository
  <2>6. ~Removed(r)
    BY <1>3, WrittenRows, NoneAssumption DEF Removed
  <2> QED
    BY <1>1, <2>4, <2>5, <2>6 DEF RepoMove
<1> QED
  BY <1>2, <1>3 DEF PublisherOK

\* The revision shown stays that of the newest success.
LEMMA PublicationKept ==
  ASSUME StateOK, TypeOK', Moves, \A r \in Repos : PublisherOK(r),
         PublicationIsNewestSuccess
  PROVE  PublicationIsNewestSuccess'
<1> SUFFICES ASSUME NEW r \in Repos
             PROVE  /\ repos'[r].publisher # NoToken =>
                         \E j \in Jobs : /\ jobs'[j].status = "succeeded" /\ jobs'[j].repo = r
                                         /\ jobs'[j].token = repos'[r].publisher
                    /\ \A j \in Jobs : jobs'[j].status = "succeeded" /\ jobs'[j].repo = r =>
                         jobs'[j].token <= repos'[r].publisher
  BY DEF PublicationIsNewestSuccess
<1>1. RepoMove(r) /\ repos[r].publisher \in Nat /\ repos'[r].publisher \in Nat
  BY DEF Moves, StateOK, TypeOK, RepoRow
<1>2. ASSUME NEW j \in Jobs
      PROVE  RowMove(j) /\ jobs[j] \in JobRow /\ jobs[j].token \in Nat
  BY DEF Moves, StateOK, TypeOK, JobRow
<1>3. ASSUME NEW j \in Jobs, jobs[j].status = "succeeded", jobs[j].repo = r,
             repos'[r].publisher # NoToken
      PROVE  /\ jobs'[j].status = "succeeded" /\ jobs'[j].repo = r
             /\ jobs'[j].token = jobs[j].token
  <2>1. CASE jobs'[j] = jobs[j]
    BY <1>3, <2>1
  <2>2. CASE Going(j)
    BY <1>3, <2>2 DEF Going, SameClaim
  <2>3. ~Born(j) /\ ~Taken(j) /\ ~Settled(j) /\ ~Requeued(j)
    BY <1>3 DEF Born, Taken, Settled, Requeued, Held
  <2>4. ~Deleted(j)
    BY <1>3 DEF Deleted, DeletedRepo, NoRepo
  <2> QED
    BY <1>2, <2>1, <2>2, <2>3, <2>4 DEF RowMove
<1>4. ASSUME NEW j \in Jobs, jobs'[j].status = "succeeded", jobs'[j].repo = r
      PROVE  /\ jobs'[j].token = jobs[j].token
             /\ \/ (jobs[j].status = "succeeded" /\ jobs[j].repo = r)
                \/ repos'[r].publisher = jobs[j].token
  <2>1. CASE jobs'[j] = jobs[j]
    BY <1>4, <2>1
  <2>2. CASE Going(j)
    BY <1>4, <2>2 DEF Going, SameClaim
  <2>3. CASE Settled(j)
    BY <1>4, <2>3 DEF Settled, SameClaim
  <2>4. ~Born(j) /\ ~Taken(j) /\ ~Requeued(j) /\ ~Deleted(j)
    BY <1>2, <1>4, WrittenRows, ChangedRows DEF Born, Taken, Requeued, Deleted
  <2> QED
    BY <1>2, <2>1, <2>2, <2>3, <2>4 DEF RowMove
<1>5. CASE Kept(r)
  <2>1. repos'[r].publisher = repos[r].publisher
    BY <1>5 DEF Kept
  <2>2. /\ repos[r].publisher # NoToken =>
             \E j \in Jobs : /\ jobs[j].status = "succeeded" /\ jobs[j].repo = r
                             /\ jobs[j].token = repos[r].publisher
        /\ \A j \in Jobs : jobs[j].status = "succeeded" /\ jobs[j].repo = r =>
             jobs[j].token <= repos[r].publisher
    BY DEF PublicationIsNewestSuccess
  <2> QED
    BY <1>1, <1>2, <1>3, <1>4, <2>1, <2>2
<1>6. CASE Published(r)
  <2>1. PICK k \in Jobs : /\ Held(k) /\ jobs[k].repo = r
                          /\ repos'[r].publisher = jobs[k].token
                          /\ jobs'[k] = Succeeded(jobs[k])
    BY <1>6 DEF Published
  <2>2. jobs'[k].status = "succeeded" /\ jobs'[k].repo = r /\ jobs'[k].token = jobs[k].token
    BY <1>2, <2>1, ChangedRows
  <2>3. repos[r].publisher < jobs[k].token
    BY <2>1 DEF PublisherOK
  <2>4. \A j \in Jobs : jobs[j].status = "succeeded" /\ jobs[j].repo = r =>
          jobs[j].token <= repos[r].publisher
    BY DEF PublicationIsNewestSuccess
  <2> QED
    BY <1>1, <1>2, <1>4, <2>1, <2>2, <2>3, <2>4
<1>7. CASE Removed(r)
  <2>1. \A j \in Jobs : jobs'[j].repo # r
    BY <1>7, WrittenRows, NoneAssumption DEF Removed
  <2> QED
    BY <1>7, <2>1 DEF Removed
<1> QED
  BY <1>1, <1>5, <1>6, <1>7 DEF RepoMove

\* The invariant survives the moves.
LEMMA MovesKeepInvariant ==
  ASSUME IndInv, TypeOK', Moves
  PROVE  IndInv'
<1>1. StateOK'
  BY StateKept DEF IndInv
<1>2. OneActiveJobPerRepository' /\ OneExecutionPerAttempt'
  BY OneActiveKept, ExecutionKept DEF IndInv
<1>3. \A w \in Workers : CompletingOK(w)'
  BY CompletingKept DEF IndInv
<1>4. \A r \in Repos : PublisherOK(r)'
  BY PublisherKept DEF IndInv
<1>5. PublicationIsNewestSuccess'
  BY PublicationKept DEF IndInv
<1> QED
  BY <1>1, <1>2, <1>3, <1>4, <1>5 DEF IndInv

\* The empty queue satisfies the invariant.
LEMMA InitInvariant == Init => IndInv
<1> SUFFICES ASSUME Init PROVE IndInv
  OBVIOUS
<1>1. TypeOK
  BY InitType
<1>2. ASSUME NEW j \in Jobs
      PROVE  jobs[j] = NoRow("unborn")
  BY <1>2 DEF Init
<1>3. ASSUME NEW j \in Jobs
      PROVE  /\ jobs[j].status = "unborn" /\ jobs[j].repo = None /\ jobs[j].by = None
             /\ jobs[j].token = NoToken /\ jobs[j].lease = "none"
  BY <1>2, <1>3 DEF NoRow, UnclaimedRow
<1>4. ASSUME NEW j \in Jobs
      PROVE  RowOK(j) /\ ~Active(j) /\ ~Held(j) /\ jobs[j].status # "succeeded"
  <2>1. issued = 0
    BY DEF Init
  <2> QED
    BY <1>3, <2>1 DEF RowOK, Exists, Active, ActiveStatuses, Held, NoToken
<1>5. ASSUME NEW w \in Workers
      PROVE  workers[w].pc = "idle" /\ workers[w].claim = None
  BY <1>5 DEF Init, Idle, AtRest
<1>6. ClaimsInUse = {}
  BY <1>5 DEF ClaimsInUse, Init
<1>7. ASSUME NEW r \in Repos
      PROVE  repos[r].publisher = NoToken
  BY <1>7 DEF Init, NoRepo
<1>8. StateOK
  BY <1>1, <1>4, <1>5, <1>6 DEF StateOK, WorkerOK
<1>9. OneActiveJobPerRepository /\ OneExecutionPerAttempt
  BY <1>4, <1>6 DEF OneActiveJobPerRepository, ActiveOn, OneExecutionPerAttempt
<1>10. \A w \in Workers : CompletingOK(w)
  BY <1>5 DEF CompletingOK, Busy
<1>11. \A r \in Repos : PublisherOK(r)
  BY <1>4, <1>7 DEF PublisherOK, Init, NoToken
<1>12. PublicationIsNewestSuccess
  BY <1>4, <1>7 DEF PublicationIsNewestSuccess
<1> QED
  BY <1>8, <1>9, <1>10, <1>11, <1>12 DEF IndInv

-----------------------------------------------------------------------------
(***************************************************************************)
(* From the actions to the moves                                           *)
(***************************************************************************)
\* What is not written has not moved.
LEMMA NothingMoved ==
  /\ jobs' = jobs => \A j \in Jobs : RowMove(j)
  /\ repos' = repos => \A r \in Repos : RepoMove(r)
  /\ workers' = workers => \A w \in Workers : WorkerMove(w)
  /\ workers' = workers /\ pipelines' = pipelines => ClaimsMove
BY DEF RowMove, RepoMove, Kept, WorkerMove, ClaimsMove, ClaimsInUse

\* Writing one row moves one row.
LEMMA OneRow ==
  ASSUME StateOK, NEW j \in Jobs, NEW row, jobs' = [jobs EXCEPT ![j] = row]
  PROVE  /\ OthersKept(j)
         /\ jobs'[j] = row
         /\ RowMove(j) => \A i \in Jobs : RowMove(i)
BY DEF StateOK, TypeOK, OthersKept, RowMove

\* A repository whose status or connection changes keeps its publication.
LEMMA ReposKept ==
  ASSUME StateOK, NEW r \in Repos,
         \/ \E status : repos' = [repos EXCEPT ![r].status = status]
         \/ repos' = [repos EXCEPT ![r] = [@ EXCEPT !.connected = TRUE, !.status = "indexing"]]
  PROVE  \A q \in Repos : RepoMove(q)
<1>1. ASSUME NEW q \in Repos
      PROVE  Kept(q)
  <2>1. CASE q # r
    BY <2>1 DEF StateOK, TypeOK, Kept
  <2>2. CASE \E status : repos'[r] = [repos[r] EXCEPT !.status = status]
    <3>1. repos'[r].publisher = repos[r].publisher /\ repos'[r].connected = repos[r].connected
      BY <2>2 DEF StateOK, TypeOK, RepoRow
    <3> QED
      BY <2>1, <3>1 DEF Kept
  <2>3. CASE repos'[r] = [repos[r] EXCEPT !.connected = TRUE, !.status = "indexing"]
    <3>1. repos'[r].publisher = repos[r].publisher /\ repos'[r].connected
      BY <2>3 DEF StateOK, TypeOK, RepoRow
    <3> QED
      BY <2>1, <3>1 DEF Kept
  <2>4. \/ \E status : repos'[r] = [repos[r] EXCEPT !.status = status]
        \/ repos'[r] = [repos[r] EXCEPT !.connected = TRUE, !.status = "indexing"]
    BY DEF StateOK, TypeOK
  <2> QED
    BY <2>1, <2>2, <2>3, <2>4
<1> QED
  BY <1>1 DEF RepoMove

\* One worker steps with a claim that was in use, or with none.
LEMMA OneWorker ==
  ASSUME StateOK, NEW w \in Workers, WorkerMove(w),
         \A u \in Workers \ {w} : workers'[u] = workers[u],
         workers'[w].claim \in ClaimsInUse \cup {None},
         pipelines' \subseteq ClaimsInUse
  PROVE  (\A u \in Workers : WorkerMove(u)) /\ ClaimsMove
<1>1. \A u \in Workers : WorkerMove(u)
  BY DEF WorkerMove
<1>2. ClaimsInUse' \subseteq ClaimsInUse
  BY DEF ClaimsInUse
<1> QED
  BY <1>1, <1>2 DEF ClaimsMove

\* A worker that goes idle or down, or fails with the claim it holds.
LEMMA WorkerEnds ==
  ASSUME StateOK, NEW w \in Workers, NEW state,
         \/ state = Idle \/ state = AtRest("down")
         \/ /\ Busy(w, "claimed") \/ Busy(w, "running") \/ Busy(w, "completing")
            /\ \E failure : state = Failing(workers[w].claim, failure),
         workers' = [workers EXCEPT ![w] = state],
         pipelines' \subseteq pipelines
  PROVE  (\A u \in Workers : WorkerMove(u)) /\ ClaimsMove
<1>1. workers'[w] = state /\ \A u \in Workers \ {w} : workers'[u] = workers[u]
  BY DEF StateOK, TypeOK
<1>2. pipelines' \subseteq ClaimsInUse
  BY DEF ClaimsInUse
<1>3. CASE state = Idle \/ state = AtRest("down")
  <2>1. WorkerMove(w) /\ workers'[w].claim \in ClaimsInUse \cup {None}
    BY <1>1, <1>3 DEF WorkerMove, Idle, AtRest
  <2> QED
    BY <1>1, <1>2, <2>1, OneWorker
<1>4. CASE state # Idle /\ state # AtRest("down")
  <2>1. PICK failure : state = Failing(workers[w].claim, failure)
    BY <1>4
  <2>2. workers[w].claim \in Claim /\ workers[w].claim.by = w /\ workers[w].claim # None
    BY <1>4, BusyClaim DEF Busy
  <2>3. workers'[w].pc = "failing" /\ workers'[w].claim = workers[w].claim
    BY <1>1, <2>1 DEF Failing
  <2>4. Stepped(w)
    BY <2>2, <2>3 DEF Stepped, BusyPcs
  <2>5. workers[w].claim \in ClaimsInUse
    BY <2>2 DEF ClaimsInUse
  <2> QED
    BY <1>1, <1>2, <2>3, <2>4, <2>5, OneWorker DEF WorkerMove
<1> QED
  BY <1>3, <1>4

\* connect_repository_idempotently moves one row at most, out of the pool.
LEMMA ConnectMoves ==
  ASSUME StateOK, NEW r \in Repos, Connect(r)
  PROVE  Moves
<1>1. \A q \in Repos : RepoMove(q)
  BY ReposKept DEF Connect
<1>2. repos'[r].connected
  BY DEF StateOK, TypeOK, RepoRow, Connect
<1>3. \A j \in Jobs : RowMove(j)
  <2>1. CASE jobs' = jobs
    BY <2>1, NothingMoved
  <2>2. CASE jobs' # jobs
    <3>1. PICK j \in Jobs : /\ ActiveOn(r) = {}
                            /\ jobs[j].status = "unborn"
                            /\ jobs' = [jobs EXCEPT ![j] = QueuedRow(r, 1, "due")]
      BY <2>2 DEF Connect
    <3>2. OthersKept(j) /\ jobs'[j] = QueuedRow(r, 1, "due")
      BY <3>1, OneRow
    <3>3. Born(j)
      BY <1>2, <3>1, <3>2 DEF Born
    <3> QED
      BY <3>1, <3>3, OneRow DEF RowMove
  <2> QED
    BY <2>1, <2>2
<1> QED
  BY <1>1, <1>3, NothingMoved DEF Moves, Connect

\* delete_repository_transactionally removes the rows of one repository.
LEMMA DeleteMoves ==
  ASSUME StateOK, NEW r \in Repos, Delete(r)
  PROVE  Moves
<1>1. repos'[r] = DeletedRepo /\ \A q \in Repos \ {r} : repos'[q] = repos[q]
  BY DEF StateOK, TypeOK, Delete
<1>2. ASSUME NEW j \in Jobs
      PROVE  jobs'[j] = IF jobs[j].repo = r THEN NoRow("deleted") ELSE jobs[j]
  BY <1>2 DEF Delete
<1>3. ASSUME NEW j \in Jobs
      PROVE  RowMove(j)
  <2>1. CASE jobs[j].repo = r
    <3>1. Exists(j)
      BY <2>1, NoneAssumption DEF StateOK, RowOK
    <3> QED
      BY <1>1, <1>2, <2>1, <3>1 DEF RowMove, Deleted
  <2>2. CASE jobs[j].repo # r
    BY <1>2, <2>2 DEF RowMove
  <2> QED
    BY <2>1, <2>2
<1>4. ASSUME NEW q \in Repos
      PROVE  RepoMove(q)
  <2>1. CASE q = r
    BY <1>1, <1>2, <2>1 DEF RepoMove, Removed, DeletedRepo, NoRepo
  <2>2. CASE q # r
    BY <1>1, <2>2 DEF RepoMove, Kept
  <2> QED
    BY <2>1, <2>2
<1> QED
  BY <1>3, <1>4, NothingMoved DEF Moves, Delete

\* claim_next_indexing_job hands one queued row to one worker under a new token.
LEMMA ClaimNextMoves ==
  ASSUME StateOK, NEW w \in Workers, ClaimNext(w)
  PROVE  Moves
<1>1. PICK j \in Jobs, delivered \in BOOLEAN :
        /\ jobs[j].status = "queued"
        /\ jobs' = [jobs EXCEPT ![j] = Claimed(@, w, issued + 1)]
        /\ workers' =
             IF delivered
             THEN [workers EXCEPT ![w] =
                    [pc |-> "claimed", failure |-> "none",
                     claim |-> [job |-> j, by |-> w, token |-> issued + 1,
                                attempt |-> jobs[j].attempt]]]
             ELSE workers
  BY DEF ClaimNext
<1>2. issued' = issued + 1 /\ issued \in Nat /\ repos' = repos /\ pipelines' = pipelines
  BY DEF ClaimNext, StateOK, TypeOK
<1>3. jobs'[j] = Claimed(jobs[j], w, issued + 1)
  BY <1>1, OneRow
<1>4. \A i \in Jobs : RowMove(i)
  BY <1>1, <1>2, <1>3, OneRow DEF RowMove, Taken
<1>5. CASE workers' = workers
  BY <1>2, <1>4, <1>5, NothingMoved DEF Moves
<1>6. CASE workers' # workers
  <2> DEFINE f == [job |-> j, by |-> w, token |-> issued + 1, attempt |-> jobs[j].attempt]
  <2>1. jobs[j].attempt \in 1..MaxAttempts
    BY <1>1, AttemptAssumption DEF StateOK, TypeOK, RowOK, Exists, JobRow
  <2>2. f \in Claim
    BY <1>2, <2>1 DEF Claim
  <2>3. workers' = [workers EXCEPT ![w] = [pc |-> "claimed", failure |-> "none", claim |-> f]]
    BY <1>1, <1>6
  <2>4. /\ workers'[w].pc = "claimed" /\ workers'[w].claim = f
        /\ \A u \in Workers \ {w} : workers'[u] = workers[u]
    BY <2>3 DEF StateOK, TypeOK
  <2>5. FreshClaim(f)
    BY <1>1, <1>2, <1>3, <2>2 DEF FreshClaim
  <2>6. ClaimsInUse' \subseteq ClaimsInUse \cup {f}
    BY <1>2, <2>4 DEF ClaimsInUse
  <2>7. Stepped(w)
    BY <2>2, <2>4 DEF Stepped, BusyPcs
  <2>8. \A u \in Workers : WorkerMove(u)
    BY <2>4, <2>7 DEF WorkerMove
  <2> QED
    BY <1>2, <1>4, <2>2, <2>5, <2>6, <2>8, NothingMoved DEF Moves, ClaimsMove
<1> QED
  BY <1>5, <1>6

\* mark_indexing_job_running starts the row its claim holds.
LEMMA MarkRunningMoves ==
  ASSUME StateOK, NEW w \in Workers, MarkRunning(w)
  PROVE  Moves
<1> DEFINE c == workers[w].claim
<1>1. c \in Claim /\ c.by = w /\ c # None /\ c.job \in Jobs /\ jobs[c.job] \in JobRow
  BY BusyClaim DEF MarkRunning, Busy, Claim, StateOK, TypeOK
<1>2. c \in ClaimsInUse /\ pipelines \subseteq ClaimsInUse
  BY <1>1 DEF ClaimsInUse
<1>3. CASE /\ jobs[c.job].status = "claimed"
           /\ jobs' = [jobs EXCEPT ![c.job].status = "running"]
           /\ repos' = [repos EXCEPT ![jobs[c.job].repo].status = Unless("indexing", jobs[c.job].repo)]
           /\ \/ /\ workers' = [workers EXCEPT ![w].pc = "running"]
                 /\ pipelines' = pipelines \cup {c}
              \/ /\ \E failure \in Failures :
                      workers' = [workers EXCEPT ![w] = Failing(workers[w].claim, failure)]
                 /\ pipelines' = pipelines
  <2>1. jobs[c.job].repo \in Repos
    BY <1>1, <1>3 DEF StateOK, RowOK, Exists
  <2>2. \A q \in Repos : RepoMove(q)
    BY <1>3, <2>1, ReposKept
  <2>3. /\ jobs'[c.job] = [jobs[c.job] EXCEPT !.status = "running"]
        /\ \A i \in Jobs \ {c.job} : jobs'[i] = jobs[i]
    BY <1>1, <1>3 DEF StateOK, TypeOK
  <2>4. Going(c.job)
    <3>1. jobs'[c.job].status = "running" /\ SameClaim(c.job)
      BY <1>1, <2>3 DEF SameClaim, JobRow
    <3> QED
      BY <1>3, <3>1 DEF Going, Exists, Held
  <2>5. \A i \in Jobs : RowMove(i)
    BY <2>3, <2>4 DEF RowMove
  <2>6. (\A u \in Workers : WorkerMove(u)) /\ ClaimsMove
    <3>1. CASE workers' = [workers EXCEPT ![w].pc = "running"] /\ pipelines' = pipelines \cup {c}
      <4>1. /\ workers'[w].pc = "running" /\ workers'[w].claim = c
            /\ \A u \in Workers \ {w} : workers'[u] = workers[u]
        BY <3>1 DEF StateOK, TypeOK, WorkerState
      <4>2. Stepped(w)
        BY <1>1, <4>1 DEF Stepped, BusyPcs
      <4>3. pipelines' \subseteq ClaimsInUse
        BY <1>2, <3>1
      <4> QED
        BY <1>2, <4>1, <4>2, <4>3, OneWorker DEF WorkerMove
    <3>2. CASE pipelines' = pipelines /\ \E failure \in Failures :
                  workers' = [workers EXCEPT ![w] = Failing(workers[w].claim, failure)]
      BY <3>2, WorkerEnds DEF MarkRunning
    <3> QED
      BY <1>3, <3>1, <3>2
  <2> QED
    BY <2>2, <2>5, <2>6 DEF Moves, MarkRunning
<1>4. CASE jobs' = jobs /\ repos' = repos /\ pipelines' = pipelines
           /\ workers' = [workers EXCEPT ![w] = Idle]
  BY <1>4, NothingMoved, WorkerEnds DEF Moves, MarkRunning
<1> QED
  BY <1>3, <1>4 DEF MarkRunning

\* heartbeat_indexing_job touches the lease of a held row only.
LEMMA HeartbeatMoves ==
  ASSUME StateOK, NEW w \in Workers, Heartbeat(w)
  PROVE  Moves
<1> DEFINE c == workers[w].claim
<1>1. c \in Claim /\ c.job \in Jobs /\ jobs[c.job] \in JobRow
  <2>1. workers[w].pc \in {"claimed", "running", "completing", "failing", "retrying"}
    BY DEF Heartbeat, StateOK, TypeOK, WorkerState
  <2> QED
    BY <2>1, BusyClaim DEF Claim, StateOK, TypeOK
<1>2. CASE Holds(c) /\ jobs' = [jobs EXCEPT ![c.job].lease = "live"] /\ workers' = workers
  <2>1. /\ jobs'[c.job] = [jobs[c.job] EXCEPT !.lease = "live"]
        /\ \A i \in Jobs \ {c.job} : jobs'[i] = jobs[i]
    BY <1>1, <1>2 DEF StateOK, TypeOK
  <2>2. Going(c.job)
    <3>1. jobs'[c.job].status = jobs[c.job].status /\ SameClaim(c.job)
      BY <1>1, <2>1 DEF SameClaim, JobRow
    <3> QED
      BY <1>2, <3>1 DEF Going, Exists, Held, Holds
  <2>3. \A i \in Jobs : RowMove(i)
    BY <2>1, <2>2 DEF RowMove
  <2> QED
    BY <1>2, <2>3, NothingMoved DEF Moves, Heartbeat
<1>3. CASE jobs' = jobs /\ \E failure \in Failures :
             workers' = [workers EXCEPT ![w] = Failing(workers[w].claim, failure)]
  BY <1>3, NothingMoved, WorkerEnds DEF Moves, Heartbeat
<1> QED
  BY <1>2, <1>3 DEF Heartbeat

\* complete_indexing_job finds the row settled by the publication.
LEMMA CompleteJobMoves ==
  ASSUME StateOK, NEW w \in Workers, CompletingOK(w), CompleteJob(w)
  PROVE  Moves
<1>1. ~Executing(workers[w].claim)
  BY DEF CompleteJob, CompletingOK, Executing, Holds
<1>2. jobs' = jobs
  BY <1>1 DEF CompleteJob
<1> QED
  BY <1>2, NothingMoved, WorkerEnds DEF Moves, CompleteJob

\* fail_indexing_job settles the row its claim holds.
LEMMA MarkFailedMoves ==
  ASSUME StateOK, NEW w \in Workers, MarkFailed(w)
  PROVE  Moves
<1> DEFINE c == workers[w].claim
           r == jobs[c.job].repo
<1>1. /\ c \in Claim /\ c.by = w /\ c # None /\ c.job \in Jobs
      /\ jobs[c.job] \in JobRow /\ pipelines' = pipelines
  BY BusyClaim DEF MarkFailed, Busy, Claim, StateOK, TypeOK
<1>2. (\A u \in Workers : WorkerMove(u)) /\ ClaimsMove
  <2>1. CASE workers' = [workers EXCEPT ![w].pc = "retrying"]
    <3>1. /\ workers'[w].pc = "retrying" /\ workers'[w].claim = c
          /\ \A u \in Workers \ {w} : workers'[u] = workers[u]
      BY <2>1 DEF StateOK, TypeOK, WorkerState
    <3>2. Stepped(w)
      BY <1>1, <3>1 DEF Stepped, BusyPcs
    <3>3. c \in ClaimsInUse /\ pipelines' \subseteq ClaimsInUse
      BY <1>1 DEF ClaimsInUse
    <3> QED
      BY <3>1, <3>2, <3>3, OneWorker DEF WorkerMove
  <2>2. CASE workers' = [workers EXCEPT ![w] = Idle]
    BY <1>1, <2>2, WorkerEnds
  <2> QED
    BY <2>1, <2>2 DEF MarkFailed
<1>3. CASE /\ Holds(c)
           /\ jobs' = [jobs EXCEPT ![c.job] = Failed(@, workers[w].failure)]
           /\ repos' = [repos EXCEPT ![r].status = Unless("failed", r)]
  <2>1. r \in Repos /\ Held(c.job)
    BY <1>1, <1>3 DEF Holds, Held, StateOK, RowOK, Exists
  <2>2. \A q \in Repos : RepoMove(q)
    BY <1>3, <2>1, ReposKept
  <2>3. /\ jobs'[c.job] = Failed(jobs[c.job], workers[w].failure)
        /\ \A i \in Jobs \ {c.job} : jobs'[i] = jobs[i]
    BY <1>1, <1>3 DEF StateOK, TypeOK
  <2>4. Settled(c.job)
    BY <1>1, <2>1, <2>3, ChangedRows DEF Settled, SameClaim
  <2>5. \A i \in Jobs : RowMove(i)
    BY <2>3, <2>4 DEF RowMove
  <2> QED
    BY <1>2, <2>2, <2>5 DEF Moves, MarkFailed
<1>4. CASE jobs' = jobs /\ repos' = repos
  BY <1>2, <1>4, NothingMoved DEF Moves, MarkFailed
<1> QED
  BY <1>3, <1>4 DEF MarkFailed

\* schedule_indexing_job_retry requeues a failed row of a repository with no active job.
LEMMA ScheduleRetryMoves ==
  ASSUME StateOK, NEW w \in Workers, ScheduleRetry(w)
  PROVE  Moves
<1> DEFINE j == workers[w].claim.job
<1>1. j \in Jobs
  BY BusyClaim DEF ScheduleRetry, Busy, Claim
<1>2. workers' = [workers EXCEPT ![w] = Idle] /\ pipelines' = pipelines /\ repos' = repos
  BY DEF ScheduleRetry
<1>3. CASE jobs' = jobs
  BY <1>2, <1>3, NothingMoved, WorkerEnds DEF Moves, ScheduleRetry
<1>4. CASE /\ jobs[j].status = "failed"
           /\ jobs[j].attempt < MaxAttempts
           /\ ActiveOn(jobs[j].repo) = {}
           /\ jobs' = [jobs EXCEPT ![j] = QueuedRow(jobs[j].repo, jobs[j].attempt + 1, "later")]
  <2>1. OthersKept(j) /\ jobs'[j] = QueuedRow(jobs[j].repo, jobs[j].attempt + 1, "later")
    BY <1>1, <1>4, OneRow
  <2>2. Requeued(j)
    BY <1>4, <2>1 DEF Requeued
  <2>3. \A i \in Jobs : RowMove(i)
    BY <2>1, <2>2 DEF RowMove, OthersKept
  <2> QED
    BY <1>2, <2>3, NothingMoved, WorkerEnds DEF Moves, ScheduleRetry
<1> QED
  BY <1>3, <1>4 DEF ScheduleRetry

\* The worker of a pipeline that ends goes idle or goes on with the same claim.
LEMMA EndsMoves ==
  ASSUME StateOK, NEW c \in pipelines, NEW next, Ends(c, next),
         \/ next = Idle
         \/ /\ next.pc \in {"failing", "completing"}
            /\ next.claim = c
            /\ next.pc = "completing" => jobs'[c.job].status = "succeeded"
  PROVE  (\A u \in Workers : WorkerMove(u)) /\ ClaimsMove
<1>1. c \in Claim /\ c \in ClaimsInUse /\ c.by \in Workers
  BY DEF StateOK, TypeOK, Claim, ClaimsInUse
<1>2. pipelines' \subseteq ClaimsInUse
  BY DEF Ends, ClaimsInUse
<1>3. CASE workers' = workers
  BY <1>2, <1>3 DEF WorkerMove, ClaimsMove, ClaimsInUse
<1>4. CASE workers' = [workers EXCEPT ![c.by] = next]
  <2>1. workers'[c.by] = next /\ \A u \in Workers \ {c.by} : workers'[u] = workers[u]
    BY <1>1, <1>4 DEF StateOK, TypeOK
  <2>2. WorkerMove(c.by) /\ workers'[c.by].claim \in ClaimsInUse \cup {None}
    BY <1>1, <2>1 DEF WorkerMove, Stepped, BusyPcs, Idle, AtRest
  <2> QED
    BY <1>1, <1>2, <2>1, <2>2, OneWorker
<1> QED
  BY <1>3, <1>4 DEF Ends

\* A refused progress report ends the poll.
LEMMA ReportProgressMoves ==
  ASSUME StateOK, NEW c \in pipelines, ReportProgress(c)
  PROVE  Moves
<1>1. (\A u \in Workers : WorkerMove(u)) /\ ClaimsMove
  BY EndsMoves DEF ReportProgress
<1> QED
  BY <1>1, NothingMoved DEF Moves, ReportProgress

\* publish_repository_snapshot settles the row its claim holds and shows its revision.
LEMMA PublishMoves ==
  ASSUME StateOK, NEW c \in pipelines, Publish(c)
  PROVE  Moves
<1> DEFINE j == c.job
           r == jobs[j].repo
<1>1. c \in Claim /\ j \in Jobs /\ jobs[j] \in JobRow
  BY DEF StateOK, TypeOK, Claim
<1>2. Held(j) /\ jobs[j].token = c.token /\ r \in Repos
  BY <1>1 DEF Publish, Executing, Holds, Owns, Held, StateOK, RowOK, Exists
<1>3. jobs'[j] = Succeeded(jobs[j]) /\ OthersKept(j)
  BY <1>1, OneRow DEF Publish
<1>4. PICK status \in {"indexed", repos[r].status} :
        repos'[r] = [repos[r] EXCEPT !.status = status, !.publisher = c.token]
  BY <1>2 DEF Publish, StateOK, TypeOK
<1>5. repos'[r].publisher = c.token /\ repos'[r].connected = repos[r].connected
  BY <1>2, <1>4 DEF StateOK, TypeOK, RepoRow
<1>6. \A q \in Repos \ {r} : repos'[q] = repos[q]
  BY DEF Publish, StateOK, TypeOK
<1>7. /\ jobs'[j].status = "succeeded" /\ jobs'[j].lease = "none" /\ SameClaim(j)
  BY <1>1, <1>3, ChangedRows DEF SameClaim
<1>8. \A i \in Jobs : RowMove(i)
  <2>1. Settled(j)
    BY <1>2, <1>5, <1>7 DEF Settled
  <2> QED
    BY <1>3, <2>1 DEF RowMove, OthersKept
<1>9. Published(r)
  BY <1>1, <1>2, <1>3, <1>5 DEF Published
<1>10. \A q \in Repos : RepoMove(q)
  BY <1>6, <1>9 DEF RepoMove, Kept
<1>11. (\A u \in Workers : WorkerMove(u)) /\ ClaimsMove
  <2>1. CASE Ends(c, [pc |-> "completing", claim |-> c, failure |-> "none"])
    BY <1>7, <2>1, EndsMoves
  <2>2. CASE \E failure \in Failures : Ends(c, Failing(c, failure))
    <3>1. PICK failure \in Failures : Ends(c, Failing(c, failure))
      BY <2>2
    <3>2. Failing(c, failure).pc = "failing" /\ Failing(c, failure).claim = c
      BY DEF Failing
    <3> QED
      BY <3>1, <3>2, EndsMoves
  <2> QED
    BY <2>1, <2>2 DEF Publish
<1> QED
  BY <1>8, <1>10, <1>11 DEF Moves, Publish

\* A stage that throws leaves the jobs alone.
LEMMA PipelineFailsMoves ==
  ASSUME StateOK, NEW c \in pipelines, PipelineFails(c)
  PROVE  Moves
<1> DEFINE r == jobs[c.job].repo
<1>1. PICK failure \in Failures : Ends(c, Failing(c, failure))
  BY DEF PipelineFails
<1>2. Failing(c, failure).pc = "failing" /\ Failing(c, failure).claim = c
  BY DEF Failing
<1>3. (\A u \in Workers : WorkerMove(u)) /\ ClaimsMove
  BY <1>1, <1>2, EndsMoves
<1>4. \A q \in Repos : RepoMove(q)
  <2>1. CASE repos' = repos
    BY <2>1, NothingMoved
  <2>2. CASE /\ Holds(c) \/ (Owns(c) /\ jobs[c.job].status = "failed")
             /\ repos' = [repos EXCEPT ![r].status = Unless("failed", r)]
    <3>1. r \in Repos
      BY <2>2 DEF Holds, StateOK, TypeOK, RowOK, Exists, Claim
    <3> QED
      BY <2>2, <3>1, ReposKept
  <2> QED
    BY <2>1, <2>2 DEF PipelineFails
<1> QED
  BY <1>3, <1>4, NothingMoved DEF Moves, PipelineFails

\* begin_repository_snapshot touches the status of the repository only.
LEMMA BeginSnapshotMoves ==
  ASSUME StateOK, NEW c \in pipelines, BeginSnapshot(c)
  PROVE  Moves
<1>1. jobs[c.job].repo \in Repos
  BY DEF BeginSnapshot, Executing, Holds, StateOK, TypeOK, RowOK, Exists, Claim
<1>2. \A q \in Repos : RepoMove(q)
  BY <1>1, ReposKept DEF BeginSnapshot
<1> QED
  BY <1>2, NothingMoved DEF Moves, BeginSnapshot

\* recover_stale_indexing_jobs requeues held rows below the cap and fails the others.
LEMMA RecoverStaleMoves ==
  ASSUME StateOK, RecoverStale
  PROVE  Moves
<1>1. PICK stale \in SUBSET {j \in Jobs : Stale(j)} :
        jobs' = [j \in Jobs |->
                  IF j \notin stale THEN jobs[j]
                  ELSE IF jobs[j].attempt < MaxAttempts
                  THEN QueuedRow(jobs[j].repo, jobs[j].attempt + 1, "later")
                  ELSE Failed(jobs[j], "terminal")]
  BY DEF RecoverStale
<1>2. ASSUME NEW j \in Jobs
      PROVE  RowMove(j)
  <2>1. CASE j \notin stale
    BY <1>1, <2>1 DEF RowMove
  <2>2. CASE j \in stale /\ jobs[j].attempt < MaxAttempts
    <3>1. jobs'[j] = QueuedRow(jobs[j].repo, jobs[j].attempt + 1, "later")
      BY <1>1, <2>2
    <3> QED
      BY <2>2, <3>1 DEF RowMove, Requeued, Held, Stale
  <2>3. CASE j \in stale /\ ~(jobs[j].attempt < MaxAttempts)
    <3>1. jobs'[j] = Failed(jobs[j], "terminal") /\ jobs[j] \in JobRow /\ Held(j)
      BY <1>1, <2>3 DEF StateOK, TypeOK, Held, Stale
    <3> QED
      BY <3>1, ChangedRows DEF RowMove, Settled, SameClaim
  <2> QED
    BY <2>1, <2>2, <2>3
<1> QED
  BY <1>2, NothingMoved DEF Moves, RecoverStale

\* Crashes, restarts and errors touch one process only.
LEMMA ProcessMoves ==
  ASSUME StateOK, NEW w \in Workers, Crash(w) \/ Restart(w) \/ StartFails(w) \/ Abandon(w)
  PROVE  Moves
<1>1. jobs' = jobs /\ repos' = repos /\ issued' = issued
  BY DEF Crash, Restart, StartFails, Abandon
<1>2. (\A u \in Workers : WorkerMove(u)) /\ ClaimsMove
  <2>1. CASE Crash(w)
    BY <2>1, WorkerEnds DEF Crash
  <2>2. CASE Restart(w)
    BY <2>2, WorkerEnds DEF Restart
  <2>3. CASE StartFails(w) \/ Abandon(w)
    BY <2>3, WorkerEnds DEF StartFails, Abandon
  <2> QED
    BY <2>1, <2>2, <2>3
<1> QED
  BY <1>1, <1>2, NothingMoved DEF Moves

\* The clock touches a lease or a back-off.
LEMMA ClockMoves ==
  ASSUME StateOK, NEW j \in Jobs, Clock(j)
  PROVE  Moves
<1>1. jobs[j] \in JobRow /\ RowOK(j)
  BY DEF StateOK, TypeOK
<1>2. Going(j) /\ \A i \in Jobs \ {j} : jobs'[i] = jobs[i]
  <2>1. CASE LeaseLapses(j)
    <3>1. jobs'[j] = [jobs[j] EXCEPT !.lease = "lapsed"] /\ \A i \in Jobs \ {j} : jobs'[i] = jobs[i]
      BY <2>1 DEF LeaseLapses, StateOK, TypeOK
    <3>2. jobs'[j].status = jobs[j].status /\ SameClaim(j)
      BY <1>1, <3>1 DEF SameClaim, JobRow
    <3>3. Held(j)
      BY <1>1, <2>1 DEF RowOK, LeaseLapses
    <3> QED
      BY <3>1, <3>2, <3>3 DEF Going, Exists, Held
  <2>2. CASE BackoffElapses(j)
    <3>1. jobs'[j] = [jobs[j] EXCEPT !.wait = "due"] /\ \A i \in Jobs \ {j} : jobs'[i] = jobs[i]
      BY <2>2 DEF BackoffElapses, StateOK, TypeOK
    <3>2. jobs'[j].status = jobs[j].status /\ jobs'[j].lease = jobs[j].lease /\ SameClaim(j)
      BY <1>1, <3>1 DEF SameClaim, JobRow
    <3> QED
      BY <2>2, <3>1, <3>2 DEF Going, Exists, BackoffElapses
  <2> QED
    BY <2>1, <2>2 DEF Clock
<1>3. \A i \in Jobs : RowMove(i)
  BY <1>2 DEF RowMove
<1>4. UNCHANGED <<repos, issued, workers, pipelines>>
  BY DEF Clock, LeaseLapses, BackoffElapses
<1> QED
  BY <1>3, <1>4, NothingMoved DEF Moves

\* Every step is made of the moves.
LEMMA NextMoves ==
  ASSUME IndInv, [Next]_vars
  PROVE  Moves
<1> USE DEF IndInv
<1>1. CASE \E r \in Repos : Request(r)
  BY <1>1, ConnectMoves, DeleteMoves DEF Request
<1>2. CASE \E w \in Workers : ClaimNext(w) \/ WorkerStep(w) \/ Crash(w) \/ Restart(w)
  BY <1>2, ClaimNextMoves, MarkRunningMoves, HeartbeatMoves, CompleteJobMoves, MarkFailedMoves,
     ScheduleRetryMoves, ProcessMoves DEF WorkerStep
<1>3. CASE \E c \in pipelines : PipelineStep(c)
  BY <1>3, ReportProgressMoves, PublishMoves, PipelineFailsMoves, BeginSnapshotMoves
  DEF PipelineStep
<1>4. CASE \E j \in Jobs : Clock(j)
  BY <1>4, ClockMoves
<1>5. CASE RecoverStale
  BY <1>5, RecoverStaleMoves
<1>6. CASE UNCHANGED vars
  BY <1>6, NothingMoved DEF vars, Moves
<1> QED
  BY <1>1, <1>2, <1>3, <1>4, <1>5, <1>6 DEF Next

-----------------------------------------------------------------------------
(***************************************************************************)
(* Theorems                                                                *)
(***************************************************************************)
\* The strengthened invariant holds in every state the queue can reach.
THEOREM Invariance == Spec => []IndInv
<1>1. Init => IndInv
  BY InitInvariant
<1>2. IndInv /\ [Next]_vars => IndInv'
  <2> SUFFICES ASSUME IndInv, [Next]_vars PROVE IndInv'
    OBVIOUS
  <2>1. TypeOK'
    BY NextType DEF IndInv
  <2> QED
    BY <2>1, NextMoves, MovesKeepInvariant
<1> QED
  BY <1>1, <1>2, PTL DEF Spec

\* No interleaving of requests, workers, stale pipelines, recoveries and crashes takes the
\* tables, the processes or the claims out of their types; the cap on attempts included.
THEOREM TypeCorrect == Spec => []TypeOK
<1>1. IndInv => TypeOK
  BY DEF IndInv, StateOK
<1> QED
  BY <1>1, Invariance, PTL

\* A repository never has two active jobs, however connects, retries and recoveries meet.
THEOREM OneActiveJob == Spec => []OneActiveJobPerRepository
<1>1. IndInv => OneActiveJobPerRepository
  BY DEF IndInv
<1> QED
  BY <1>1, Invariance, PTL

\* No attempt of a job is executed under two claims, even when executors outlive their
\* lease and the recovering process's clock is ahead of the database's.
THEOREM OneExecution == Spec => []OneExecutionPerAttempt
<1>1. IndInv => OneExecutionPerAttempt
  BY DEF IndInv
<1> QED
  BY <1>1, Invariance, PTL

\* What a repository shows was published by the newest claim that succeeded for it: a stale
\* executor neither publishes nor overwrites.
THEOREM Publication == Spec => []PublicationIsNewestSuccess
<1>1. IndInv => PublicationIsNewestSuccess
  BY DEF IndInv
<1> QED
  BY <1>1, Invariance, PTL

\* No worker call brings back a job of a repository that was deleted.
THEOREM DeletionIsComplete == Spec => []NoJobOutlivesItsRepository
<1>1. IndInv => NoJobOutlivesItsRepository
  BY DEF IndInv, StateOK, RowOK, NoJobOutlivesItsRepository
<1> QED
  BY <1>1, Invariance, PTL

-----------------------------------------------------------------------------
(***************************************************************************)
(* The status of a repository                                              *)
(***************************************************************************)
Agrees(row) ==
  /\ row.status = "indexed" => row.publisher # NoToken
  /\ row.status = "failed" => row.publisher = NoToken

\* Writing a status that depends on the publication keeps the repositories in agreement.
LEMMA UnlessAgrees ==
  ASSUME StateOK, StatusAgreesWithPublication, NEW r \in Repos,
         NEW status \in {"indexing", "failed"},
         repos' = [repos EXCEPT ![r].status = Unless(status, r)]
  PROVE  StatusAgreesWithPublication'
<1>1. ASSUME NEW q \in Repos
      PROVE  Agrees(repos'[q])
  <2>1. CASE q # r
    BY <2>1 DEF StateOK, TypeOK, StatusAgreesWithPublication, Agrees
  <2>2. CASE q = r
    BY <2>2 DEF StateOK, TypeOK, RepoRow, Agrees, Unless
  <2> QED
    BY <2>1, <2>2
<1> QED
  BY <1>1 DEF StatusAgreesWithPublication, Agrees

\* The requests: a connection makes a repository read indexing, a deletion empties the row.
LEMMA RequestAgrees ==
  ASSUME StateOK, StatusAgreesWithPublication, NEW r \in Repos, Request(r)
  PROVE  StatusAgreesWithPublication'
<1>1. CASE Connect(r)
  <2>1. repos'[r].status = "indexing" /\ \A q \in Repos \ {r} : repos'[q] = repos[q]
    BY <1>1 DEF Connect, StateOK, TypeOK, RepoRow
  <2> QED
    BY <2>1 DEF StatusAgreesWithPublication
<1>2. CASE Delete(r)
  <2>1. repos'[r].status = "none" /\ \A q \in Repos \ {r} : repos'[q] = repos[q]
    BY <1>2 DEF Delete, StateOK, TypeOK, DeletedRepo, NoRepo
  <2> QED
    BY <2>1 DEF StatusAgreesWithPublication
<1> QED
  BY <1>1, <1>2 DEF Request

\* The worker's calls: a start never hides a failure as indexed, a failure never hides a
\* published revision.
LEMMA WorkerAgrees ==
  ASSUME StateOK, StatusAgreesWithPublication, NEW w \in Workers, WorkerStep(w)
  PROVE  StatusAgreesWithPublication'
<1> DEFINE c == workers[w].claim
           r == jobs[c.job].repo
<1>1. CASE repos' = repos
  BY <1>1 DEF StatusAgreesWithPublication
<1>2. CASE MarkRunning(w) /\ repos' # repos
  <2>1. c.job \in Jobs
    BY <1>2, BusyClaim DEF MarkRunning, Busy, Claim
  <2>2. r \in Repos /\ repos' = [repos EXCEPT ![r].status = Unless("indexing", r)]
    BY <1>2, <2>1 DEF MarkRunning, Holds, StateOK, RowOK, Exists
  <2> QED
    BY <2>2, UnlessAgrees
<1>3. CASE MarkFailed(w) /\ repos' # repos
  <2>1. c.job \in Jobs
    BY <1>3, BusyClaim DEF MarkFailed, Busy, Claim
  <2>2. r \in Repos /\ repos' = [repos EXCEPT ![r].status = Unless("failed", r)]
    BY <1>3, <2>1 DEF MarkFailed, Holds, StateOK, RowOK, Exists
  <2> QED
    BY <2>2, UnlessAgrees
<1> QED
  BY <1>1, <1>2, <1>3
  DEF WorkerStep, StartFails, Abandon, Heartbeat, CompleteJob, ScheduleRetry

\* The pipeline's calls: only a publication makes a repository read indexed anew.
LEMMA PipelineAgrees ==
  ASSUME StateOK, StatusAgreesWithPublication, NEW c \in pipelines, PipelineStep(c)
  PROVE  StatusAgreesWithPublication'
<1> DEFINE r == jobs[c.job].repo
<1>1. CASE repos' = repos
  BY <1>1 DEF StatusAgreesWithPublication
<1>2. c.job \in Jobs /\ c.token # NoToken
  BY DEF StateOK, TypeOK, Claim, ClaimOK, ClaimsInUse, NoToken
<1>3. CASE BeginSnapshot(c)
  <2>1. r \in Repos
    BY <1>2, <1>3 DEF BeginSnapshot, Executing, Holds, StateOK, RowOK, Exists
  <2> QED
    BY <1>3, <2>1, UnlessAgrees DEF BeginSnapshot
<1>4. CASE Publish(c)
  <2>1. r \in Repos
    BY <1>2, <1>4 DEF Publish, Executing, Holds, StateOK, RowOK, Exists
  <2>2. PICK status \in {"indexed", repos[r].status} :
          /\ status = "indexed" \/ repos[r].publisher # NoToken
          /\ repos' = [repos EXCEPT ![r] = [@ EXCEPT !.status = status, !.publisher = c.token]]
    BY <1>4 DEF Publish
  <2>3. repos'[r].status = status /\ repos'[r].publisher # NoToken
    BY <1>2, <2>1, <2>2 DEF StateOK, TypeOK, RepoRow
  <2>4. status # "failed"
    BY <2>1, <2>2 DEF StatusAgreesWithPublication
  <2>5. \A q \in Repos \ {r} : repos'[q] = repos[q]
    BY <2>2 DEF StateOK, TypeOK
  <2> QED
    BY <2>3, <2>4, <2>5 DEF StatusAgreesWithPublication
<1>5. CASE PipelineFails(c) /\ repos' # repos
  <2>1. r \in Repos
    BY <1>2, <1>5 DEF PipelineFails, Holds, StateOK, RowOK, Exists
  <2> QED
    BY <1>5, <2>1, UnlessAgrees DEF PipelineFails
<1> QED
  BY <1>1, <1>3, <1>4, <1>5 DEF PipelineStep, ReportProgress

\* No interleaving of connects, starts, failures, discards and publications makes a repository
\* read indexed without a revision to show, or failed with one.
THEOREM StatusAgreement == Spec => []StatusAgreesWithPublication
<1>1. Init => StatusAgreesWithPublication
  BY DEF Init, NoRepo, StatusAgreesWithPublication
<1>2. IndInv /\ StatusAgreesWithPublication /\ [Next]_vars => StatusAgreesWithPublication'
  <2> SUFFICES ASSUME IndInv, StatusAgreesWithPublication, [Next]_vars
               PROVE  StatusAgreesWithPublication'
    OBVIOUS
  <2>1. StateOK
    BY DEF IndInv
  <2>2. CASE repos' = repos
    BY <2>2 DEF StatusAgreesWithPublication
  <2>3. CASE repos' # repos
    <3>1. \/ \E r \in Repos : Request(r)
          \/ \E w \in Workers : WorkerStep(w)
          \/ \E c \in pipelines : PipelineStep(c)
      BY <2>3 DEF Next, vars, ClaimNext, Crash, Restart, Clock, LeaseLapses, BackoffElapses,
                  RecoverStale
    <3> QED
      BY <2>1, <3>1, RequestAgrees, WorkerAgrees, PipelineAgrees
  <2> QED
    BY <2>2, <2>3
<1> QED
  BY <1>1, <1>2, Invariance, PTL DEF Spec

-----------------------------------------------------------------------------
(***************************************************************************)
(* What one step may do to the lease and to the outcome of a row           *)
(***************************************************************************)
Unsettled == {"unborn", "queued", "claimed", "running"}

\* Only a failed row has a terminal failure.
FailureOK == \A j \in Jobs : jobs[j].failure = "terminal" => jobs[j].status = "failed"

\* The lease of a row does not come back under the same claim.
LeaseStep(j) ==
  jobs[j].lease = "lapsed" /\ jobs'[j].token = jobs[j].token => jobs'[j].lease # "live"

\* A row that is still open moves on without losing an attempt.
Advanced(j) ==
  /\ jobs[j].status \in Unsettled
  /\ Exists(j) => jobs'[j].attempt >= jobs[j].attempt
  /\ jobs'[j].failure = "terminal" => jobs'[j].status = "failed" \/ jobs[j].failure = "terminal"
  /\ LeaseStep(j)

Retried(j) ==
  /\ jobs[j].status = "failed"
  /\ jobs[j].failure = "retryable"
  /\ jobs'[j] = QueuedRow(jobs[j].repo, jobs[j].attempt + 1, "later")

RowStep(j) ==
  \/ jobs'[j] = jobs[j]
  \/ jobs'[j] = NoRow("deleted")
  \/ Advanced(j)
  \/ Retried(j)

\* One row is written, and what becomes of it is known.
LEMMA OneRowSteps ==
  ASSUME StateOK, NEW j \in Jobs, NEW row, jobs' = [jobs EXCEPT ![j] = row],
         RowStep(j)
  PROVE  \A i \in Jobs : RowStep(i)
BY DEF StateOK, TypeOK, RowStep

\* A lease, a status or a back-off is written on an open row.
LEMMA FieldSteps ==
  ASSUME StateOK, NEW j \in Jobs, jobs[j].status \in Unsettled,
         \/ jobs' = [jobs EXCEPT ![j].status = "running"]
         \/ jobs' = [jobs EXCEPT ![j].wait = "due"]
         \/ jobs' = [jobs EXCEPT ![j].lease = "lapsed"]
         \/ jobs[j].lease = "live" /\ jobs' = [jobs EXCEPT ![j].lease = "live"]
  PROVE  \A i \in Jobs : RowStep(i)
<1>1. jobs[j] \in JobRow /\ jobs \in [Jobs -> JobRow]
  BY DEF StateOK, TypeOK
<1>2. \A i \in Jobs \ {j} : jobs'[i] = jobs[i]
  BY <1>1
<1>3. /\ jobs'[j].attempt = jobs[j].attempt
      /\ jobs'[j].failure = jobs[j].failure
      /\ jobs'[j].lease = jobs[j].lease \/ jobs'[j].lease = "lapsed" \/ jobs[j].lease = "live"
  BY <1>1 DEF JobRow
<1>4. Advanced(j)
  BY <1>1, <1>3 DEF Advanced, LeaseStep, JobRow
<1> QED
  BY <1>2, <1>4 DEF RowStep

\* What queueing, claiming, completing and failing make of an open row.
LEMMA OutcomeSteps ==
  ASSUME StateOK, NEW j \in Jobs, jobs[j].status \in Unsettled,
         \/ \E r, wait : jobs'[j] = QueuedRow(r, jobs[j].attempt + 1, wait)
         \/ /\ jobs[j].lease # "lapsed"
            /\ \E w, token : jobs'[j] = Claimed(jobs[j], w, token)
         \/ jobs'[j] = Succeeded(jobs[j])
         \/ \E failure : jobs'[j] = Failed(jobs[j], failure)
  PROVE  RowStep(j)
<1>1. jobs[j] \in JobRow /\ jobs[j].attempt \in Nat
  BY DEF StateOK, TypeOK, JobRow
<1>2. CASE \E r, wait : jobs'[j] = QueuedRow(r, jobs[j].attempt + 1, wait)
  <2>1. /\ jobs'[j].attempt = jobs[j].attempt + 1
        /\ jobs'[j].failure = "none" /\ jobs'[j].lease = "none"
    BY <1>2 DEF QueuedRow, UnclaimedRow
  <2> QED
    BY <1>1, <2>1 DEF RowStep, Advanced, LeaseStep
<1>3. CASE /\ jobs[j].lease # "lapsed"
           /\ \E w, token : jobs'[j] = Claimed(jobs[j], w, token)
  <2>1. jobs'[j].attempt = jobs[j].attempt /\ jobs'[j].failure = jobs[j].failure
    BY <1>1, <1>3 DEF Claimed, JobRow
  <2> QED
    BY <1>1, <1>3, <2>1 DEF RowStep, Advanced, LeaseStep
<1>4. CASE jobs'[j] = Succeeded(jobs[j])
  <2>1. /\ jobs'[j].attempt = jobs[j].attempt /\ jobs'[j].failure = jobs[j].failure
        /\ jobs'[j].lease = "none"
    BY <1>1, <1>4 DEF Succeeded, JobRow
  <2> QED
    BY <1>1, <2>1 DEF RowStep, Advanced, LeaseStep
<1>5. CASE \E failure : jobs'[j] = Failed(jobs[j], failure)
  <2>1. /\ jobs'[j].attempt = jobs[j].attempt /\ jobs'[j].status = "failed"
        /\ jobs'[j].lease = "none"
    BY <1>1, <1>5 DEF Failed, JobRow
  <2> QED
    BY <1>1, <2>1 DEF RowStep, Advanced, LeaseStep
<1> QED
  BY <1>2, <1>3, <1>4, <1>5

\* The requests open rows and remove them.
LEMMA RequestSteps ==
  ASSUME StateOK, NEW r \in Repos, Request(r)
  PROVE  \A j \in Jobs : RowStep(j)
<1>1. CASE jobs' = jobs
  BY <1>1 DEF RowStep
<1>2. CASE Connect(r) /\ jobs' # jobs
  <2>1. PICK j \in Jobs : /\ jobs[j].status = "unborn"
                          /\ jobs' = [jobs EXCEPT ![j] = QueuedRow(r, 1, "due")]
    BY <1>2 DEF Connect
  <2>2. jobs'[j] = QueuedRow(r, 1, "due") /\ jobs[j].lease = "none"
    BY <2>1, OneRow DEF StateOK, RowOK, Held
  <2>3. Advanced(j)
    BY <2>1, <2>2 DEF Advanced, Unsettled, Exists, LeaseStep, QueuedRow, UnclaimedRow
  <2> QED
    BY <2>1, <2>3, OneRowSteps DEF RowStep
<1>3. CASE Delete(r)
  BY <1>3 DEF Delete, RowStep
<1> QED
  BY <1>1, <1>2, <1>3 DEF Request

\* The worker's calls: a claim is of a row without a lease, a renewal of a live one, a failure
\* of a held row, a retry of a retryable failure.
LEMMA WorkerSteps ==
  ASSUME StateOK, NEW w \in Workers, ClaimNext(w) \/ WorkerStep(w)
  PROVE  \A j \in Jobs : RowStep(j)
<1> DEFINE c == workers[w].claim
<1>1. CASE jobs' = jobs
  BY <1>1 DEF RowStep
<1>2. CASE ClaimNext(w)
  <2>1. PICK j \in Jobs : /\ jobs[j].status = "queued"
                          /\ jobs' = [jobs EXCEPT ![j] = Claimed(@, w, issued + 1)]
    BY <1>2 DEF ClaimNext
  <2>2. jobs'[j] = Claimed(jobs[j], w, issued + 1) /\ jobs[j].lease = "none"
    BY <2>1, OneRow DEF StateOK, RowOK, Held
  <2>3. RowStep(j)
    BY <2>1, <2>2, OutcomeSteps DEF Unsettled
  <2> QED
    BY <2>1, <2>3, OneRowSteps
<1>3. CASE WorkerStep(w) /\ jobs' # jobs
  <2>1. c.job \in Jobs
    BY <1>3, BusyClaim DEF WorkerStep, StartFails, MarkRunning, Abandon, Heartbeat, CompleteJob,
       MarkFailed, ScheduleRetry, Busy, StateOK, WorkerOK, Claim
  <2>2. CASE MarkRunning(w)
    BY <1>3, <2>1, <2>2, FieldSteps DEF MarkRunning, Unsettled
  <2>3. CASE Heartbeat(w)
    BY <1>3, <2>1, <2>3, FieldSteps DEF Heartbeat, Holds, Unsettled
  <2>4. CASE CompleteJob(w)
    <3>1. jobs' = [jobs EXCEPT ![c.job] = Succeeded(@)] /\ jobs[c.job].status = "running"
      BY <1>3, <2>4 DEF CompleteJob, Executing
    <3>2. RowStep(c.job)
      BY <2>1, <3>1, OneRow, OutcomeSteps DEF Unsettled
    <3> QED
      BY <2>1, <3>1, <3>2, OneRowSteps
  <2>5. CASE MarkFailed(w)
    <3>1. /\ jobs' = [jobs EXCEPT ![c.job] = Failed(@, workers[w].failure)]
          /\ jobs[c.job].status \in Unsettled
      BY <1>3, <2>5 DEF MarkFailed, Holds, Unsettled
    <3>2. RowStep(c.job)
      BY <2>1, <3>1, OneRow, OutcomeSteps
    <3> QED
      BY <2>1, <3>1, <3>2, OneRowSteps
  <2>6. CASE ScheduleRetry(w)
    <3>1. /\ jobs[c.job].status = "failed" /\ jobs[c.job].failure = "retryable"
          /\ jobs' = [jobs EXCEPT ![c.job] =
                        QueuedRow(jobs[c.job].repo, jobs[c.job].attempt + 1, "later")]
      BY <1>3, <2>6 DEF ScheduleRetry
    <3>2. RowStep(c.job)
      BY <2>1, <3>1, OneRow DEF RowStep, Retried
    <3> QED
      BY <2>1, <3>1, <3>2, OneRowSteps
  <2> QED
    BY <1>3, <2>2, <2>3, <2>4, <2>5, <2>6 DEF WorkerStep, StartFails, Abandon
<1> QED
  BY <1>1, <1>2, <1>3

\* A publication settles a running row; recovery requeues or fails held ones.
LEMMA PublishAndRecoverSteps ==
  ASSUME StateOK, (\E c \in pipelines : Publish(c)) \/ RecoverStale
  PROVE  \A j \in Jobs : RowStep(j)
<1>1. ASSUME NEW c \in pipelines, Publish(c)
      PROVE  \A j \in Jobs : RowStep(j)
  <2>1. c.job \in Jobs
    BY DEF StateOK, TypeOK, Claim
  <2>2. jobs' = [jobs EXCEPT ![c.job] = Succeeded(@)] /\ jobs[c.job].status = "running"
    BY <1>1 DEF Publish, Executing
  <2>3. RowStep(c.job)
    BY <2>1, <2>2, OneRow, OutcomeSteps DEF Unsettled
  <2> QED
    BY <2>1, <2>2, <2>3, OneRowSteps
<1>2. ASSUME RecoverStale, NEW j \in Jobs
      PROVE  RowStep(j)
  <2>1. \/ jobs'[j] = jobs[j]
        \/ /\ jobs[j].status \in Unsettled
           /\ \/ jobs'[j] = QueuedRow(jobs[j].repo, jobs[j].attempt + 1, "later")
              \/ jobs'[j] = Failed(jobs[j], "terminal")
    BY <1>2 DEF RecoverStale, Stale, Unsettled
  <2> QED
    BY <2>1, OutcomeSteps DEF RowStep
<1> QED
  BY <1>1, <1>2

\* Every step does to each row one of the four things.
LEMMA NextSteps ==
  ASSUME StateOK, [Next]_vars
  PROVE  \A j \in Jobs : RowStep(j)
<1>1. CASE jobs' = jobs
  BY <1>1 DEF RowStep
<1>2. CASE \E j \in Jobs : Clock(j)
  BY <1>2, FieldSteps DEF Clock, LeaseLapses, BackoffElapses, StateOK, RowOK, Held, Unsettled
<1>3. CASE ~(\E j \in Jobs : Clock(j)) /\ jobs' # jobs
  <2>1. \/ \E r \in Repos : Request(r)
        \/ \E w \in Workers : ClaimNext(w) \/ WorkerStep(w)
        \/ \E c \in pipelines : Publish(c)
        \/ RecoverStale
    BY <1>3 DEF Next, vars, Crash, Restart, PipelineStep, BeginSnapshot, ReportProgress, PipelineFails
  <2> QED
    BY <2>1, RequestSteps, WorkerSteps, PublishAndRecoverSteps
<1> QED
  BY <1>1, <1>2, <1>3

\* Terminal failures are failures, in every reachable state.
LEMMA FailureInvariant == Spec => []FailureOK
<1>1. Init => FailureOK
  BY DEF Init, NoRow, UnclaimedRow, FailureOK
<1>2. IndInv /\ FailureOK /\ [Next]_vars => FailureOK'
  <2> SUFFICES ASSUME IndInv, FailureOK, [Next]_vars, NEW j \in Jobs,
                      jobs'[j].failure = "terminal"
               PROVE  jobs'[j].status = "failed"
    BY DEF FailureOK
  <2>1. RowStep(j)
    BY NextSteps DEF IndInv
  <2>2. jobs'[j] # NoRow("deleted") /\ ~Retried(j)
    BY DEF NoRow, QueuedRow, UnclaimedRow, Retried
  <2> QED
    BY <2>1, <2>2 DEF RowStep, Advanced, FailureOK, Unsettled
<1> QED
  BY <1>1, <1>2, Invariance, PTL DEF Spec

-----------------------------------------------------------------------------
(***************************************************************************)
(* Theorems about steps                                                    *)
(***************************************************************************)
\* No heartbeat, however late, brings back a lease that lapsed: what an executor lost it can
\* only claim anew.
THEOREM LapsedLease == Spec => LapsedLeaseStaysLapsed
<1>1. IndInv /\ [Next]_vars =>
        [\A j \in Jobs :
           jobs[j].lease = "lapsed" /\ jobs'[j].token = jobs[j].token => jobs'[j].lease # "live"]_vars
  <2> SUFFICES ASSUME IndInv, [Next]_vars, NEW j \in Jobs
               PROVE  LeaseStep(j)
    BY DEF LeaseStep
  <2>1. RowStep(j)
    BY NextSteps DEF IndInv
  <2> QED
    BY <2>1 DEF RowStep, Advanced, Retried, LeaseStep, NoRow, QueuedRow, UnclaimedRow
<1> QED
  BY <1>1, Invariance, PTL DEF Spec, LapsedLeaseStaysLapsed

\* Success and terminal failure are final and attempts never go back, whatever late calls
\* reach the database; only the deletion of the repository ends them.
THEOREM FinalOutcome == Spec => OutcomeIsFinal
<1>1. IndInv /\ FailureOK /\ [Next]_vars =>
        [\A j \in Jobs :
           Exists(j) /\ jobs'[j].status # "deleted" =>
             /\ jobs[j].status = "succeeded" => jobs'[j] = jobs[j]
             /\ jobs[j].failure = "terminal" => jobs'[j] = jobs[j]
             /\ jobs'[j].attempt >= jobs[j].attempt]_vars
  <2> SUFFICES ASSUME IndInv, FailureOK, [Next]_vars, NEW j \in Jobs,
                      Exists(j), jobs'[j].status # "deleted"
               PROVE  /\ jobs[j].status = "succeeded" => jobs'[j] = jobs[j]
                      /\ jobs[j].failure = "terminal" => jobs'[j] = jobs[j]
                      /\ jobs'[j].attempt >= jobs[j].attempt
    OBVIOUS
  <2>1. RowStep(j) /\ jobs[j].attempt \in Nat
    BY NextSteps DEF IndInv, StateOK, TypeOK, JobRow
  <2>2. jobs'[j] # NoRow("deleted")
    BY DEF NoRow, UnclaimedRow
  <2>3. CASE jobs'[j] = jobs[j]
    BY <2>1, <2>3
  <2>4. CASE Advanced(j)
    BY <2>4 DEF Advanced, Unsettled, FailureOK
  <2>5. CASE Retried(j)
    BY <2>1, <2>5 DEF Retried, QueuedRow, UnclaimedRow
  <2> QED
    BY <2>1, <2>2, <2>3, <2>4, <2>5 DEF RowStep
<1> QED
  BY <1>1, Invariance, FailureInvariant, PTL DEF Spec, OutcomeIsFinal

\* With clocks that agree, a job whose lease is live is failed only by the worker that holds
\* it and given back by nobody: recovery takes lapsed jobs only.
THEOREM LiveLease ==
  ASSUME ~ClockSkew
  PROVE  Spec => LiveLeaseIsNotTaken
<1>1. IndInv /\ [Next]_vars =>
        [\A j \in Jobs :
           jobs[j].lease = "live" /\ jobs'[j].status \in {"queued", "failed"} =>
             /\ jobs'[j].status = "failed"
             /\ \E w \in Workers : Busy(w, "failing") /\ workers[w].claim.token = jobs[j].token]_vars
  <2> SUFFICES ASSUME IndInv, [Next]_vars, NEW j \in Jobs,
                      jobs[j].lease = "live", jobs'[j].status \in {"queued", "failed"}
               PROVE  /\ jobs'[j].status = "failed"
                      /\ \E w \in Workers : Busy(w, "failing") /\ workers[w].claim.token = jobs[j].token
    OBVIOUS
  <2>1. Held(j) /\ jobs \in [Jobs -> JobRow] /\ jobs[j] \in JobRow
    BY DEF IndInv, StateOK, TypeOK, RowOK, JobRow
  <2>2. jobs'[j] # jobs[j]
    BY <2>1 DEF Held
  <2>3. ~RecoverStale
    BY <2>2 DEF RecoverStale, Stale
  <2>4. ~(\E i \in Jobs : Clock(i)) /\ ~(\E r \in Repos : Request(r))
    <3>1. ASSUME NEW i \in Jobs, Clock(i)
          PROVE  FALSE
      <4>1. jobs'[j].status = jobs[j].status
        BY <2>1, <3>1 DEF Clock, LeaseLapses, BackoffElapses, JobRow
      <4> QED
        BY <2>1, <4>1 DEF Held
    <3>2. ASSUME NEW r \in Repos, Request(r)
          PROVE  FALSE
      <4>1. CASE Connect(r)
        BY <2>1, <2>2, <4>1 DEF Connect, Held
      <4>2. CASE Delete(r)
        BY <2>2, <4>2 DEF Delete, NoRow, UnclaimedRow
      <4> QED
        BY <3>2, <4>1, <4>2 DEF Request
    <3> QED
      BY <3>1, <3>2
  <2>5. ~(\E c \in pipelines : PipelineStep(c))
    <3>1. ASSUME NEW c \in pipelines, Publish(c)
          PROVE  FALSE
      <4>1. jobs'[j] = Succeeded(jobs[j])
        BY <2>1, <2>2, <3>1 DEF Publish
      <4> QED
        BY <2>1, <4>1, ChangedRows
    <3> QED
      BY <2>2, <3>1 DEF PipelineStep, BeginSnapshot, ReportProgress, PipelineFails
  <2>6. PICK w \in Workers : ClaimNext(w) \/ WorkerStep(w)
    BY <2>2, <2>3, <2>4, <2>5 DEF Next, vars, Crash, Restart
  <2>7. ~ClaimNext(w)
    BY <2>1, <2>2 DEF ClaimNext, Held
  <2>8. ~MarkRunning(w) /\ ~Heartbeat(w)
    <3>1. ASSUME MarkRunning(w) \/ Heartbeat(w)
          PROVE  jobs'[j].status \in {"running", jobs[j].status}
      <4>1. \/ jobs' = jobs
            \/ \E i : jobs' = [jobs EXCEPT ![i].status = "running"]
            \/ \E i : jobs' = [jobs EXCEPT ![i].lease = "live"]
        BY <3>1 DEF MarkRunning, Heartbeat
      <4>2. \/ jobs'[j] = jobs[j]
            \/ jobs'[j] = [jobs[j] EXCEPT !.status = "running"]
            \/ jobs'[j] = [jobs[j] EXCEPT !.lease = "live"]
        BY <2>1, <4>1
      <4> QED
        BY <2>1, <4>2 DEF JobRow
    <3> QED
      BY <2>1, <3>1 DEF Held
  <2>9. ~CompleteJob(w)
    <3> SUFFICES ASSUME CompleteJob(w) PROVE FALSE
      OBVIOUS
    <3>1. jobs'[j] = Succeeded(jobs[j])
      BY <2>1, <2>2 DEF CompleteJob
    <3> QED
      BY <2>1, <3>1, ChangedRows
  <2>10. ~ScheduleRetry(w)
    BY <2>1, <2>2 DEF ScheduleRetry, Held
  <2>11. MarkFailed(w)
    BY <2>2, <2>6, <2>7, <2>8, <2>9, <2>10 DEF WorkerStep, StartFails, Abandon
  <2>12. workers[w].claim.job = j /\ Holds(workers[w].claim)
    BY <2>1, <2>2, <2>11 DEF MarkFailed
  <2>13. jobs'[j] = Failed(jobs[j], workers[w].failure)
    BY <2>1, <2>2, <2>11, <2>12 DEF MarkFailed
  <2>14. jobs'[j].status = "failed"
    BY <2>1, <2>13, ChangedRows
  <2>15. Busy(w, "failing") /\ workers[w].claim.token = jobs[j].token
    BY <2>11, <2>12 DEF MarkFailed, Holds, Owns
  <2> QED
    BY <2>14, <2>15
<1> QED
  BY <1>1, Invariance, PTL DEF Spec, LiveLeaseIsNotTaken

-----------------------------------------------------------------------------
(* The queue implements JobLedger.                                          *)

\* The phase of a row, by its status.
LEMMA Phases ==
  ASSUME NEW row \in JobRow
  PROVE  /\ row.status = "unborn" => PhaseOf(row) = "absent"
         /\ row.status = "deleted" => PhaseOf(row) = "withdrawn"
         /\ row.status = "queued" => PhaseOf(row) = "waiting"
         /\ row.status \in {"claimed", "running"} => PhaseOf(row) = "held"
         /\ row.status = "succeeded" => PhaseOf(row) = "succeeded"
         /\ row.status = "failed" /\ row.failure = "retryable" => PhaseOf(row) = "failed"
         /\ row.status = "failed" /\ row.failure # "retryable" => PhaseOf(row) = "dead"
BY DEF PhaseOf

\* What the ledger shows of an entry.
LEMMA Entries ==
  \A row : /\ EntryOf(row).phase = PhaseOf(row)
           /\ EntryOf(row).repo = row.repo
           /\ EntryOf(row).attempt = row.attempt
           /\ EntryOf(row).holding = row.token
BY DEF EntryOf

\* The entries of the rows the stored procedures write.
LEMMA WrittenEntries ==
  /\ \A r, n, wait : EntryOf(QueuedRow(r, n, wait)) = Ledger!Entry("waiting", r, n, NoToken)
  /\ EntryOf(NoRow("unborn")) = Ledger!Entry("absent", None, 0, NoToken)
  /\ EntryOf(NoRow("deleted")) = Ledger!Entry("withdrawn", None, 0, NoToken)
BY DEF EntryOf, PhaseOf, QueuedRow, NoRow, UnclaimedRow, Ledger!Entry

\* The entries of the rows that are claimed, completed and failed.
LEMMA ChangedEntries ==
  ASSUME NEW row \in JobRow
  PROVE  /\ \A w, token : EntryOf(Claimed(row, w, token)) =
                            Ledger!Entry("held", row.repo, row.attempt, token)
         /\ EntryOf(Succeeded(row)) = [EntryOf(row) EXCEPT !.phase = "succeeded"]
         /\ \A failure :
              EntryOf(Failed(row, failure)) =
                [EntryOf(row) EXCEPT !.phase = IF failure = "retryable" THEN "failed" ELSE "dead"]
<1>1. ASSUME NEW w, NEW token
      PROVE  EntryOf(Claimed(row, w, token)) = Ledger!Entry("held", row.repo, row.attempt, token)
  <2>1. PhaseOf(Claimed(row, w, token)) = "held"
    BY ChangedRows DEF PhaseOf
  <2> QED
    BY <2>1, ChangedRows DEF EntryOf, Ledger!Entry
<1>2. EntryOf(Succeeded(row)) = [EntryOf(row) EXCEPT !.phase = "succeeded"]
  <2>1. PhaseOf(Succeeded(row)) = "succeeded"
    BY ChangedRows DEF PhaseOf
  <2> QED
    BY <2>1, ChangedRows DEF EntryOf
<1>3. ASSUME NEW failure
      PROVE  EntryOf(Failed(row, failure)) =
               [EntryOf(row) EXCEPT !.phase = IF failure = "retryable" THEN "failed" ELSE "dead"]
  <2>1. Failed(row, failure).failure = failure
    BY DEF Failed, JobRow
  <2>2. PhaseOf(Failed(row, failure)) = IF failure = "retryable" THEN "failed" ELSE "dead"
    BY <2>1, ChangedRows DEF PhaseOf
  <2> QED
    BY <2>2, ChangedRows DEF EntryOf
<1> QED
  BY <1>1, <1>2, <1>3

\* A repository without an active job has no open entry.
LEMMA OpenIsActive ==
  ASSUME StateOK, NEW r, ActiveOn(r) = {}
  PROVE  Ledger!Open(r) = {}
<1> SUFFICES ASSUME NEW j \in Jobs, EntryOf(jobs[j]).phase \in {"waiting", "held"},
                    EntryOf(jobs[j]).repo = r
             PROVE  j \in ActiveOn(r)
  BY DEF Ledger!Open
<1>1. jobs[j] \in JobRow
  BY DEF StateOK, TypeOK
<1>2. jobs[j].status \in ActiveStatuses /\ jobs[j].repo = r
  BY <1>1, Phases, Entries DEF JobRow, JobStatuses, ActiveStatuses
<1> QED
  BY <1>2 DEF ActiveOn, Active

-----------------------------------------------------------------------------
(***************************************************************************)
(* From the steps of the queue to the steps of the ledger                  *)
(***************************************************************************)
Shown == [j \in Jobs |-> EntryOf(jobs[j])]
Visible == [r \in Repos |-> repos[r].publisher]

\* Rows that keep phase and claim, under unchanged publications, are not seen.
LEMMA Unseen ==
  ASSUME Shown' = Shown, Visible' = Visible, issued' = issued
  PROVE  UNCHANGED Ledger!vars
BY DEF Shown, Visible, Ledger!vars

\* A repository whose status changes shows what it showed.
LEMMA StatusUnseen ==
  ASSUME StateOK,
         \/ repos' = repos
         \/ \E r, status : repos' = [repos EXCEPT ![r].status = status]
  PROVE  Visible' = Visible
<1>1. ASSUME NEW q \in Repos
      PROVE  repos'[q].publisher = repos[q].publisher
  <2>1. repos[q] \in RepoRow /\ repos \in [Repos -> RepoRow]
    BY DEF StateOK, TypeOK
  <2>2. repos'[q] = repos[q] \/ \E status : repos'[q] = [repos[q] EXCEPT !.status = status]
    BY <2>1
  <2> QED
    BY <2>1, <2>2 DEF RepoRow
<1> QED
  BY <1>1 DEF Visible

\* A row that is renewed, lapses, becomes due or starts is not seen.
LEMMA RowUnseen ==
  ASSUME StateOK,
         \/ jobs' = jobs
         \/ \E j, lease : jobs' = [jobs EXCEPT ![j].lease = lease]
         \/ \E j, wait : jobs' = [jobs EXCEPT ![j].wait = wait]
         \/ \E j : jobs[j].status = "claimed" /\ jobs' = [jobs EXCEPT ![j].status = "running"]
  PROVE  Shown' = Shown
<1>1. ASSUME NEW i \in Jobs
      PROVE  EntryOf(jobs'[i]) = EntryOf(jobs[i])
  <2>1. jobs[i] \in JobRow /\ jobs \in [Jobs -> JobRow]
    BY DEF StateOK, TypeOK
  <2>2. \/ jobs'[i] = jobs[i]
        \/ \E lease : jobs'[i] = [jobs[i] EXCEPT !.lease = lease]
        \/ \E wait : jobs'[i] = [jobs[i] EXCEPT !.wait = wait]
        \/ jobs[i].status = "claimed" /\ jobs'[i] = [jobs[i] EXCEPT !.status = "running"]
    BY <2>1
  <2>3. SameClaim(i) /\ jobs'[i].failure = jobs[i].failure
    BY <2>1, <2>2 DEF SameClaim, JobRow
  <2>4. \/ jobs'[i].status = jobs[i].status
        \/ jobs[i].status = "claimed" /\ jobs'[i].status = "running"
    BY <2>1, <2>2 DEF JobRow
  <2>5. PhaseOf(jobs'[i]) = PhaseOf(jobs[i])
    BY <2>3, <2>4 DEF PhaseOf
  <2> QED
    BY <2>3, <2>5 DEF EntryOf, SameClaim
<1> QED
  BY <1>1 DEF Shown

\* One row is written: one entry of the ledger changes.
LEMMA OneEntry ==
  ASSUME StateOK, NEW j \in Jobs, NEW row, jobs' = [jobs EXCEPT ![j] = row]
  PROVE  Shown' = [Shown EXCEPT ![j] = EntryOf(row)]
BY DEF StateOK, TypeOK, Shown

\* A connection submits a job, or nothing the ledger shows.
LEMMA ConnectSubmits ==
  ASSUME StateOK, NEW r \in Repos, Connect(r)
  PROVE  Ledger!Next \/ UNCHANGED Ledger!vars
<1>1. Visible' = Visible
  <2>1. ASSUME NEW q \in Repos
        PROVE  repos'[q].publisher = repos[q].publisher
    <3>1. repos[q] \in RepoRow
      BY DEF StateOK, TypeOK
    <3>2. repos'[q] \in {repos[q], [repos[q] EXCEPT !.connected = TRUE, !.status = "indexing"]}
      BY DEF Connect, StateOK, TypeOK
    <3> QED
      BY <3>1, <3>2 DEF RepoRow
  <2> QED
    BY <2>1 DEF Visible
<1>2. issued' = issued
  BY DEF Connect
<1>3. CASE jobs' = jobs
  BY <1>1, <1>2, <1>3, Unseen DEF Shown
<1>4. CASE jobs' # jobs
  <2>1. PICK j \in Jobs : /\ ActiveOn(r) = {}
                          /\ jobs[j].status = "unborn"
                          /\ jobs' = [jobs EXCEPT ![j] = QueuedRow(r, 1, "due")]
    BY <1>4 DEF Connect
  <2>2. Shown' = [Shown EXCEPT ![j] = Ledger!Entry("waiting", r, 1, NoToken)]
    <3>1. Shown' = [Shown EXCEPT ![j] = EntryOf(QueuedRow(r, 1, "due"))]
      BY <2>1, OneEntry
    <3> QED
      BY <3>1, WrittenEntries
  <2>3. Ledger!Open(r) = {}
    BY <2>1, OpenIsActive
  <2>4. Shown[j].phase = "absent"
    BY <2>1, Phases, Entries DEF Shown, StateOK, TypeOK
  <2>5. Ledger!Submit(j, r)
    BY <1>1, <1>2, <2>2, <2>3, <2>4 DEF Ledger!Submit, Shown, Visible, NoToken
  <2> QED
    BY <2>5 DEF Ledger!Next
<1> QED
  BY <1>3, <1>4

\* A deletion withdraws the repository.
LEMMA DeleteWithdraws ==
  ASSUME StateOK, NEW r \in Repos, Delete(r)
  PROVE  Ledger!Next
<1>1. Visible' = [Visible EXCEPT ![r] = 0]
  BY DEF Delete, StateOK, TypeOK, Visible, DeletedRepo, NoRepo, NoToken
<1>2. Shown' = [j \in Jobs |->
                 IF Shown[j].repo = r THEN Ledger!Entry("withdrawn", None, 0, 0) ELSE Shown[j]]
  BY WrittenEntries, Entries DEF Delete, Shown, NoToken
<1>3. Ledger!Withdraw(r)
  BY <1>1, <1>2 DEF Ledger!Withdraw, Shown, Visible, Delete
<1> QED
  BY <1>3 DEF Ledger!Next

\* A claim takes the job, whether or not its answer arrives.
LEMMA ClaimTakes ==
  ASSUME StateOK, NEW w \in Workers, ClaimNext(w)
  PROVE  Ledger!Next
<1>1. PICK j \in Jobs : /\ jobs[j].status = "queued"
                        /\ jobs' = [jobs EXCEPT ![j] = Claimed(jobs[j], w, issued + 1)]
  BY DEF ClaimNext
<1>2. jobs[j] \in JobRow
  BY DEF StateOK, TypeOK
<1>3. Shown' = [Shown EXCEPT ![j] =
                  Ledger!Entry("held", Shown[j].repo, Shown[j].attempt, issued + 1)]
  <2>1. Shown' = [Shown EXCEPT ![j] = EntryOf(Claimed(jobs[j], w, issued + 1))]
    BY <1>1, OneEntry
  <2>2. Shown[j].repo = jobs[j].repo /\ Shown[j].attempt = jobs[j].attempt
    BY Entries DEF Shown
  <2>3. \A u, t : EntryOf(Claimed(jobs[j], u, t)) =
                    Ledger!Entry("held", jobs[j].repo, jobs[j].attempt, t)
    BY <1>2, ChangedEntries
  <2>4. EntryOf(Claimed(jobs[j], w, issued + 1)) =
          Ledger!Entry("held", Shown[j].repo, Shown[j].attempt, issued + 1)
    BY <2>2, <2>3
  <2> QED
    BY <2>1, <2>4
<1>4. Shown[j].phase = "waiting"
  BY <1>1, <1>2, Phases, Entries DEF Shown
<1>5. Ledger!Take(j)
  BY <1>3, <1>4 DEF Ledger!Take, Shown, ClaimNext
<1> QED
  BY <1>5 DEF Ledger!Next

\* A publication makes the holding succeed and its revision visible in one step.
LEMMA PublishSucceeds ==
  ASSUME StateOK, NEW c \in pipelines, Publish(c)
  PROVE  Ledger!Next
<1> DEFINE j == c.job
           r == jobs[j].repo
<1>1. j \in Jobs /\ jobs[j] \in JobRow
  BY DEF StateOK, TypeOK, Claim
<1>2. jobs[j].status = "running" /\ jobs[j].token = c.token /\ r \in Repos
  BY <1>1 DEF Publish, Executing, Holds, Owns, StateOK, RowOK, Exists
<1>3. Shown' = [Shown EXCEPT ![j] = [Shown[j] EXCEPT !.phase = "succeeded"]]
  <2>1. Shown' = [Shown EXCEPT ![j] = EntryOf(Succeeded(jobs[j]))]
    BY <1>1, OneEntry DEF Publish
  <2>2. Shown[j] = EntryOf(jobs[j])
    BY <1>1 DEF Shown
  <2> QED
    BY <1>1, <2>1, <2>2, ChangedEntries
<1>4. Visible' = [Visible EXCEPT ![r] = c.token]
  <2>1. PICK status : repos' = [repos EXCEPT ![r] = [@ EXCEPT !.status = status, !.publisher = c.token]]
    BY DEF Publish
  <2>2. repos'[r].publisher = c.token /\ \A q \in Repos \ {r} : repos'[q] = repos[q]
    BY <1>2, <2>1 DEF StateOK, TypeOK, RepoRow
  <2> QED
    BY <1>2, <2>2 DEF Visible
<1>5. Shown[j].phase = "held" /\ Shown[j].repo = r /\ Shown[j].holding = c.token
  BY <1>1, <1>2, Phases, Entries DEF Shown
<1>6. Ledger!Succeed(j)
  BY <1>3, <1>4, <1>5 DEF Ledger!Succeed, Shown, Visible, Publish
<1> QED
  BY <1>1, <1>6 DEF Ledger!Next

\* A failure ends the holding, with another attempt to come or without.
LEMMA FailureFails ==
  ASSUME StateOK, NEW w \in Workers, MarkFailed(w)
  PROVE  Ledger!Next \/ UNCHANGED Ledger!vars
<1> DEFINE j == workers[w].claim.job
           r == jobs[j].repo
           failure == workers[w].failure
<1>1. j \in Jobs /\ jobs[j] \in JobRow
  BY BusyClaim DEF MarkFailed, Busy, Claim, StateOK, TypeOK
<1>2. Visible' = Visible /\ issued' = issued
  BY StatusUnseen DEF MarkFailed
<1>3. CASE jobs' = jobs
  BY <1>2, <1>3, Unseen DEF Shown
<1>4. CASE jobs' # jobs
  <2> DEFINE phase == IF failure = "retryable" THEN "failed" ELSE "dead"
  <2>1. jobs' = [jobs EXCEPT ![j] = Failed(jobs[j], failure)] /\ Held(j)
    BY <1>4 DEF MarkFailed, Holds, Held
  <2>2. Shown' = [Shown EXCEPT ![j] = EntryOf(Failed(jobs[j], failure))]
    BY <1>1, <2>1, OneEntry
  <2>3. EntryOf(Failed(jobs[j], failure)) = [Shown[j] EXCEPT !.phase = phase]
    BY <1>1, ChangedEntries DEF Shown
  <2>4. Shown[j].phase = "held"
    BY <1>1, <2>1, Phases, Entries DEF Shown, Held
  <2>5. Ledger!Fail(j, phase)
    BY <1>2, <2>2, <2>3, <2>4 DEF Ledger!Fail, Shown, Visible
  <2> QED
    BY <1>1, <2>5 DEF Ledger!Next
<1> QED
  BY <1>3, <1>4

\* A retry scheduled by the worker is a retry of the ledger.
LEMMA RetryRetries ==
  ASSUME StateOK, NEW w \in Workers, ScheduleRetry(w)
  PROVE  Ledger!Next \/ UNCHANGED Ledger!vars
<1> DEFINE j == workers[w].claim.job
           r == jobs[j].repo
<1>1. j \in Jobs /\ jobs[j] \in JobRow
  BY BusyClaim DEF ScheduleRetry, Busy, Claim, StateOK, TypeOK
<1>2. Visible' = Visible /\ issued' = issued
  BY DEF ScheduleRetry, Visible
<1>3. CASE jobs' = jobs
  BY <1>2, <1>3, Unseen DEF Shown
<1>4. CASE jobs' # jobs
  <2>1. /\ jobs' = [jobs EXCEPT ![j] = QueuedRow(r, jobs[j].attempt + 1, "later")]
        /\ jobs[j].status = "failed" /\ jobs[j].failure = "retryable"
        /\ jobs[j].attempt < MaxAttempts /\ ActiveOn(r) = {}
    BY <1>4 DEF ScheduleRetry
  <2>2. Shown' = [Shown EXCEPT ![j] = Ledger!Entry("waiting", r, jobs[j].attempt + 1, NoToken)]
    <3>1. Shown' = [Shown EXCEPT ![j] = EntryOf(QueuedRow(r, jobs[j].attempt + 1, "later"))]
      BY <1>1, <2>1, OneEntry
    <3> QED
      BY <3>1, WrittenEntries
  <2>3. /\ Shown[j].phase = "failed" /\ Shown[j].repo = r /\ Shown[j].attempt = jobs[j].attempt
    BY <1>1, <2>1, Phases, Entries DEF Shown
  <2>4. Ledger!Open(r) = {}
    BY <2>1, OpenIsActive
  <2>5. Ledger!Retry(j)
    BY <1>2, <2>1, <2>2, <2>3, <2>4 DEF Ledger!Retry, Ledger!NextAttempt, Shown, Visible, NoToken
  <2> QED
    BY <1>1, <2>5 DEF Ledger!Next
<1> QED
  BY <1>3, <1>4

\* Recovery takes holdings back.
LEMMA RecoveryTakesBack ==
  ASSUME StateOK, RecoverStale
  PROVE  Ledger!Next
<1>1. PICK stale \in SUBSET {j \in Jobs : Stale(j)} :
        jobs' = [j \in Jobs |->
                  IF j \notin stale THEN jobs[j]
                  ELSE IF jobs[j].attempt < MaxAttempts
                  THEN QueuedRow(jobs[j].repo, jobs[j].attempt + 1, "later")
                  ELSE Failed(jobs[j], "terminal")]
  BY DEF RecoverStale
<1>2. \A j \in stale : Shown[j].phase = "held"
  BY Phases, Entries DEF Shown, Stale, StateOK, TypeOK
<1>3. ASSUME NEW j \in Jobs
      PROVE  Shown'[j] = IF j \notin stale THEN Shown[j]
                         ELSE IF Shown[j].attempt < MaxAttempts THEN Ledger!NextAttempt(Shown[j])
                         ELSE [Shown[j] EXCEPT !.phase = "dead"]
  <2>1. /\ Shown'[j] = EntryOf(jobs'[j]) /\ Shown[j] = EntryOf(jobs[j])
        /\ Shown[j].attempt = jobs[j].attempt /\ Shown[j].repo = jobs[j].repo
    BY Entries DEF Shown
  <2>2. CASE j \notin stale
    BY <1>1, <2>1, <2>2
  <2>3. CASE j \in stale /\ jobs[j].attempt < MaxAttempts
    <3>1. jobs'[j] = QueuedRow(jobs[j].repo, jobs[j].attempt + 1, "later")
      BY <1>1, <2>3
    <3>2. EntryOf(jobs'[j]) = Ledger!Entry("waiting", jobs[j].repo, jobs[j].attempt + 1, NoToken)
      BY <3>1, WrittenEntries
    <3> QED
      BY <2>1, <2>3, <3>2 DEF Ledger!NextAttempt, NoToken
  <2>4. CASE j \in stale /\ ~(jobs[j].attempt < MaxAttempts)
    <3>1. jobs'[j] = Failed(jobs[j], "terminal") /\ jobs[j] \in JobRow
      BY <1>1, <2>4 DEF StateOK, TypeOK
    <3>2. EntryOf(Failed(jobs[j], "terminal")) = [EntryOf(jobs[j]) EXCEPT !.phase = "dead"]
      BY <3>1, ChangedEntries
    <3> QED
      BY <2>1, <2>4, <3>1, <3>2
  <2> QED
    BY <2>2, <2>3, <2>4
<1>4. Shown' = [j \in Jobs |->
                 IF j \notin stale THEN Shown[j]
                 ELSE IF Shown[j].attempt < MaxAttempts THEN Ledger!NextAttempt(Shown[j])
                 ELSE [Shown[j] EXCEPT !.phase = "dead"]]
  BY <1>3 DEF Shown
<1>5. Ledger!TakeBack(stale)
  BY <1>2, <1>4 DEF Ledger!TakeBack, Shown, Visible, RecoverStale
<1> QED
  BY <1>5 DEF Ledger!Next

\* What the ledger does not see: starts, renewals, lapses, back-offs, snapshots begun or
\* discarded, crashes, restarts, and the completion of what is settled already.
LEMMA StutteringSteps ==
  ASSUME IndInv,
         \/ \E w \in Workers : \/ StartFails(w) \/ MarkRunning(w) \/ Abandon(w) \/ Heartbeat(w)
                              \/ CompleteJob(w) \/ Crash(w) \/ Restart(w)
         \/ \E c \in pipelines : BeginSnapshot(c) \/ ReportProgress(c) \/ PipelineFails(c)
         \/ \E j \in Jobs : Clock(j)
  PROVE  UNCHANGED Ledger!vars
<1>1. StateOK
  BY DEF IndInv
<1>2. issued' = issued
  BY DEF StartFails, MarkRunning, Abandon, Heartbeat, CompleteJob, Crash, Restart,
         BeginSnapshot, ReportProgress, PipelineFails, Clock, LeaseLapses, BackoffElapses
<1>3. \/ repos' = repos
      \/ \E r, status : repos' = [repos EXCEPT ![r].status = status]
  BY DEF StartFails, MarkRunning, Abandon, Heartbeat, CompleteJob, Crash, Restart,
         BeginSnapshot, ReportProgress, PipelineFails, Clock, LeaseLapses, BackoffElapses
<1>4. Shown' = Shown
  <2>1. ASSUME NEW w \in Workers, CompleteJob(w)
        PROVE  jobs' = jobs
    BY <2>1 DEF CompleteJob, IndInv, CompletingOK, Executing, Holds
  <2>2. ASSUME NEW w \in Workers, StartFails(w) \/ Abandon(w) \/ Crash(w) \/ Restart(w)
        PROVE  jobs' = jobs
    BY <2>2 DEF StartFails, Abandon, Crash, Restart
  <2>3. ASSUME NEW w \in Workers, MarkRunning(w)
        PROVE  Shown' = Shown
    BY <1>1, <2>3, RowUnseen DEF MarkRunning
  <2>4. ASSUME NEW w \in Workers, Heartbeat(w)
        PROVE  Shown' = Shown
    BY <1>1, <2>4, RowUnseen DEF Heartbeat
  <2>5. ASSUME NEW c \in pipelines, BeginSnapshot(c) \/ ReportProgress(c) \/ PipelineFails(c)
        PROVE  jobs' = jobs
    BY <2>5 DEF BeginSnapshot, ReportProgress, PipelineFails
  <2>6. ASSUME NEW j \in Jobs, Clock(j)
        PROVE  Shown' = Shown
    <3>1. CASE LeaseLapses(j)
      <4>1. jobs' = [jobs EXCEPT ![j].lease = "lapsed"]
        BY <3>1 DEF LeaseLapses
      <4> QED
        BY <1>1, <4>1, RowUnseen
    <3>2. CASE BackoffElapses(j)
      <4>1. jobs' = [jobs EXCEPT ![j].wait = "due"]
        BY <3>2 DEF BackoffElapses
      <4> QED
        BY <1>1, <4>1, RowUnseen
    <3> QED
      BY <2>6, <3>1, <3>2 DEF Clock
  <2> QED
    BY <1>1, <2>1, <2>2, <2>3, <2>4, <2>5, <2>6, RowUnseen
<1> QED
  BY <1>1, <1>2, <1>3, <1>4, StatusUnseen, Unseen

\* The empty queue is the empty ledger.
LEMMA InitMaps == Init => Ledger!Init
<1> SUFFICES ASSUME Init PROVE Ledger!Init
  OBVIOUS
<1>1. Shown = [j \in Jobs |-> Ledger!Entry("absent", None, 0, 0)]
  BY WrittenEntries DEF Init, Shown, NoToken
<1>2. Visible = [r \in Repos |-> 0] /\ issued = 0
  BY DEF Init, Visible, NoRepo, NoToken
<1> QED
  BY <1>1, <1>2 DEF Ledger!Init, Shown, Visible

\* Whatever workers, stale executors, late calls, recoveries and crashes do, every step is
\* a step of the ledger or is not seen by it: one outcome per holding, and the visible
\* revision is that of the newest success.
THEOREM Refinement == Spec => ImplementsLedger
<1>1. Init => Ledger!Init
  BY InitMaps
<1>2. IndInv /\ [Next]_vars => [Ledger!Next]_(Ledger!vars)
  <2> SUFFICES ASSUME IndInv, [Next]_vars
               PROVE  Ledger!Next \/ UNCHANGED Ledger!vars
    OBVIOUS
  <2>1. StateOK
    BY DEF IndInv
  <2>2. CASE UNCHANGED vars
    BY <2>2, Unseen DEF vars, Shown, Visible
  <2>3. CASE \E r \in Repos : Request(r)
    BY <2>1, <2>3, ConnectSubmits, DeleteWithdraws DEF Request
  <2>4. CASE \E w \in Workers : ClaimNext(w) \/ WorkerStep(w) \/ Crash(w) \/ Restart(w)
    BY <2>1, <2>4, ClaimTakes, FailureFails, RetryRetries, StutteringSteps DEF WorkerStep
  <2>5. CASE \E c \in pipelines : PipelineStep(c)
    BY <2>1, <2>5, PublishSucceeds, StutteringSteps DEF PipelineStep
  <2>6. CASE \E j \in Jobs : Clock(j)
    BY <2>6, StutteringSteps
  <2>7. CASE RecoverStale
    BY <2>1, <2>7, RecoveryTakesBack
  <2> QED
    BY <2>2, <2>3, <2>4, <2>5, <2>6, <2>7 DEF Next
<1> QED
  BY <1>1, <1>2, Invariance, PTL DEF Spec, ImplementsLedger, Ledger!Spec
=============================================================================
