--------------------- MODULE IndexingJobsImplementsLedger ---------------------
(***************************************************************************)
(* The indexing queue implements JobLedger: a claimed or running row is a  *)
(* holding, its claim token the holding's number, and what workers,        *)
(* pipelines, leases and the clock do in between is not seen.              *)
(***************************************************************************)
EXTENDS IndexingJobs

PhaseOf(row) ==
  CASE row.status = "unborn" -> "absent"
    [] row.status = "deleted" -> "withdrawn"
    [] row.status = "queued" -> "waiting"
    [] row.status \in {"claimed", "running"} -> "held"
    [] row.status = "succeeded" -> "succeeded"
    [] row.status = "failed" -> IF row.failure = "retryable" THEN "failed" ELSE "dead"

EntryOf(row) ==
  [phase |-> PhaseOf(row), repo |-> row.repo, attempt |-> row.attempt, holding |-> row.token]

Ledger == INSTANCE JobLedger
  WITH ledger <- [j \in Jobs |-> EntryOf(jobs[j])],
       visible <- [r \in Repos |-> repos[r].publisher],
       taken <- issued

\* Whatever workers, stale executors, recoveries, crashes and lost answers do, a
\* holding has one outcome and the visible revision is that of the newest success.
ImplementsLedger == Ledger!Spec
=============================================================================
