------------------------- MODULE SnapshotPublication -------------------------
(***************************************************************************)
(* How one repository comes to show a revision: the calls an indexing       *)
(* pipeline makes on repository_snapshots, repository_artifacts and the     *)
(* versions of the embedding index, the graph and the intelligence, the     *)
(* publication that moves current_revision over all of them at once, and    *)
(* what a failed, lost or dead pipeline leaves behind.                      *)
(*                                                                          *)
(* The queue is here as far as the stored procedures of publication look at *)
(* it (IndexingJobs has the rest): a claim is a job and its attempt, since  *)
(* an attempt is claimed once; claiming and starting are one step; a failed *)
(* job keeps its claim until it is queued again.                            *)
(*                                                                          *)
(* A revision fixes its content, so a build either has written a part of it *)
(* or has not: the chunks are stored one by one (two of them stand for      *)
(* all), the graph and the intelligence in one call each.  The deployment's *)
(* configuration does not change, so a kind has one version per revision.   *)
(***************************************************************************)
EXTENDS Integers, FiniteSets, Sequences

CONSTANTS
  Jobs,         \* job ids of the repository
  Revisions,    \* commits the branch may point to when it is cloned
  MaxAttempts,  \* indexing_jobs.max_attempts
  Retention,    \* REPOSITORY_ARTIFACT_RETENTION_COUNT
  MaxPipelines, \* bound of the model: pipelines executing at the same time
  None

ASSUME AttemptAssumption == MaxAttempts \in Nat \ {0}
ASSUME RetentionAssumption == Retention \in Nat \ {0}
ASSUME PipelinesAssumption == MaxPipelines \in Nat \ {0}
ASSUME NoneAssumption == None \notin Jobs \cup Revisions

VARIABLES
  jobs,          \* indexing_jobs, as far as the fences read it
  repo,          \* repositories: current_, previous_ and publishing_revision
  snapshots,     \* repository_snapshots, by revision
  artifacts,     \* the revisions with a row in repository_artifacts
  versions,      \* the version each kind has of each revision, with its content
  publications,  \* the revision whose version each kind has published
  pipelines,     \* what each executor of a claim has still to call
  recovering     \* start-up recovery has found the publication abandoned

vars == <<jobs, repo, snapshots, artifacts, versions, publications, pipelines, recovering>>

(***************************************************************************)
(* The shape of the state                                                  *)
(***************************************************************************)
Kinds == {"embedding", "graph", "intelligence"}
Whole == {"front", "back"}
Executors == Jobs \X (1..MaxAttempts)

JobRow ==
  [status: {"absent", "queued", "running", "failed", "succeeded"},
   attempt: 0..MaxAttempts, lease: {"none", "live", "lapsed"}]

SnapshotRow ==
  [status: {"none", "building", "published", "failed", "superseded"}, job: Jobs \cup {None}]

VersionRow ==
  [status: {"none", "building", "validating", "published", "failed", "superseded"},
   job: Jobs \cup {None}, content: SUBSET Whole]

\* The calls of executeRepositoryIndexingPipeline, in the order it makes them.
Begins ==
  <<<<"begin", "snapshot">>, <<"begin", "embedding">>,
    <<"begin", "graph">>, <<"begin", "intelligence">>>>

Embeds == <<<<"chunk", "front">>, <<"chunk", "back">>, <<"validate", "embedding">>>>
Builds(kind) == <<<<"stage", kind>>, <<"validate", kind>>>>
Publishes == <<<<"publish", "snapshot">>>>
Collects == <<<<"collect", "snapshot">>, <<"collect", "intelligence">>>>

\* The new snapshot: everything is built, and old ones are collected at the end.
Build ==
  Embeds \o <<<<"stage", "artifacts">>>> \o Builds("graph") \o Builds("intelligence")
    \o Publishes \o Collects

\* The snapshot is there already: what is not published is built again.
Restore(published) ==
  (IF "graph" \in published THEN <<>> ELSE Builds("graph"))
    \o (IF "intelligence" \in published THEN <<>> ELSE Builds("intelligence"))
    \o Embeds \o Publishes

\* Everything is published: it is published again, outside of the try.
Republish == <<<<"republish", "snapshot">>>>

\* The catch block.
Discards ==
  <<<<"discard", "embedding">>, <<"discard", "intelligence">>,
    <<"discard", "graph">>, <<"discard", "snapshot">>>>

Scripts == {Begins, Build, Republish, Discards} \cup {Restore(p) : p \in SUBSET Kinds}

\* What a script comes down to as its calls return.
Rests == UNION {{SubSeq(s, i, Len(s)) : i \in 1..(Len(s) + 1)} : s \in Scripts}

Pipeline ==
  [rev: Revisions \cup {None}, todo: Rests, published: SUBSET (Kinds \cup {"snapshot"})]

TypeOK ==
  /\ jobs \in [Jobs -> JobRow]
  /\ repo \in [current: Revisions \cup {None}, previous: Revisions \cup {None},
               publishing: Revisions \cup {None}]
  /\ snapshots \in [Revisions -> SnapshotRow]
  /\ artifacts \subseteq Revisions
  /\ versions \in [Kinds -> [Revisions -> VersionRow]]
  /\ publications \in [Kinds -> Revisions \cup {None}]
  /\ pipelines \in [Executors -> Pipeline]
  /\ recovering \in BOOLEAN

Ended == [rev |-> None, todo |-> <<>>, published |-> {}]
NoSnapshot == [status |-> "none", job |-> None]
NoVersion == [status |-> "none", job |-> None, content |-> {}]

Init ==
  /\ jobs = [j \in Jobs |-> [status |-> "absent", attempt |-> 0, lease |-> "none"]]
  /\ repo = [current |-> None, previous |-> None, publishing |-> None]
  /\ snapshots = [r \in Revisions |-> NoSnapshot]
  /\ artifacts = {}
  /\ versions = [k \in Kinds |-> [r \in Revisions |-> NoVersion]]
  /\ publications = [k \in Kinds |-> None]
  /\ pipelines = [e \in Executors |-> Ended]
  /\ recovering = FALSE

(***************************************************************************)
(* Predicates of the stored procedures                                     *)
(***************************************************************************)
Active(j) == jobs[j].status \in {"queued", "running"}
NoActiveJob == \A j \in Jobs : ~Active(j)

\* The job is being executed under a lease that has not expired.
Live(j) == j # None /\ jobs[j].status = "running" /\ jobs[j].lease = "live"

\* The fence of every staging and publishing call: the claim holds the job.
Holds(e) == Live(e[1]) /\ jobs[e[1]].attempt = e[2]

\* The fence of the discarding calls: a job that has failed keeps its claim.
MayDiscard(e) ==
  /\ jobs[e[1]].attempt = e[2]
  /\ Live(e[1]) \/ jobs[e[1]].status = "failed"

Rev(e) == pipelines[e].rev
Building(j) == [status |-> "building", job |-> j]
Unfinished(row) == row.status \in {"building", "validating"}

(***************************************************************************)
(* The queue, as far as publication sees it                                *)
(***************************************************************************)
DataUnchanged == UNCHANGED <<repo, snapshots, artifacts, versions, publications>>

SetJob(j, row) ==
  /\ jobs' = [jobs EXCEPT ![j] = row]
  /\ DataUnchanged
  /\ UNCHANGED recovering

QueuedAt(attempt) == [status |-> "queued", attempt |-> attempt, lease |-> "none"]
FailedAt(attempt) == [status |-> "failed", attempt |-> attempt, lease |-> "none"]

\* create_indexing_job: one active job per repository.
RequestJob(j) ==
  /\ jobs[j].status = "absent"
  /\ NoActiveJob
  /\ SetJob(j, QueuedAt(1))
  /\ UNCHANGED pipelines

\* The job is claimed and started, and its pipeline clones the branch.
StartJob(j) ==
  /\ jobs[j].status = "queued"
  /\ Cardinality({e \in Executors : pipelines[e] # Ended}) < MaxPipelines
  /\ \E r \in Revisions :
       pipelines' = [pipelines EXCEPT ![<<j, jobs[j].attempt>>] =
                       [rev |-> r, todo |-> Begins, published |-> {}]]
  /\ SetJob(j, [jobs[j] EXCEPT !.status = "running", !.lease = "live"])

LeaseLapses(j) ==
  /\ Live(j)
  /\ SetJob(j, [jobs[j] EXCEPT !.lease = "lapsed"])
  /\ UNCHANGED pipelines

\* fail_indexing_job.  The pipeline may have ended or been abandoned by its worker.
FailJob(j) ==
  /\ Live(j)
  /\ SetJob(j, FailedAt(jobs[j].attempt))
  /\ UNCHANGED pipelines

\* schedule_indexing_job_retry: the next attempt gives up the claim.
RetryJob(j) ==
  /\ jobs[j].status = "failed"
  /\ jobs[j].attempt < MaxAttempts
  /\ NoActiveJob
  /\ SetJob(j, QueuedAt(jobs[j].attempt + 1))
  /\ UNCHANGED pipelines

\* Mutant of RecoverJob: the attempts are not capped.
RecoverJobUncapped(j) ==
  /\ jobs[j].status = "running"
  /\ jobs[j].lease = "lapsed"
  /\ SetJob(j, QueuedAt(jobs[j].attempt + 1))
  /\ UNCHANGED pipelines

\* recover_stale_indexing_jobs.
RecoverJob(j) ==
  /\ jobs[j].status = "running"
  /\ jobs[j].lease = "lapsed"
  /\ SetJob(j, IF jobs[j].attempt < MaxAttempts
               THEN QueuedAt(jobs[j].attempt + 1) ELSE FailedAt(jobs[j].attempt))
  /\ UNCHANGED pipelines

(***************************************************************************)
(* How a call ends                                                         *)
(***************************************************************************)
Calls(e, call) == pipelines[e].todo # <<>> /\ Head(pipelines[e].todo) = call

Continue(e, todo, published) ==
  pipelines' = [pipelines EXCEPT ![e] =
    IF todo = <<>> THEN Ended ELSE [rev |-> Rev(e), todo |-> todo, published |-> published]]

\* Where an error leads: out of the pipeline from the calls before the try, to the
\* next call from those that are caught one by one, to the discards from the others.
OnError(e) ==
  LET op == pipelines[e].todo[1][1]
  IN IF op \in {"begin", "republish"} THEN <<>>
     ELSE IF op \in {"discard", "collect"} THEN Tail(pipelines[e].todo)
     ELSE Discards

Errs(e) == Continue(e, OnError(e), {})

\* A call that has committed returns, or its answer is lost.
Returns(e) == Continue(e, Tail(pipelines[e].todo), {}) \/ Errs(e)

\* A begin tells whether what it begins is published; the last one decides the script.
Begun(e, part, already) ==
  LET rest == Tail(pipelines[e].todo)
      published == pipelines[e].published \cup (IF already THEN {part} ELSE {})
      script == IF published = Kinds \cup {"snapshot"} THEN Republish
                ELSE IF "snapshot" \in published THEN Restore(published \cap Kinds)
                ELSE Build
  IN \/ IF rest = <<>> THEN Continue(e, script, {}) ELSE Continue(e, rest, published)
     \/ Errs(e)

\* Any call may be refused by the database or not reach it.
CallFails(e) ==
  /\ pipelines[e].todo # <<>>
  /\ Errs(e)
  /\ DataUnchanged
  /\ UNCHANGED <<jobs, recovering>>

\* The process that executes the pipeline stops.
PipelineDies(e) ==
  /\ pipelines[e].todo # <<>>
  /\ pipelines' = [pipelines EXCEPT ![e] = Ended]
  /\ DataUnchanged
  /\ UNCHANGED <<jobs, recovering>>

(***************************************************************************)
(* Begin                                                                   *)
(***************************************************************************)

\* Another revision is being published by a job that is alive.
PublicationInProgress(r) ==
  /\ repo.publishing \notin {None, r}
  /\ snapshots[repo.publishing].status = "building"
  /\ Live(snapshots[repo.publishing].job)

Restorable(r) == snapshots[r].status = "superseded" /\ r \in artifacts

\* Mutant of BeginSnapshot: what another job is building is taken over.
BeginSnapshotTakesOver(e) ==
  LET r == Rev(e)
      j == e[1]
  IN /\ Calls(e, <<"begin", "snapshot">>)
     /\ Holds(e)
     /\ repo.current # r
     /\ ~PublicationInProgress(r)
     /\ repo' = [repo EXCEPT !.publishing = r]
     /\ snapshots' = [snapshots EXCEPT ![r] = Building(j)]
     /\ Begun(e, "snapshot", FALSE)
     /\ UNCHANGED <<jobs, artifacts, versions, publications, recovering>>

\* begin_repository_snapshot.
BeginSnapshot(e) ==
  LET r == Rev(e)
      j == e[1]
  IN /\ Calls(e, <<"begin", "snapshot">>)
     /\ Holds(e)
     /\ \/ /\ repo.current = r
           /\ UNCHANGED <<repo, snapshots>>
           /\ Begun(e, "snapshot", TRUE)
        \/ /\ repo.current # r
           /\ ~PublicationInProgress(r)
           /\ repo' = [repo EXCEPT !.publishing = r]
           /\ \/ /\ Restorable(r)
                 /\ snapshots' = [snapshots EXCEPT ![r] = Building(j)]
                 /\ Begun(e, "snapshot", TRUE)
              \/ /\ ~Restorable(r)
                 /\ snapshots[r].status \in {"none", "failed", "superseded"}
                      \/ snapshots[r] = Building(j)
                 /\ snapshots' = [s \in Revisions |->
                      IF s = r THEN Building(j)
                      ELSE IF snapshots[s] = Building(j)
                      THEN [status |-> "failed", job |-> j] ELSE snapshots[s]]
                 /\ Begun(e, "snapshot", FALSE)
     /\ UNCHANGED <<jobs, artifacts, versions, publications, recovering>>

Published(kind, r) == versions[kind][r].status = "published" /\ publications[kind] = r

\* The rows a version of the kind refers to.
Admitted(kind, r, j) ==
  CASE kind = "embedding" -> snapshots[r].status # "none"
    [] kind = "graph" -> snapshots[r] = Building(j) \/ snapshots[r].status = "published"
    [] kind = "intelligence" ->
         \A k \in {"graph", "embedding"} : versions[k][r].status # "none"

SetVersion(kind, r, row) == versions' = [versions EXCEPT ![kind][r] = row]

\* begin_embedding_index_version, begin_repository_graph_version and
\* begin_repository_intelligence_version: the chunks of an unfinished index are kept.
BeginVersion(e, kind) ==
  LET r == Rev(e)
      j == e[1]
      v == versions[kind][r]
      kept == IF kind = "embedding" /\ v.status \notin {"failed", "superseded"}
              THEN v.content ELSE {}
  IN /\ Calls(e, <<"begin", kind>>)
     /\ Holds(e)
     /\ Admitted(kind, r, j)
     /\ \/ /\ Published(kind, r)
           /\ versions' = versions
           /\ Begun(e, kind, TRUE)
        \/ /\ ~Published(kind, r)
           /\ Unfinished(v) => v.job = j
           /\ SetVersion(kind, r, [status |-> "building", job |-> j, content |-> kept])
           /\ Begun(e, kind, FALSE)
     /\ UNCHANGED <<jobs, repo, snapshots, artifacts, publications, recovering>>

(***************************************************************************)
(* Build and validate                                                      *)
(***************************************************************************)
MayBuild(e, kind) ==
  /\ Holds(e)
  /\ versions[kind][Rev(e)].status = "building"
  /\ versions[kind][Rev(e)].job = e[1]

StagesOnly(e) ==
  /\ Returns(e)
  /\ UNCHANGED <<jobs, repo, snapshots, publications, recovering>>

\* hasChunk and storeChunk: no fence, only the trigger that keeps an index immutable
\* once it is no longer building.
StoreChunk(e, half) ==
  LET v == versions["embedding"][Rev(e)]
  IN /\ Calls(e, <<"chunk", half>>)
     /\ half \in v.content \/ v.status = "building"
     /\ SetVersion("embedding", Rev(e), [v EXCEPT !.content = @ \cup {half}])
     /\ StagesOnly(e)
     /\ UNCHANGED artifacts

\* stage_repository_artifacts.
StageArtifacts(e) ==
  /\ Calls(e, <<"stage", "artifacts">>)
  /\ Holds(e)
  /\ snapshots[Rev(e)] = Building(e[1])
  /\ artifacts' = artifacts \cup {Rev(e)}
  /\ StagesOnly(e)
  /\ UNCHANGED versions

\* stage_repository_graph_version, stage_repository_intelligence_version.
StageVersion(e, kind) ==
  /\ Calls(e, <<"stage", kind>>)
  /\ MayBuild(e, kind)
  /\ SetVersion(kind, Rev(e), [versions[kind][Rev(e)] EXCEPT !.content = Whole])
  /\ StagesOnly(e)
  /\ UNCHANGED artifacts

\* validate_embedding_index_version, validate_repository_graph_version and
\* validate_repository_intelligence_version: a version that is not whole is invalid,
\* and other defects may be found in one that is.
Validate(e, kind) ==
  LET v == versions[kind][Rev(e)]
  IN /\ Calls(e, <<"validate", kind>>)
     /\ MayBuild(e, kind)
     /\ \/ /\ v.content = Whole
           /\ SetVersion(kind, Rev(e), [v EXCEPT !.status = "validating"])
           /\ Returns(e)
        \/ /\ SetVersion(kind, Rev(e), [v EXCEPT !.status = "failed"])
           /\ Errs(e)
     /\ UNCHANGED <<jobs, repo, snapshots, artifacts, publications, recovering>>

(***************************************************************************)
(* Publish                                                                 *)
(***************************************************************************)
Ready(kind, r, j) ==
  (versions[kind][r].status = "validating" /\ versions[kind][r].job = j) \/ Published(kind, r)

\* What moves the repository to another revision.
ReadyToMove(r, j) ==
  /\ repo.publishing = r
  /\ snapshots[r] = Building(j)
  /\ r \in artifacts
  /\ versions["embedding"][r].content = Whole

MoveTo(r) ==
  /\ snapshots' = [s \in Revisions |->
       IF s = r THEN [snapshots[s] EXCEPT !.status = "published"]
       ELSE IF snapshots[s].status = "published" THEN [snapshots[s] EXCEPT !.status = "superseded"]
       ELSE snapshots[s]]
  /\ repo' = [current |-> r, previous |-> repo.current, publishing |-> None]

PublishVersions(r) ==
  /\ versions' = [k \in Kinds |-> [s \in Revisions |->
       IF s = r THEN [versions[k][s] EXCEPT !.status = "published"]
       ELSE IF s = publications[k] THEN [versions[k][s] EXCEPT !.status = "superseded"]
       ELSE versions[k][s]]]
  /\ publications' = [k \in Kinds |-> r]

Succeed(j) == jobs' = [jobs EXCEPT ![j].status = "succeeded", ![j].lease = "none"]

\* Mutant of Publish: without a current revision the comparison is null, and the
\* publication is taken for a repeated one.
PublishFirstAsRepeated(e) ==
  LET r == Rev(e)
  IN /\ Calls(e, <<"publish", "snapshot">>) \/ Calls(e, <<"republish", "snapshot">>)
     /\ Holds(e)
     /\ \A k \in Kinds : Ready(k, r, e[1])
     /\ \/ /\ repo.current \notin {None, r}
           /\ ReadyToMove(r, e[1])
           /\ MoveTo(r)
        \/ /\ repo.current \in {None, r}
           /\ repo' = [repo EXCEPT !.publishing = IF @ = r THEN None ELSE @]
           /\ snapshots' = snapshots
     /\ PublishVersions(r)
     /\ Succeed(e[1])
     /\ Returns(e)
     /\ UNCHANGED <<artifacts, recovering>>

\* publish_repository_snapshot: the versions of every kind, the snapshot, the pointers of
\* the repository and the job in one transaction.
Publish(e) ==
  LET r == Rev(e)
  IN /\ Calls(e, <<"publish", "snapshot">>) \/ Calls(e, <<"republish", "snapshot">>)
     /\ Holds(e)
     /\ \A k \in Kinds : Ready(k, r, e[1])
     /\ versions["graph"][r].content = Whole
     /\ \/ /\ repo.current # r
           /\ ReadyToMove(r, e[1])
           /\ MoveTo(r)
        \/ /\ repo.current = r
           /\ repo' = [repo EXCEPT !.publishing = IF @ = r THEN None ELSE @]
           /\ snapshots' = snapshots
     /\ PublishVersions(r)
     /\ Succeed(e[1])
     /\ Returns(e)
     /\ UNCHANGED <<artifacts, recovering>>

(***************************************************************************)
(* Discard                                                                 *)
(***************************************************************************)

\* What is left of a version the job has built, or of one it finds failed.
GivenUp(v, j, statuses) ==
  IF v.job = j /\ v.status \in statuses THEN [v EXCEPT !.status = "failed"] ELSE v

DiscardsOnly(e) ==
  /\ Returns(e)
  /\ UNCHANGED <<jobs, publications, recovering>>

\* discard_embedding_index_version: the chunks of a failed version go, whoever's it is.
DiscardEmbedding(e) ==
  LET v == GivenUp(versions["embedding"][Rev(e)], e[1], {"building", "validating", "failed"})
  IN /\ Calls(e, <<"discard", "embedding">>)
     /\ MayDiscard(e)
     /\ SetVersion("embedding", Rev(e),
                   IF v.status = "failed" THEN [v EXCEPT !.content = {}] ELSE v)
     /\ DiscardsOnly(e)
     /\ UNCHANGED <<repo, snapshots, artifacts>>

\* fail_repository_intelligence_version: the job is compared, the claim is not.
FailIntelligence(e) ==
  /\ Calls(e, <<"discard", "intelligence">>)
  /\ SetVersion("intelligence", Rev(e),
       GivenUp(versions["intelligence"][Rev(e)], e[1], {"building", "validating"}))
  /\ DiscardsOnly(e)
  /\ UNCHANGED <<repo, snapshots, artifacts>>

\* discard_repository_graph_version: nodes and edges go whoever's they are, unless the
\* trigger refuses, and the call with it.
DiscardGraph(e) ==
  LET v == GivenUp(versions["graph"][Rev(e)], e[1], {"building", "validating", "failed"})
  IN /\ Calls(e, <<"discard", "graph">>)
     /\ MayDiscard(e)
     /\ v.content = {} \/ v.status \in {"building", "failed", "superseded"}
     /\ SetVersion("graph", Rev(e), [v EXCEPT !.content = {}])
     /\ DiscardsOnly(e)
     /\ UNCHANGED <<repo, snapshots, artifacts>>

\* Mutant of DiscardSnapshot: the repository keeps its publishing revision.
DiscardSnapshotOnly(e) ==
  LET r == Rev(e)
      j == e[1]
  IN /\ Calls(e, <<"discard", "snapshot">>)
     /\ MayDiscard(e)
     /\ repo.current # r
     /\ repo.previous # r
     /\ artifacts' = artifacts \ {r}
     /\ snapshots' = [snapshots EXCEPT ![r] =
          IF @ = Building(j) THEN [status |-> "failed", job |-> j] ELSE @]
     /\ UNCHANGED <<repo, versions>>
     /\ DiscardsOnly(e)

\* Mutant of DiscardSnapshot: the previous revision is discarded like any other.
DiscardSnapshotPrevious(e) ==
  LET r == Rev(e)
      j == e[1]
  IN /\ Calls(e, <<"discard", "snapshot">>)
     /\ MayDiscard(e)
     /\ repo.current # r
     /\ SetVersion("embedding", r, [versions["embedding"][r] EXCEPT !.content = {}])
     /\ artifacts' = artifacts \ {r}
     /\ snapshots' = [snapshots EXCEPT ![r] =
          IF @ = Building(j) THEN [status |-> "failed", job |-> j] ELSE @]
     /\ repo' = [repo EXCEPT !.publishing = IF @ = r THEN None ELSE @]
     /\ DiscardsOnly(e)

\* discard_repository_snapshot: the previous revision keeps its artifacts.
DiscardSnapshot(e) ==
  LET r == Rev(e)
      j == e[1]
      v == versions["embedding"][r]
      unbuilt(status) ==
        snapshots' = [snapshots EXCEPT ![r] =
          IF @ = Building(j) THEN [status |-> status, job |-> j] ELSE @]
  IN /\ Calls(e, <<"discard", "snapshot">>)
     /\ MayDiscard(e)
     /\ \/ /\ repo.current = r
           /\ UNCHANGED <<repo, snapshots, artifacts, versions>>
        \/ /\ repo.current # r
           /\ \/ /\ repo.previous = r
                 /\ unbuilt("superseded")
                 /\ UNCHANGED <<artifacts, versions>>
              \/ /\ repo.previous # r
                 /\ v.content = {} \/ v.status # "published"
                 /\ SetVersion("embedding", r, [v EXCEPT !.content = {}])
                 /\ artifacts' = artifacts \ {r}
                 /\ unbuilt("failed")
           /\ repo' = [repo EXCEPT !.publishing = IF @ = r THEN None ELSE @]
     /\ DiscardsOnly(e)

(***************************************************************************)
(* Collect                                                                 *)
(***************************************************************************)

\* The newest rows that have been published, at most `count` of them: which they are is
\* left open, since the times of publication are not kept.
Retained(rows, count) ==
  LET shown == {r \in Revisions : rows[r].status \in {"published", "superseded"}}
  IN {kept \in SUBSET shown :
        Cardinality(kept) = IF Cardinality(shown) < count THEN Cardinality(shown) ELSE count}

\* Mutant of CollectSnapshots: the current revision is trusted to be among the newest.
CollectSnapshotsNewest(e) ==
  /\ Calls(e, <<"collect", "snapshot">>)
  /\ \E kept \in Retained(snapshots, Retention) :
     LET gone == {r \in Revisions \ (kept \cup {repo.previous, repo.publishing}) :
                    snapshots[r].status # "building"}
     IN /\ snapshots' = [r \in Revisions |-> IF r \in gone THEN NoSnapshot ELSE snapshots[r]]
        /\ artifacts' = artifacts \ gone
        /\ versions' = [k \in Kinds |-> [r \in Revisions |->
             IF r \in gone THEN NoVersion ELSE versions[k][r]]]
  /\ Returns(e)
  /\ UNCHANGED <<jobs, repo, publications, recovering>>

\* collect_repository_artifacts; the versions and artifacts of a snapshot go with it.
CollectSnapshots(e) ==
  /\ Calls(e, <<"collect", "snapshot">>)
  /\ \E kept \in Retained(snapshots, Retention) :
       LET pointed == {repo.current, repo.previous, repo.publishing}
           gone == {r \in Revisions \ (kept \cup pointed) : snapshots[r].status # "building"}
       IN /\ snapshots' = [r \in Revisions |-> IF r \in gone THEN NoSnapshot ELSE snapshots[r]]
          /\ artifacts' = artifacts \ gone
          /\ versions' = [k \in Kinds |-> [r \in Revisions |->
               IF r \in gone THEN NoVersion ELSE versions[k][r]]]
  /\ Returns(e)
  /\ UNCHANGED <<jobs, repo, publications, recovering>>

\* collect_repository_intelligence_versions keeps at least two; the version to roll back
\* to is the previous revision's.
CollectIntelligence(e) ==
  /\ Calls(e, <<"collect", "intelligence">>)
  /\ \E kept \in Retained(versions["intelligence"], IF Retention < 2 THEN 2 ELSE Retention) :
       versions' = [versions EXCEPT !["intelligence"] = [r \in Revisions |->
         IF @[r].status \in {"failed", "superseded"}
              /\ r \notin kept \cup {publications["intelligence"], repo.previous}
         THEN NoVersion ELSE @[r]]]
  /\ Returns(e)
  /\ UNCHANGED <<jobs, repo, snapshots, artifacts, publications, recovering>>

(***************************************************************************)
(* The start of the API process                                            *)
(***************************************************************************)

\* Mutant of RecoverVersions: every unfinished version is taken for abandoned.
RecoverVersionsAlive(kind) ==
  /\ versions' = [versions EXCEPT ![kind] = [r \in Revisions |->
       IF Unfinished(@[r]) THEN [@[r] EXCEPT !.status = "failed", !.content = {}] ELSE @[r]]]
  /\ UNCHANGED <<jobs, repo, snapshots, artifacts, publications, pipelines, recovering>>

\* recover_embedding_index_versions, recover_repository_graph_versions and
\* recover_repository_intelligence_versions.
RecoverVersions(kind) ==
  LET abandoned(v) == [v EXCEPT !.status = "failed",
                                !.content = IF kind = "intelligence" THEN v.content ELSE {}]
  IN /\ versions' = [versions EXCEPT ![kind] = [r \in Revisions |->
          IF Unfinished(@[r]) /\ ~Live(@[r].job) THEN abandoned(@[r]) ELSE @[r]]]
     /\ UNCHANGED <<jobs, repo, snapshots, artifacts, publications, pipelines, recovering>>

\* recoverAbandonedRepositoryCheckouts reads the repository and its jobs ...
FindAbandoned ==
  /\ ~recovering
  /\ repo.publishing # None
  /\ NoActiveJob
  /\ recovering' = TRUE
  /\ DataUnchanged
  /\ UNCHANGED <<jobs, pipelines>>

\* ... and calls markFailed, a compare-and-swap on what it has just read again.
MarkAbandonedFailed ==
  /\ recovering
  /\ repo' \in {repo, [repo EXCEPT !.publishing = None]}
  /\ recovering' = FALSE
  /\ UNCHANGED <<jobs, snapshots, artifacts, versions, publications, pipelines>>

(***************************************************************************)
(* The specification                                                       *)
(***************************************************************************)
QueueStep ==
  \E j \in Jobs :
    \/ RequestJob(j) \/ StartJob(j) \/ LeaseLapses(j)
    \/ FailJob(j) \/ RetryJob(j) \/ RecoverJob(j)

PipelineStep(e) ==
  \/ CallFails(e) \/ PipelineDies(e)
  \/ BeginSnapshot(e)
  \/ \E k \in Kinds : BeginVersion(e, k)
  \/ \E half \in Whole : StoreChunk(e, half)
  \/ StageArtifacts(e)
  \/ \E k \in Kinds \ {"embedding"} : StageVersion(e, k)
  \/ \E k \in Kinds : Validate(e, k)
  \/ Publish(e)
  \/ DiscardEmbedding(e) \/ FailIntelligence(e) \/ DiscardGraph(e) \/ DiscardSnapshot(e)
  \/ CollectSnapshots(e) \/ CollectIntelligence(e)

StartUpStep ==
  \/ \E k \in Kinds : RecoverVersions(k)
  \/ FindAbandoned \/ MarkAbandonedFailed

Next == QueueStep \/ (\E e \in Executors : PipelineStep(e)) \/ StartUpStep

Spec == Init /\ [][Next]_vars

(***************************************************************************)
(* Safety                                                                  *)
(***************************************************************************)

\* What readers are shown is whole: the current revision has a published snapshot, its
\* artifacts, and a published version of every kind with all its content; and the
\* contract that start-up verifies holds, each publication is of the current revision
\* (publish_repository_snapshot, verify_repository_graph_contract).
CurrentIsComplete ==
  LET r == repo.current
  IN /\ \A k \in Kinds : publications[k] = r
     /\ r # None =>
          /\ snapshots[r].status = "published"
          /\ r \in artifacts
          /\ \A k \in Kinds : versions[k][r].status = "published" /\ versions[k][r].content = Whole

\* A publishing revision is never the current one, and its snapshot is being built: the
\* fence of begin_repository_snapshot never rests on a build that has been given up.
PublishingIsBuilt ==
  repo.publishing # None =>
    /\ repo.publishing # repo.current
    /\ snapshots[repo.publishing].status = "building"

\* The revision a roll-back would return to keeps its snapshot and its artifacts through
\* failed attempts to publish it again and through collection (discard_repository_snapshot,
\* collect_repository_artifacts).  Its snapshot can be taken up again as it is, or is being,
\* unless a job that had begun it was tried again and then began another revision, which
\* fails what the job was building before (begin_repository_snapshot).
PreviousIsRestorable ==
  repo.previous # None =>
    /\ repo.previous # repo.current
    /\ repo.previous \in artifacts
    /\ LET row == snapshots[repo.previous] IN
         \/ row.status \in {"superseded", "building"}
         \/ row.status = "failed" /\ jobs[row.job].attempt > 1

\* An executor that holds its lease and has not given up finds what it has built: no step
\* of another executor, of the queue or of recovery takes its snapshot, its artifacts, its
\* chunks or its graph.  The intelligence is left out: fail_repository_intelligence_version
\* lets an earlier attempt of the same job fail it.
LiveBuildIsKept ==
  [][\A e \in Executors :
       LET r == Rev(e)
           building == pipelines[e].todo # <<>> /\ pipelines[e].todo[1][1] \notin {"begin", "discard"}
       IN building /\ Holds(e) /\ Holds(e)' /\ pipelines'[e] = pipelines[e] =>
            /\ snapshots'[r] = snapshots[r]
            /\ r \in artifacts => r \in artifacts'
            /\ \A k \in {"embedding", "graph"} :
                 /\ versions'[k][r].status = versions[k][r].status
                 /\ versions[k][r].content \subseteq versions'[k][r].content]_vars

\* revisionCheckouts.ts:106, "abandoned_publication_recovered": with no job, no pipeline
\* and no publishing revision left, nothing is still being built.
AbandonedBuildsAreReleased ==
  NoActiveJob /\ (\A e \in Executors : pipelines[e] = Ended) /\ repo.publishing = None =>
    \A r \in Revisions : snapshots[r].status # "building"
=============================================================================
