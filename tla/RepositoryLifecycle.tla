------------------------- MODULE RepositoryLifecycle -------------------------
(***************************************************************************)
(* The life of one repository, of one owner, in the Postgres store: it is   *)
(* connected, indexed, deleted and connected again, while workers write and *)
(* collect its checkouts on disk and a deletion whose files could not be    *)
(* removed is repeated by later requests and at the start of the backend.   *)
(*                                                                          *)
(* IndexingJobs and SnapshotPublication have the queue and the rows of a    *)
(* publication in full; here a job is claimed once, and a worker loses its  *)
(* claim when the job is deleted.                                           *)
(***************************************************************************)
EXTENDS Naturals, FiniteSets

CONSTANTS
  Requests,   \* requests that delete the repository
  Workers,
  Revisions,  \* commits the branch may point to when it is cloned
  Retention,  \* REPOSITORY_CHECKOUT_RETENTION_COUNT
  MaxJobs,    \* bound: jobs that are created
  Crashes,    \* bound: crashes of the backend
  None

LifecycleAssumption ==
  /\ Retention \in Nat \ {0} /\ MaxJobs \in Nat /\ Crashes \in Nat
  /\ None \notin Revisions \union Workers

\* One more actor: the recovery of pending cleanups when the backend starts.
Startup == "startup"
Cleaners == Requests \union {Startup}

VARIABLES
  repository,  \* its row; life numbers the rows, 0 is no row
  lives,       \* rows there have been
  job,         \* its active job: no row, queued or running for a worker
  jobs,        \* jobs there have been
  key,         \* the life of the idempotency record of a connection, 0 if none
  tombstone,
  disk,        \* revisions with a checkout
  cleaner,     \* what each cleaner is at
  worker,      \* what each worker is at
  crashes

vars == <<repository, lives, job, jobs, key, tombstone, disk, cleaner, worker, crashes>>
database == <<repository, lives, job, jobs, key, tombstone>>

Row == [life: 0..MaxJobs, version: Nat,
        current: Revisions \union {None}, previous: Revisions \union {None},
        publishing: Revisions \union {None}]
NoRow == [life |-> 0, version |-> 0, current |-> None, previous |-> None, publishing |-> None]
NoJob == [id |-> 0, worker |-> None]
AtRest == [at |-> "rest", seen |-> NoRow]
Idle == [at |-> "idle", job |-> 0, life |-> 0, revision |-> None]

TypeOK ==
  /\ repository \in Row
  /\ lives \in 0..MaxJobs /\ jobs \in 0..MaxJobs
  /\ job \in [id: 0..MaxJobs, worker: Workers \union {None}]
  /\ key \in 0..MaxJobs
  /\ tombstone \in {"none", "pending", "done"}
  /\ disk \subseteq Revisions
  /\ cleaner \in [Cleaners -> [at: {"rest", "deciding", "cleaning", "cleaned", "uncleaned",
                                    "answered", "refused"}, seen: Row]]
  /\ worker \in [Workers -> [at: {"idle", "cloning", "cloned", "reused", "building", "sealed", "collecting",
                                  "sweeping", "failing", "removing", "failed"},
                             job: 0..MaxJobs, life: 0..MaxJobs, revision: Revisions \union {None}]]
  /\ crashes \in 0..Crashes

Init ==
  /\ repository = NoRow /\ lives = 0
  /\ job = NoJob /\ jobs = 0
  /\ key = 0
  /\ tombstone = "none"
  /\ disk = {}
  /\ cleaner = [c \in Cleaners |-> AtRest]
  /\ worker = [w \in Workers |-> Idle]
  /\ crashes = 0

Serving == cleaner[Startup].at = "rest"
Bumped(row) == [row EXCEPT !.version = @ + 1]

-----------------------------------------------------------------------------
(* Connection and indexing *)

\* Under a new idempotency key.  A connection that finds an active job is
\* answered with it and changes nothing else that is modelled here.
Connect ==
  /\ Serving
  /\ job.id = 0 /\ jobs < MaxJobs
  /\ IF repository.life = 0
     THEN /\ repository' = [NoRow EXCEPT !.life = lives + 1, !.version = 1]
          /\ lives' = lives + 1
     ELSE /\ repository' = Bumped(repository)
          /\ UNCHANGED lives
  /\ jobs' = jobs + 1
  /\ job' = [id |-> jobs + 1, worker |-> None]
  /\ key' = repository'.life
  /\ UNCHANGED <<tombstone, disk, cleaner, worker, crashes>>

Claim(w) ==
  /\ worker[w].at = "idle"
  /\ job.id # 0 /\ job.worker = None
  /\ job' = [job EXCEPT !.worker = w]
  /\ \E r \in Revisions:
       worker' = [worker EXCEPT ![w] = [at |-> "cloning", job |-> job.id,
                                        life |-> repository.life, revision |-> r]]
  /\ UNCHANGED <<repository, lives, jobs, key, tombstone, disk, cleaner, crashes>>

Goes(w, to) == worker' = [worker EXCEPT ![w].at = to]
Claimed(w) == job = [id |-> worker[w].job, worker |-> w]

\* A checkout that is already there is used as it is, however old.
Clone(w) ==
  /\ worker[w].at = "cloning"
  /\ disk' = disk \union {worker[w].revision}
  /\ Goes(w, IF worker[w].revision \in disk THEN "reused" ELSE "cloned")
  /\ UNCHANGED <<database, cleaner, crashes>>

\* The revision is made the one that is published, unless it is current.
Begin(w) ==
  /\ worker[w].at \in {"cloned", "reused"}
  /\ Claimed(w)
  /\ repository' = IF repository.current = worker[w].revision THEN repository
                   ELSE Bumped([repository EXCEPT !.publishing = worker[w].revision])
  /\ Goes(w, "building")
  /\ UNCHANGED <<lives, job, jobs, key, tombstone, disk, cleaner, crashes>>

\* The build is complete when the checkout has been sealed.  (A revision all
\* of whose parts were published before needs no build; it is taken as one.)
Seal(w) ==
  /\ worker[w].at = "building"
  /\ worker[w].revision \in disk
  /\ Goes(w, "sealed")
  /\ UNCHANGED <<database, disk, cleaner, crashes>>

Published(row, r) ==
  Bumped(IF row.current = r THEN [row EXCEPT !.publishing = None]
         ELSE [row EXCEPT !.current = r, !.previous = row.current, !.publishing = None])

\* mutant: whichever job is active is taken for the worker's
PublishUnfenced(w) ==
  /\ worker[w].at = "sealed"
  /\ job.id # 0 /\ repository.life # 0
  /\ repository' = Published(repository, worker[w].revision)
  /\ job' = NoJob
  /\ Goes(w, "collecting")
  /\ UNCHANGED <<lives, jobs, key, tombstone, disk, cleaner, crashes>>
Publish(w) ==
  /\ worker[w].at = "sealed"
  /\ Claimed(w)
  /\ repository' = Published(repository, worker[w].revision)
  /\ job' = NoJob
  /\ Goes(w, "collecting")
  /\ UNCHANGED <<lives, jobs, key, tombstone, disk, cleaner, crashes>>

\* Any step fails when the claim is lost, and may fail by itself.
Fail(w) ==
  /\ worker[w].at \in {"cloning", "cloned", "reused", "building", "sealed"}
  /\ repository' = IF Claimed(w) /\ repository.publishing = worker[w].revision
                    THEN Bumped([repository EXCEPT !.publishing = None]) ELSE repository
  /\ Goes(w, IF worker[w].at = "cloning" THEN "failed" ELSE "failing")
  /\ UNCHANGED <<lives, job, jobs, key, tombstone, disk, cleaner, crashes>>

Protected == {repository.current, repository.previous, repository.publishing}

\* mutant: the checkout goes without a look at the row
DiscardAny(w) ==
  /\ worker[w].at = "failing"
  /\ Goes(w, "removing")
  /\ UNCHANGED <<database, disk, cleaner, crashes>>
\* The failed build's checkout, unless the row needs it or there is no row.
Discard(w) ==
  /\ worker[w].at = "failing"
  /\ IF repository.life # 0 /\ worker[w].revision \in disk \ Protected
     THEN Goes(w, "removing") ELSE Goes(w, "failed")
  /\ UNCHANGED <<database, disk, cleaner, crashes>>

\* Only then is the job failed.
FailJob(w) ==
  /\ worker[w].at = "failed"
  /\ job' = IF Claimed(w) THEN NoJob ELSE job
  /\ worker' = [worker EXCEPT ![w] = Idle]
  /\ UNCHANGED <<repository, lives, jobs, key, tombstone, disk, cleaner, crashes>>

\* After its job, a worker looks for old checkouts beyond the number that is
\* retained.  One that has just been cloned is not old.
Young == {worker[v].revision : v \in {u \in Workers : worker[u].at = "cloned"}}
Collect(w) ==
  /\ worker[w].at = "collecting"
  /\ \/ worker' = [worker EXCEPT ![w] = Idle]
     \/ /\ repository.life # 0
        /\ Cardinality(disk \union (Protected \ {None})) > Retention
        /\ \E r \in disk \ (Protected \union Young):
             worker' = [worker EXCEPT ![w].at = "sweeping", ![w].revision = r]
  /\ UNCHANGED <<database, disk, cleaner, crashes>>

Remove(w) ==
  /\ worker[w].at \in {"sweeping", "removing"}
  /\ disk' = disk \ {worker[w].revision}
  /\ Goes(w, IF worker[w].at = "sweeping" THEN "collecting" ELSE "failed")
  /\ UNCHANGED <<database, cleaner, crashes>>

-----------------------------------------------------------------------------
(* Deletion *)

Stands(c, at) == cleaner' = [cleaner EXCEPT ![c].at = at]

\* The route looks for a tombstone first, and reads the row if there is none.
Ask(q) ==
  /\ Serving /\ cleaner[q].at = "rest"
  /\ cleaner' = [cleaner EXCEPT ![q] =
       [at |-> CASE tombstone = "pending" -> "cleaning"
                 [] tombstone = "done" -> "answered"
                 [] OTHER -> IF repository.life = 0 THEN "refused" ELSE "deciding",
        seen |-> repository]]
  /\ UNCHANGED <<database, disk, worker, crashes>>

\* mutant: the version that was read is not compared
DeleteAny(q) ==
  /\ cleaner[q].at = "deciding" /\ tombstone = "none" /\ repository.life # 0
  /\ repository' = NoRow
  /\ job' = NoJob
  /\ key' = 0
  /\ tombstone' = "pending"
  /\ Stands(q, "cleaning")
  /\ UNCHANGED <<lives, jobs, disk, worker, crashes>>
\* mutant: the records of connections stay
DeleteRow(q) ==
  /\ cleaner[q].at = "deciding" /\ tombstone = "none"
  /\ repository.life # 0 /\ repository.version = cleaner[q].seen.version
  /\ repository' = NoRow
  /\ job' = NoJob
  /\ tombstone' = "pending"
  /\ Stands(q, "cleaning")
  /\ UNCHANGED <<lives, jobs, key, disk, worker, crashes>>
\* The transaction: the row of the version that was read, its jobs and, with
\* them, the records of its connections.
Delete(q) ==
  /\ cleaner[q].at = "deciding" /\ tombstone = "none"
  /\ repository.life # 0 /\ repository.version = cleaner[q].seen.version
  /\ repository' = NoRow
  /\ job' = NoJob
  /\ key' = 0
  /\ tombstone' = "pending"
  /\ Stands(q, "cleaning")
  /\ UNCHANGED <<lives, jobs, disk, worker, crashes>>

DeleteRefused(q) ==
  /\ cleaner[q].at = "deciding" /\ tombstone = "none"
  /\ repository.version # cleaner[q].seen.version
  /\ Stands(q, "refused")
  /\ UNCHANGED <<database, disk, worker, crashes>>

\* Another request was first: the service found its tombstone, or the
\* transaction did and cleans whatever its state is.
DeleteRepeated(q) ==
  /\ cleaner[q].at = "deciding" /\ tombstone # "none"
  /\ \/ Stands(q, "cleaning")
     \/ tombstone = "done" /\ Stands(q, "answered")
  /\ UNCHANGED <<database, disk, worker, crashes>>

\* The removal of every checkout may fail on its way.
Clean(c) ==
  /\ cleaner[c].at = "cleaning"
  /\ disk' \in SUBSET disk
  /\ \/ disk' = {} /\ Stands(c, "cleaned")
     \/ Stands(c, "uncleaned")
  /\ UNCHANGED <<database, worker, crashes>>

\* The result is recorded, or that fails too.
Record(c) ==
  /\ cleaner[c].at \in {"cleaned", "uncleaned"}
  /\ tombstone' \in {tombstone, IF cleaner[c].at = "cleaned" THEN "done" ELSE "pending"}
  /\ IF c = Startup THEN cleaner' = [cleaner EXCEPT ![c] = AtRest] ELSE Stands(c, "answered")
  /\ UNCHANGED <<repository, lives, job, jobs, key, disk, worker, crashes>>

\* mutant: the bound is passed
RestartOn ==
  /\ crashes <= Crashes
  /\ crashes' = crashes + 1
  /\ UNCHANGED <<database, disk, worker, cleaner>>
\* The backend stops and starts: its requests are lost, and what is pending
\* is cleaned before it serves.
Restart ==
  /\ crashes < Crashes
  /\ crashes' = crashes + 1
  /\ cleaner' = [c \in Cleaners |->
       IF c = Startup THEN IF tombstone = "pending" THEN [AtRest EXCEPT !.at = "cleaning"] ELSE AtRest
       ELSE IF cleaner[c].at = "rest" THEN AtRest ELSE [cleaner[c] EXCEPT !.at = "refused"]]
  /\ UNCHANGED <<database, disk, worker>>

Next ==
  \/ Connect \/ Restart
  \/ \E w \in Workers: Claim(w) \/ Clone(w) \/ Begin(w) \/ Seal(w) \/ Publish(w) \/ Fail(w)
                       \/ Discard(w) \/ Remove(w) \/ FailJob(w) \/ Collect(w)
  \/ \E q \in Requests: Ask(q) \/ Delete(q) \/ DeleteRefused(q) \/ DeleteRepeated(q)
  \/ \E c \in Cleaners: Clean(c) \/ Record(c)
Spec == Init /\ [][Next]_vars

-----------------------------------------------------------------------------
(* A worker of a repository that has been deleted publishes nothing into    *)
(* the one that was connected after it (publish_repository_snapshot).       *)
PublishesIntoItsLife ==
  \A w \in Workers:
    worker[w].at = "sealed" /\ worker'[w].at = "collecting" => worker[w].life = repository.life

(* A deletion takes no publication away that its request has not seen       *)
(* (delete_repository_transactionally).                                     *)
DeletesWhatItSaw ==
  \A q \in Requests:
    cleaner[q].at = "deciding" /\ repository.life # 0 /\ repository'.life = 0
      /\ cleaner'[q].at = "cleaning"
    => repository.current = cleaner[q].seen.current

(* A connection is answered again for as long as the repository it          *)
(* connected exists, and for no other one                                   *)
(* (connect_repository_idempotently).                                       *)
AnsweredAgainIsConnected == key # 0 => key = repository.life

(* A build that fails takes the published checkout of its repository's life *)
(* away in no interleaving: that is left to the cleanup of a deletion, to   *)
(* what a worker of an earlier life still removes, and to a collector that  *)
(* chose the checkout before it was published                               *)
(* (removeUnpublishedRepositoryCheckout).                                   *)
KeepsPublished ==
  repository.current \in disk /\ repository.current \notin disk' =>
    \/ \E c \in Cleaners: cleaner[c].at = "cleaning"
    \/ \E w \in Workers: /\ worker[w].revision = repository.current
                         /\ worker[w].at = "sweeping" \/ worker[w].life # repository.life

(* Where nothing is deleted and all checkouts are retained, the published   *)
(* one is in its place whatever builds fail                                 *)
(* (removeUnpublishedRepositoryCheckout).  A checkout that is collected may *)
(* have been published since its worker looked at the row.                  *)
PublishedStays ==
  IsFiniteSet(Revisions) /\ Cardinality(Revisions) <= Retention /\ tombstone = "none"
  => {repository.current} \subseteq disk \union {None}
=============================================================================
