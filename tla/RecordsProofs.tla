---------------------------- MODULE RecordsProofs ----------------------------
(***************************************************************************)
(* What the run of MCRecords checks of its parts, as theorems of the whole  *)
(* specification, for every value of its constants.  Every part has an      *)
(* inductive invariant of its own, proved of the part's module as it is     *)
(* instantiated there; the steps of one part leave the others as they are.  *)
(* What ChatSessionsProofs shows of every step of a chat is cited.          *)
(***************************************************************************)
EXTENDS FiniteSetTheorems, SequenceTheorems, WellFoundedInduction, TLAPS, MCRecords

-----------------------------------------------------------------------------
(* The repository's life.                                                   *)

Busy == {"cloning", "cloned", "reused", "building", "sealed", "failing", "removing", "failed"}
ClaimedBy(w) == job = [id |-> worker[w].job, worker |-> w]

\* Lives and jobs are counted, and there is one life before the first deletion.
LivesInv ==
  /\ lives <= jobs /\ repository.life <= lives /\ job.id <= jobs
  /\ repository.life = 0 => repository.version = 0 /\ job.id = 0
  /\ tombstone = "none" => repository.life = lives /\ lives <= 1
  /\ key # 0 => key = repository.life

\* The claim a worker holds is of the life there is, and it holds it until its
\* job ends if nothing is deleted.
ClaimsInv ==
  \A w \in Firsts :
    /\ worker[w].job <= jobs
    /\ worker[w].at # "idle" => worker[w].job # 0 /\ worker[w].revision \in Seconds
    /\ ClaimedBy(w) /\ worker[w].at # "idle" => worker[w].life = repository.life
    /\ tombstone = "none" /\ worker[w].at \in Busy => ClaimedBy(w)

\* What a request has seen is the row as it is, or an older version of it.
SeenInv(deleters) ==
  \A c \in deleters \union {"startup"} :
    /\ cleaner[c].at \in {"cleaning", "cleaned", "uncleaned"} => tombstone # "none"
    /\ tombstone = "none" /\ cleaner[c].at = "deciding" =>
         /\ cleaner[c].seen.version <= repository.version
         /\ cleaner[c].seen.version = repository.version =>
              cleaner[c].seen.current = repository.current

\* No checkout is collected, and what a failed build takes away is not published.
CheckoutsInv(k) ==
  IsFiniteSet(Seconds) /\ Cardinality(Seconds) <= k =>
    /\ \A w \in Firsts : worker[w].at # "sweeping"
    /\ tombstone = "none" =>
         /\ repository.current \in disk \union {None}
         /\ \A w \in Firsts :
              /\ worker[w].at = "sealed" => worker[w].revision \in disk
              /\ worker[w].at = "removing" => worker[w].revision # repository.current

\* Whatever is deleted: a worker at a build of the life there is has the claim
\* of it, so nothing else is published before it has removed what it failed with.
KeptInv ==
  \A w \in Firsts :
    /\ worker[w].at # "idle" => worker[w].life # 0 /\ worker[w].life <= lives
    /\ worker[w].at \in Busy /\ worker[w].life = repository.life => ClaimedBy(w)
    /\ worker[w].at = "removing" /\ worker[w].life = repository.life =>
         worker[w].revision # repository.current

RepositoryRow == [life: 0..MaxJobs, version: Nat, current: Seconds \union {None},
                  previous: Seconds \union {None}, publishing: Seconds \union {None}]
WorkerState ==
  [at: Busy \union {"idle", "collecting", "sweeping"},
   job: 0..MaxJobs, life: 0..MaxJobs, revision: Seconds \union {None}]
CleanerState ==
  [at: {"rest", "deciding", "cleaning", "cleaned", "uncleaned", "answered", "refused"},
   seen: RepositoryRow]
LifecycleKinds(deleters, crashing) ==
  /\ repository \in RepositoryRow
  /\ lives \in 0..MaxJobs /\ jobs \in 0..MaxJobs
  /\ job \in [id: 0..MaxJobs, worker: Firsts \union {None}]
  /\ key \in 0..MaxJobs
  /\ tombstone \in {"none", "pending", "done"}
  /\ disk \subseteq Seconds
  /\ cleaner \in [deleters \union {"startup"} -> CleanerState]
  /\ worker \in [Firsts -> WorkerState]
  /\ crashes \in 0..crashing

LifecycleInv(deleters, keeping, crashing) ==
  /\ LifecycleKinds(deleters, crashing)
  /\ LivesInv /\ ClaimsInv /\ SeenInv(deleters) /\ CheckoutsInv(keeping)

LEMMA LifecycleKindsAre ==
  ASSUME NEW Q, NEW k, NEW n
  PROVE  Lifecycle(Q, k, n)!TypeOK <=> LifecycleKinds(Q, n)
BY DEF Lifecycle!TypeOK, LifecycleKinds, Lifecycle!Row, Lifecycle!Cleaners, Lifecycle!Startup,
  RepositoryRow, WorkerState, CleanerState, Busy

LEMMA LifecycleBegins ==
  ASSUME NEW Q, NEW k, NEW n, Lifecycle(Q, k, n)!LifecycleAssumption, Lifecycle(Q, k, n)!Init
  PROVE  LifecycleInv(Q, k, n)
<1>1. MaxJobs \in Nat /\ n \in Nat /\ 0 \in 0..MaxJobs /\ 0 \in 0..n
  BY DEF Lifecycle!LifecycleAssumption
<1>2. LifecycleKinds(Q, n)
  <2>1. Lifecycle(Q, k, n)!TypeOK
    BY <1>1 DEF Lifecycle!Init, Lifecycle!TypeOK, Lifecycle!NoRow, Lifecycle!NoJob,
      Lifecycle!AtRest, Lifecycle!Idle, Lifecycle!Row, Lifecycle!Cleaners, Lifecycle!Startup
  <2> QED
    BY <2>1, LifecycleKindsAre
<1>3. LivesInv
  BY <1>1 DEF Lifecycle!Init, LivesInv, Lifecycle!NoRow, Lifecycle!NoJob
<1>4. ClaimsInv
  BY <1>1 DEF Lifecycle!Init, ClaimsInv, Busy, Lifecycle!Idle
<1>5. SeenInv(Q)
  BY <1>1 DEF Lifecycle!Init, SeenInv, Lifecycle!AtRest, Lifecycle!Cleaners, Lifecycle!Startup
<1>6. CheckoutsInv(k)
  BY <1>1 DEF Lifecycle!Init, CheckoutsInv, Lifecycle!Idle, Lifecycle!NoRow
<1> QED
  BY <1>2, <1>3, <1>4, <1>5, <1>6 DEF LifecycleInv

Moved(w, to, r) ==
  worker' = [worker EXCEPT ![w] = [at |-> to, job |-> worker[w].job, life |-> worker[w].life,
                                   revision |-> r]]

LEMMA GoesMoves ==
  ASSUME NEW Q, NEW k, NEW n, LifecycleKinds(Q, n), NEW w \in Firsts, NEW to
  PROVE  /\ Lifecycle(Q, k, n)!Goes(w, to) => Moved(w, to, worker[w].revision)
         /\ \A r : worker' = [worker EXCEPT ![w].at = to, ![w].revision = r] => Moved(w, to, r)
<1>1. /\ worker \in [Firsts -> WorkerState] /\ worker[w] \in WorkerState
      /\ worker[w] = [at |-> worker[w].at, job |-> worker[w].job, life |-> worker[w].life,
                      revision |-> worker[w].revision]
  BY DEF LifecycleKinds, WorkerState
<1>2. Lifecycle(Q, k, n)!Goes(w, to) => Moved(w, to, worker[w].revision)
  BY <1>1 DEF Lifecycle!Goes, Moved
<1>3. ASSUME NEW r, worker' = [worker EXCEPT ![w].at = to, ![w].revision = r]
      PROVE  Moved(w, to, r)
  <2> DEFINE x == worker[w]
             y == [x EXCEPT !.at = to, !.revision = r]
  <2>2. worker' = [worker EXCEPT ![w] = y]
    BY <1>1, <1>3
  <2>3. x = [at |-> x.at, job |-> x.job, life |-> x.life, revision |-> x.revision]
    BY <1>1
  <2> HIDE DEF x, y
  <2>4. y = [x EXCEPT !.at = to, !.revision = r]
    BY DEF y
  <2>5. y = [at |-> to, job |-> x.job, life |-> x.life, revision |-> r]
    BY <2>3, <2>4
  <2> QED
    BY <2>2, <2>5 DEF Moved, x
<1> QED
  BY <1>2, <1>3

\* A step of a worker that leaves the row and its job alone.
LEMMA WorkerGoes ==
  ASSUME NEW Q, NEW k, NEW n, LifecycleInv(Q, k, n),
         NEW w \in Firsts, NEW to \in Busy \union {"collecting", "sweeping"},
         NEW r \in Seconds,
         worker[w].at \in Busy \/ to \notin Busy,
         worker[w].at # "idle",
         Moved(w, to, r), disk' \subseteq Seconds,
         UNCHANGED <<repository, lives, job, jobs, key, tombstone, cleaner, crashes>>
  PROVE  LifecycleKinds(Q, n)' /\ LivesInv' /\ ClaimsInv' /\ SeenInv(Q)'
<1>0. LifecycleKinds(Q, n) /\ LivesInv /\ ClaimsInv /\ SeenInv(Q)
  BY DEF LifecycleInv
<1>1. worker' \in [Firsts -> WorkerState]
  BY <1>0 DEF LifecycleKinds, WorkerState, Moved
<1>2. LifecycleKinds(Q, n)'
  BY <1>0, <1>1 DEF LifecycleKinds
<1>3. LivesInv' /\ SeenInv(Q)'
  BY <1>0 DEF LivesInv, SeenInv
<1>4. ClaimsInv'
  BY <1>0 DEF ClaimsInv, LifecycleKinds, ClaimedBy, WorkerState, Moved
<1> QED
  BY <1>2, <1>3, <1>4

\* What a worker does to files leaves the published ones, if none is collected.
LEMMA LifecycleWorks ==
  ASSUME NEW Q, NEW k, NEW n, Lifecycle(Q, k, n)!LifecycleAssumption, LifecycleInv(Q, k, n), NEW w \in Firsts,
         \/ Lifecycle(Q, k, n)!Clone(w) \/ Lifecycle(Q, k, n)!Seal(w) \/ Lifecycle(Q, k, n)!Discard(w)
         \/ Lifecycle(Q, k, n)!Remove(w) \/ Lifecycle(Q, k, n)!Collect(w)
  PROVE  LifecycleInv(Q, k, n)'
<1>0. /\ LifecycleKinds(Q, n) /\ LivesInv /\ ClaimsInv /\ SeenInv(Q) /\ CheckoutsInv(k)
      /\ worker \in [Firsts -> WorkerState] /\ worker[w] \in WorkerState
      /\ worker[w].at # "idle" => worker[w].revision \in Seconds
      /\ disk \subseteq Seconds
      /\ repository.current \in Seconds \union {None} /\ None \notin Seconds
  BY DEF LifecycleInv, LifecycleKinds, WorkerState, RepositoryRow, Lifecycle!LifecycleAssumption,
         ClaimsInv
<1>1. ASSUME NEW to \in Busy \union {"collecting", "sweeping"}, NEW r \in Seconds,
             worker[w].at \in Busy \/ to \notin Busy,
             worker[w].at # "idle",
             Moved(w, to, r), disk' \subseteq Seconds,
             UNCHANGED <<repository, lives, job, jobs, key, tombstone, cleaner, crashes>>,
             CheckoutsInv(k)'
      PROVE  LifecycleInv(Q, k, n)'
  BY <1>1, WorkerGoes DEF LifecycleInv
<1>2. ASSUME NEW to, NEW r, Moved(w, to, r)
      PROVE  /\ worker'[w].at = to /\ worker'[w].revision = r
             /\ \A v \in Firsts : v # w => worker'[v] = worker[v]
  BY <1>0, <1>2 DEF Moved
<1>3. CASE Lifecycle(Q, k, n)!Clone(w)
  <2> DEFINE to == IF worker[w].revision \in disk THEN "reused" ELSE "cloned"
  <2>1. to \in {"reused", "cloned"} /\ Moved(w, to, worker[w].revision)
    BY <1>0, <1>3, GoesMoves DEF Lifecycle!Clone
  <2> HIDE DEF to
  <2>2. /\ worker[w].at = "cloning" /\ disk' = disk \union {worker[w].revision}
        /\ UNCHANGED <<repository, lives, job, jobs, key, tombstone, cleaner, crashes>>
    BY <1>3 DEF Lifecycle!Clone, Lifecycle!database
  <2>3. CheckoutsInv(k)'
    BY <1>0, <1>2, <2>1, <2>2 DEF CheckoutsInv
  <2> QED
    BY <1>0, <1>1, <2>1, <2>2, <2>3 DEF Busy
<1>4. CASE Lifecycle(Q, k, n)!Seal(w)
  <2>1. Moved(w, "sealed", worker[w].revision)
    BY <1>0, <1>4, GoesMoves DEF Lifecycle!Seal
  <2>2. /\ worker[w].at = "building" /\ worker[w].revision \in disk
        /\ UNCHANGED <<repository, lives, job, jobs, key, tombstone, cleaner, crashes, disk>>
    BY <1>4 DEF Lifecycle!Seal, Lifecycle!database
  <2>3. CheckoutsInv(k)'
    BY <1>0, <1>2, <2>1, <2>2 DEF CheckoutsInv
  <2> QED
    BY <1>0, <1>1, <2>1, <2>2, <2>3 DEF Busy
<1>5. CASE Lifecycle(Q, k, n)!Discard(w)
  <2>1. PICK to \in {"removing", "failed"} :
          /\ Moved(w, to, worker[w].revision)
          /\ to = "removing" => worker[w].revision # repository.current
    BY <1>0, <1>5, GoesMoves DEF Lifecycle!Discard, Lifecycle!Protected
  <2>2. /\ worker[w].at = "failing"
        /\ UNCHANGED <<repository, lives, job, jobs, key, tombstone, cleaner, crashes, disk>>
    BY <1>5 DEF Lifecycle!Discard, Lifecycle!database
  <2>3. CheckoutsInv(k)'
    BY <1>0, <1>2, <2>1, <2>2 DEF CheckoutsInv
  <2> QED
    BY <1>0, <1>1, <2>1, <2>2, <2>3 DEF Busy
<1>6. CASE Lifecycle(Q, k, n)!Remove(w)
  <2> DEFINE to == IF worker[w].at = "sweeping" THEN "collecting" ELSE "failed"
  <2>1. to \in {"collecting", "failed"} /\ Moved(w, to, worker[w].revision)
    BY <1>0, <1>6, GoesMoves DEF Lifecycle!Remove
  <2>2. /\ worker[w].at \in {"sweeping", "removing"} /\ disk' = disk \ {worker[w].revision}
        /\ UNCHANGED <<repository, lives, job, jobs, key, tombstone, cleaner, crashes>>
        /\ to = "failed" => worker[w].at = "removing"
    BY <1>6 DEF Lifecycle!Remove, Lifecycle!database
  <2> HIDE DEF to
  <2>3. ASSUME tombstone = "none", worker[w].at = "removing",
               NEW v \in Firsts, worker[v].at = "sealed"
        PROVE  FALSE
    BY <1>0, <2>3 DEF ClaimsInv, ClaimedBy, Busy
  <2>4. CheckoutsInv(k)'
    BY <1>0, <1>2, <2>1, <2>2, <2>3 DEF CheckoutsInv
  <2> QED
    BY <1>0, <1>1, <2>1, <2>2, <2>4 DEF Busy
<1>7. CASE Lifecycle(Q, k, n)!Collect(w)
  <2>1. /\ worker[w].at = "collecting"
        /\ UNCHANGED <<repository, lives, job, jobs, key, tombstone, cleaner, crashes, disk>>
    BY <1>7 DEF Lifecycle!Collect, Lifecycle!database
  <2>2. CASE worker' = [worker EXCEPT ![w] = Lifecycle(Q, k, n)!Idle]
    <3>1. LifecycleKinds(Q, n)'
      <4>1. Lifecycle(Q, k, n)!Idle \in WorkerState
        BY DEF WorkerState, Lifecycle!Idle, Lifecycle!LifecycleAssumption
      <4>2. worker' \in [Firsts -> WorkerState]
        BY <1>0, <2>2, <4>1
      <4> QED
        BY <1>0, <2>1, <4>2 DEF LifecycleKinds
    <3>2. LivesInv' /\ SeenInv(Q)'
      BY <1>0, <2>1 DEF LivesInv, SeenInv
    <3>3. ClaimsInv'
      BY <1>0, <2>1, <2>2 DEF ClaimsInv, LifecycleKinds, ClaimedBy, Lifecycle!Idle, Busy
    <3>4. CheckoutsInv(k)'
      BY <1>0, <2>1, <2>2 DEF CheckoutsInv, Lifecycle!Idle
    <3> QED
      BY <3>1, <3>2, <3>3, <3>4 DEF LifecycleInv
  <2>3. CASE worker' # [worker EXCEPT ![w] = Lifecycle(Q, k, n)!Idle]
    <3>1. PICK r \in disk : worker' = [worker EXCEPT ![w].at = "sweeping", ![w].revision = r]
      BY <1>7, <2>3 DEF Lifecycle!Collect
    <3>2. Moved(w, "sweeping", r)
      BY <1>0, <3>1, GoesMoves
    <3> DEFINE held == disk \union (Lifecycle(Q, k, n)!Protected \ {None})
    <3>3. Cardinality(held) > k
      BY <1>7, <2>3 DEF Lifecycle!Collect, Lifecycle!Cardinality, Cardinality
    <3>4. held \subseteq Seconds
      BY <1>0 DEF Lifecycle!Protected, LifecycleKinds, RepositoryRow
    <3> HIDE DEF held
    <3>5. ~(IsFiniteSet(Seconds) /\ Cardinality(Seconds) <= k)
      <4>1. SUFFICES ASSUME IsFiniteSet(Seconds), Cardinality(Seconds) <= k PROVE FALSE
        OBVIOUS
      <4>2. Cardinality(held) <= Cardinality(Seconds) /\ Cardinality(held) \in Nat
            /\ Cardinality(Seconds) \in Nat /\ k \in Nat
        BY <3>4, <4>1, FS_Subset, FS_CardinalityType DEF Lifecycle!LifecycleAssumption
      <4> QED
        BY <3>3, <4>1, <4>2
    <3>6. CheckoutsInv(k)'
      BY <2>1, <3>5 DEF CheckoutsInv
    <3> QED
      BY <1>0, <1>1, <2>1, <3>1, <3>2, <3>6 DEF Busy
  <2> QED
    BY <2>2, <2>3
<1> QED
  BY <1>3, <1>4, <1>5, <1>6, <1>7

\* What a worker and a connection do to the row and its job.
LEMMA LifecycleWrites ==
  ASSUME NEW Q, NEW k, NEW n, Lifecycle(Q, k, n)!LifecycleAssumption, LifecycleInv(Q, k, n), NEW w \in Firsts,
         \/ Lifecycle(Q, k, n)!Claim(w) \/ Lifecycle(Q, k, n)!Begin(w) \/ Lifecycle(Q, k, n)!Publish(w)
         \/ Lifecycle(Q, k, n)!Fail(w) \/ Lifecycle(Q, k, n)!FailJob(w)
  PROVE  LifecycleInv(Q, k, n)'
<1>0. /\ LifecycleKinds(Q, n) /\ LivesInv /\ ClaimsInv /\ SeenInv(Q) /\ CheckoutsInv(k)
      /\ worker \in [Firsts -> WorkerState] /\ worker[w] \in WorkerState
      /\ worker[w].at # "idle" => worker[w].revision \in Seconds
      /\ disk \subseteq Seconds /\ repository \in RepositoryRow
      /\ job \in [id: 0..MaxJobs, worker: Firsts \union {None}]
      /\ jobs \in Nat /\ lives \in Nat /\ repository.version \in Nat /\ MaxJobs \in Nat
      /\ repository.current \in Seconds \union {None} /\ None \notin Seconds \union Firsts
      /\ \A v \in Firsts : worker[v].job \in Nat
  BY DEF LifecycleInv, LifecycleKinds, WorkerState, RepositoryRow, Lifecycle!LifecycleAssumption,
         ClaimsInv
<1>1. ASSUME NEW to, NEW r, Moved(w, to, r)
      PROVE  /\ worker'[w] = [at |-> to, job |-> worker[w].job, life |-> worker[w].life,
                              revision |-> r]
             /\ \A v \in Firsts : v # w => worker'[v] = worker[v]
             /\ to \in Busy \union {"collecting"} /\ r \in Seconds => worker' \in [Firsts -> WorkerState]
  BY <1>0, <1>1 DEF Moved, WorkerState
<1>2. CASE Lifecycle(Q, k, n)!Claim(w)
  <2>1. PICK r \in Seconds :
          worker' = [worker EXCEPT ![w] = [at |-> "cloning", job |-> job.id,
                                           life |-> repository.life, revision |-> r]]
    BY <1>2 DEF Lifecycle!Claim
  <2>2. /\ worker[w].at = "idle" /\ job.id # 0 /\ job.worker = None
        /\ job' = [job EXCEPT !.worker = w]
        /\ UNCHANGED <<repository, lives, jobs, key, tombstone, disk, cleaner, crashes>>
    BY <1>2 DEF Lifecycle!Claim
  <2>3. job' = [id |-> job.id, worker |-> w] /\ job.id \in 1..MaxJobs
    BY <1>0, <2>2
  <2>4. /\ worker' \in [Firsts -> WorkerState]
        /\ \A v \in Firsts : v # w => worker'[v] = worker[v]
    BY <1>0, <2>1, <2>3 DEF WorkerState, Busy, RepositoryRow
  <2>5. LifecycleKinds(Q, n)'
    BY <1>0, <2>2, <2>3, <2>4 DEF LifecycleKinds
  <2>6. LivesInv' /\ SeenInv(Q)'
    BY <1>0, <2>2 DEF LivesInv, SeenInv
  <2>7. ClaimsInv'
    BY <1>0, <2>1, <2>2, <2>3, <2>4 DEF LivesInv, ClaimsInv, ClaimedBy, Busy, LifecycleKinds
  <2>8. CheckoutsInv(k)'
    BY <1>0, <2>1, <2>2, <2>4 DEF CheckoutsInv
  <2> QED
    BY <2>5, <2>6, <2>7, <2>8 DEF LifecycleInv
\* A version is added to the row of a life, and what is current is it still
\* or has its checkout.
<1>3. ASSUME NEW to \in Busy \union {"collecting"}, worker[w].at \in Busy,
             to \notin {"sealed", "removing"}, Moved(w, to, worker[w].revision),
             repository' = repository \/ repository'.version = repository.version + 1,
             repository' \in RepositoryRow, repository'.life = repository.life,
             repository'.current = repository.current
               \/ /\ tombstone = "none" => ClaimedBy(w)
                  /\ worker[w].at = "sealed" /\ repository'.current = worker[w].revision,
             repository.life # 0 \/ repository' = repository,
             \/ job' = job /\ to \in Busy
             \/ job' = [id |-> 0, worker |-> None] /\ ClaimedBy(w) /\ to \notin Busy,
             UNCHANGED <<lives, jobs, key, tombstone, disk, cleaner, crashes>>
      PROVE  LifecycleInv(Q, k, n)'
  <2>0. /\ worker[w].at # "idle" /\ worker[w].revision \in Seconds
        /\ repository'.version \in Nat
        /\ job' \in [id: 0..MaxJobs, worker: Firsts \union {None}]
        /\ worker' \in [Firsts -> WorkerState]
    <3>1. job' \in [id: 0..MaxJobs, worker: Firsts \union {None}]
      BY <1>0, <1>3
    <3>2. worker' \in [Firsts -> WorkerState] /\ worker[w].at # "idle" /\ worker[w].revision \in Seconds
      BY <1>0, <1>1, <1>3 DEF Busy
    <3> QED
      BY <1>3, <3>1, <3>2 DEF RepositoryRow
  <2>1. LifecycleKinds(Q, n)'
    BY <1>0, <1>3, <2>0 DEF LifecycleKinds
  <2>2. LivesInv'
    BY <1>0, <1>3, <2>0 DEF LivesInv
  <2>3. SeenInv(Q)'
    BY <1>0, <1>3, <2>0 DEF SeenInv, LifecycleKinds, CleanerState, RepositoryRow
  <2>4. ClaimsInv'
    BY <1>0, <1>1, <1>3, <2>0 DEF ClaimsInv, ClaimedBy, Busy
  <2>5. ASSUME tombstone = "none", NEW v \in Firsts, v # w, worker[v].at \in Busy
        PROVE  ~ClaimedBy(w)
    BY <1>0, <2>5 DEF ClaimsInv, ClaimedBy
  <2>6. CheckoutsInv(k)'
    BY <1>0, <1>1, <1>3, <2>0, <2>5 DEF CheckoutsInv, Busy
  <2> QED
    BY <2>1, <2>2, <2>3, <2>4, <2>6 DEF LifecycleInv
<1>4. CASE Lifecycle(Q, k, n)!Begin(w)
  <2>1. Moved(w, "building", worker[w].revision)
    BY <1>0, <1>4, GoesMoves DEF Lifecycle!Begin
  <2>2. /\ worker[w].at \in {"cloned", "reused"} /\ worker[w].revision \in Seconds
        /\ UNCHANGED <<lives, job, jobs, key, tombstone, disk, cleaner, crashes>>
        /\ ClaimedBy(w)
    BY <1>0, <1>4 DEF Lifecycle!Begin, Lifecycle!Claimed, ClaimedBy
  <2>3. repository.life # 0
    BY <1>0, <2>2 DEF ClaimsInv, LivesInv, ClaimedBy
  <2>4. /\ repository' \in RepositoryRow /\ repository'.life = repository.life
        /\ repository'.current = repository.current
        /\ repository' = repository \/ repository'.version = repository.version + 1
    <3> DEFINE begun == [repository EXCEPT !.publishing = worker[w].revision]
    <3>1. begun \in RepositoryRow /\ begun.life = repository.life /\ begun.version = repository.version
          /\ begun.current = repository.current
      BY <1>0, <2>2 DEF RepositoryRow
    <3>2. \/ repository' = repository
          \/ repository' = [begun EXCEPT !.version = begun.version + 1]
      BY <1>4 DEF Lifecycle!Begin, Lifecycle!Bumped
    <3> HIDE DEF begun
    <3> QED
      BY <1>0, <3>1, <3>2 DEF RepositoryRow
  <2> QED
    BY <1>3, <2>1, <2>2, <2>3, <2>4 DEF Busy
<1>5. CASE Lifecycle(Q, k, n)!Publish(w)
  <2>1. Moved(w, "collecting", worker[w].revision)
    BY <1>0, <1>5, GoesMoves DEF Lifecycle!Publish
  <2>2. /\ worker[w].at = "sealed" /\ worker[w].revision \in Seconds
        /\ UNCHANGED <<lives, jobs, key, tombstone, disk, cleaner, crashes>>
        /\ ClaimedBy(w) /\ job' = [id |-> 0, worker |-> None]
    BY <1>0, <1>5 DEF Lifecycle!Publish, Lifecycle!Claimed, ClaimedBy, Lifecycle!NoJob
  <2>3. repository.life # 0
    BY <1>0, <2>2 DEF ClaimsInv, LivesInv, ClaimedBy
  <2>4. /\ repository' \in RepositoryRow /\ repository'.life = repository.life
        /\ repository'.current = worker[w].revision
        /\ repository'.version = repository.version + 1
    <3> DEFINE r == worker[w].revision
               row1 == IF repository.current = r THEN [repository EXCEPT !.publishing = None]
                       ELSE [repository EXCEPT !.current = r, !.previous = repository.current,
                                               !.publishing = None]
    <3>1. row1 \in RepositoryRow /\ row1.life = repository.life /\ row1.version = repository.version
          /\ row1.current = r
      <4>1. CASE repository.current = r
        BY <1>0, <2>2, <4>1 DEF RepositoryRow
      <4>2. CASE repository.current # r
        BY <1>0, <2>2, <4>2 DEF RepositoryRow
      <4> QED
        BY <4>1, <4>2
    <3>2. repository' = [row1 EXCEPT !.version = row1.version + 1]
      BY <1>5 DEF Lifecycle!Publish, Lifecycle!Published, Lifecycle!Bumped
    <3> HIDE DEF row1
    <3> QED
      BY <1>0, <3>1, <3>2 DEF RepositoryRow
  <2> QED
    BY <1>3, <2>1, <2>2, <2>3, <2>4 DEF Busy
<1>6. CASE Lifecycle(Q, k, n)!Fail(w)
  <2> DEFINE to == IF worker[w].at = "cloning" THEN "failed" ELSE "failing"
  <2>1. Moved(w, to, worker[w].revision) /\ to \in {"failed", "failing"}
    BY <1>0, <1>6, GoesMoves DEF Lifecycle!Fail
  <2> HIDE DEF to
  <2>2. /\ worker[w].at \in {"cloning", "cloned", "reused", "building", "sealed"}
        /\ worker[w].revision \in Seconds
        /\ UNCHANGED <<lives, job, jobs, key, tombstone, disk, cleaner, crashes>>
    BY <1>0, <1>6 DEF Lifecycle!Fail
  <2>3. \/ repository' = repository
        \/ /\ repository.life # 0
           /\ repository' \in RepositoryRow /\ repository'.life = repository.life
           /\ repository'.current = repository.current
           /\ repository'.version = repository.version + 1
    <3> DEFINE row1 == [repository EXCEPT !.publishing = None]
    <3>1. row1 \in RepositoryRow /\ row1.life = repository.life /\ row1.version = repository.version
          /\ row1.current = repository.current
      BY <1>0 DEF RepositoryRow
    <3>2. \/ repository' = repository
          \/ ClaimedBy(w) /\ repository' = [row1 EXCEPT !.version = row1.version + 1]
      BY <1>6 DEF Lifecycle!Fail, Lifecycle!Claimed, Lifecycle!Bumped, ClaimedBy
    <3>3. ClaimedBy(w) => repository.life # 0
      BY <1>0, <2>2 DEF ClaimsInv, LivesInv, ClaimedBy
    <3> HIDE DEF row1
    <3> QED
      BY <1>0, <3>1, <3>2, <3>3 DEF RepositoryRow
  <2> QED
    BY <1>0, <1>3, <2>1, <2>2, <2>3 DEF Busy
<1>7. CASE Lifecycle(Q, k, n)!FailJob(w)
  <2>1. /\ worker[w].at = "failed" /\ worker' = [worker EXCEPT ![w] = Lifecycle(Q, k, n)!Idle]
        /\ UNCHANGED <<repository, lives, jobs, key, tombstone, disk, cleaner, crashes>>
        /\ \/ job' = job /\ ~ClaimedBy(w)
           \/ job' = [id |-> 0, worker |-> None] /\ ClaimedBy(w)
    BY <1>7 DEF Lifecycle!FailJob, Lifecycle!Claimed, ClaimedBy, Lifecycle!NoJob
  <2>2. /\ Lifecycle(Q, k, n)!Idle \in WorkerState /\ Lifecycle(Q, k, n)!Idle.at = "idle"
        /\ Lifecycle(Q, k, n)!Idle.job = 0
    BY <1>0 DEF WorkerState, Lifecycle!Idle
  <2>3. /\ worker' \in [Firsts -> WorkerState]
        /\ worker'[w].at = "idle" /\ worker'[w].job = 0
        /\ \A v \in Firsts : v # w => worker'[v] = worker[v]
    BY <1>0, <2>1, <2>2
  <2>4. job' \in [id: 0..MaxJobs, worker: Firsts \union {None}]
    BY <1>0, <2>1
  <2>5. LifecycleKinds(Q, n)'
    BY <1>0, <2>1, <2>3, <2>4 DEF LifecycleKinds
  <2>6. LivesInv' /\ SeenInv(Q)'
    BY <1>0, <2>1 DEF LivesInv, SeenInv
  <2>7. ClaimsInv'
    BY <1>0, <2>1, <2>3 DEF ClaimsInv, ClaimedBy, Busy
  <2>8. CheckoutsInv(k)'
    BY <1>0, <2>1, <2>3 DEF CheckoutsInv
  <2> QED
    BY <2>5, <2>6, <2>7, <2>8 DEF LifecycleInv
<1> QED
  BY <1>2, <1>4, <1>5, <1>6, <1>7

LEMMA LifecycleConnects ==
  ASSUME NEW Q, NEW k, NEW n, Lifecycle(Q, k, n)!LifecycleAssumption, LifecycleInv(Q, k, n),
         Lifecycle(Q, k, n)!Connect
  PROVE  LifecycleInv(Q, k, n)'
<1>0. /\ LifecycleKinds(Q, n) /\ LivesInv /\ ClaimsInv /\ SeenInv(Q) /\ CheckoutsInv(k)
      /\ worker \in [Firsts -> WorkerState]
      /\ repository \in RepositoryRow
      /\ job \in [id: 0..MaxJobs, worker: Firsts \union {None}]
      /\ jobs \in Nat /\ lives \in Nat /\ repository.version \in Nat /\ MaxJobs \in Nat
      /\ None \notin Seconds \union Firsts
      /\ \A v \in Firsts : worker[v].job \in Nat
  BY DEF LifecycleInv, LifecycleKinds, WorkerState, RepositoryRow, Lifecycle!LifecycleAssumption
<1>1. /\ job.id = 0 /\ jobs < MaxJobs /\ jobs' = jobs + 1
      /\ job' = [id |-> jobs + 1, worker |-> None] /\ key' = repository'.life
      /\ UNCHANGED <<tombstone, disk, cleaner, worker, crashes>>
  BY DEF Lifecycle!Connect
<1>2. \/ /\ repository.life = 0 /\ lives' = lives + 1
         /\ repository' = [life |-> lives + 1, version |-> 1, current |-> None, previous |-> None,
                           publishing |-> None]
      \/ /\ repository.life # 0 /\ lives' = lives
         /\ repository' = [repository EXCEPT !.version = repository.version + 1]
  BY DEF Lifecycle!Connect, Lifecycle!NoRow, Lifecycle!Bumped
<1>3. /\ repository' \in RepositoryRow /\ lives' \in 0..MaxJobs
      /\ repository'.version \in Nat
  BY <1>0, <1>1, <1>2 DEF RepositoryRow, LivesInv
<1>4. LifecycleKinds(Q, n)'
  BY <1>0, <1>1, <1>3 DEF LifecycleKinds, RepositoryRow
<1>5. LivesInv'
  BY <1>0, <1>1, <1>2 DEF LivesInv, RepositoryRow
<1>6. SeenInv(Q)'
  BY <1>0, <1>1, <1>2, <1>3 DEF SeenInv, LivesInv, LifecycleKinds, CleanerState, RepositoryRow
<1>7. ClaimsInv'
  BY <1>0, <1>1 DEF ClaimsInv, ClaimedBy, Busy
<1>8. ASSUME tombstone = "none", NEW v \in Firsts PROVE worker[v].at \notin Busy
  BY <1>0, <1>1, <1>8 DEF ClaimsInv, ClaimedBy, Busy
<1>9. CheckoutsInv(k)'
  BY <1>0, <1>1, <1>2, <1>8 DEF CheckoutsInv, Busy, RepositoryRow
<1> QED
  BY <1>4, <1>5, <1>6, <1>7, <1>9 DEF LifecycleInv

\* A deletion, and the cleaning after it.
LEMMA LifecycleDeletes ==
  ASSUME NEW Q, NEW k, NEW n, Lifecycle(Q, k, n)!LifecycleAssumption, LifecycleInv(Q, k, n),
         NEW c \in Q \union {"startup"},
         \/ c \in Q /\ (Lifecycle(Q, k, n)!Ask(c) \/ Lifecycle(Q, k, n)!Delete(c)
                        \/ Lifecycle(Q, k, n)!DeleteRefused(c) \/ Lifecycle(Q, k, n)!DeleteRepeated(c))
         \/ Lifecycle(Q, k, n)!Clean(c) \/ Lifecycle(Q, k, n)!Record(c)
  PROVE  LifecycleInv(Q, k, n)'
<1>0. /\ LifecycleKinds(Q, n) /\ LivesInv /\ ClaimsInv /\ SeenInv(Q) /\ CheckoutsInv(k)
      /\ cleaner \in [Q \union {"startup"} -> CleanerState] /\ cleaner[c] \in CleanerState
      /\ repository \in RepositoryRow /\ repository.version \in Nat /\ MaxJobs \in Nat
  BY DEF LifecycleInv, LifecycleKinds, RepositoryRow, CleanerState, Lifecycle!LifecycleAssumption
<1>1. ASSUME NEW to, Lifecycle(Q, k, n)!Stands(c, to)
      PROVE  cleaner' = [cleaner EXCEPT ![c] = [at |-> to, seen |-> cleaner[c].seen]]
  <2>1. cleaner[c] = [at |-> cleaner[c].at, seen |-> cleaner[c].seen]
    BY <1>0 DEF CleanerState
  <2> DEFINE x == cleaner[c]
  <2>2. cleaner' = [cleaner EXCEPT ![c] = [x EXCEPT !.at = to]]
    BY <1>0, <1>1 DEF Lifecycle!Stands
  <2>3. x = [at |-> x.at, seen |-> x.seen]
    BY <2>1
  <2> HIDE DEF x
  <2>4. [x EXCEPT !.at = to] = [at |-> to, seen |-> x.seen]
    BY <2>3
  <2> QED
    BY <2>2, <2>4 DEF x
\* The row stays, and where nothing is deleted yet nothing is cleaned.
<1>2. ASSUME NEW x \in CleanerState, cleaner' = [cleaner EXCEPT ![c] = x],
             x.at \in {"cleaning", "cleaned", "uncleaned"} => tombstone' # "none",
             x.at = "deciding" => x.seen = repository,
             disk' \subseteq disk, disk' = disk \/ tombstone # "none",
             tombstone' \in {"none", "pending", "done"}, tombstone' = "none" => tombstone = "none",
             tombstone # "none" => tombstone' # "none",
             UNCHANGED <<repository, lives, job, jobs, key, worker, crashes>>
      PROVE  LifecycleInv(Q, k, n)'
  <2>1. cleaner' \in [Q \union {"startup"} -> CleanerState]
    BY <1>0, <1>2
  <2>2. LifecycleKinds(Q, n)'
    BY <1>0, <1>2, <2>1 DEF LifecycleKinds
  <2>3. LivesInv' /\ ClaimsInv'
    BY <1>0, <1>2 DEF LivesInv, ClaimsInv, ClaimedBy
  <2>4. SeenInv(Q)'
    BY <1>0, <1>2 DEF SeenInv
  <2>5. CheckoutsInv(k)'
    BY <1>0, <1>2 DEF CheckoutsInv
  <2> QED
    BY <2>2, <2>3, <2>4, <2>5 DEF LifecycleInv
<1>3. ASSUME NEW to \in {"rest", "cleaning", "cleaned", "uncleaned", "answered", "refused"}
      PROVE  [at |-> to, seen |-> cleaner[c].seen] \in CleanerState
  BY <1>0 DEF CleanerState
<1>4. CASE Lifecycle(Q, k, n)!Ask(c)
  <2> DEFINE to == CASE tombstone = "pending" -> "cleaning"
                     [] tombstone = "done" -> "answered"
                     [] OTHER -> IF repository.life = 0 THEN "refused" ELSE "deciding"
  <2>1. /\ cleaner' = [cleaner EXCEPT ![c] = [at |-> to, seen |-> repository]]
        /\ UNCHANGED <<repository, lives, job, jobs, key, tombstone, disk, worker, crashes>>
    BY <1>4 DEF Lifecycle!Ask, Lifecycle!database
  <2>2. /\ to \in {"cleaning", "answered", "refused", "deciding"}
        /\ to = "cleaning" => tombstone # "none"
    <3>1. CASE tombstone \in {"pending", "done"}
      BY <3>1, Zenon
    <3>2. CASE tombstone \notin {"pending", "done"}
      BY <3>2, Zenon
    <3> QED
      BY <3>1, <3>2
  <2> HIDE DEF to
  <2>3. [at |-> to, seen |-> repository] \in CleanerState
    BY <1>0, <2>2 DEF CleanerState
  <2> QED
    BY <1>0, <1>2, <2>1, <2>2, <2>3 DEF LifecycleKinds
<1>5. CASE Lifecycle(Q, k, n)!DeleteRefused(c) \/ Lifecycle(Q, k, n)!DeleteRepeated(c)
  <2>1. PICK to \in {"refused", "cleaning", "answered"} :
          Lifecycle(Q, k, n)!Stands(c, to) /\ (to = "cleaning" => tombstone # "none")
    BY <1>5 DEF Lifecycle!DeleteRefused, Lifecycle!DeleteRepeated
  <2>2. UNCHANGED <<repository, lives, job, jobs, key, tombstone, disk, worker, crashes>>
    BY <1>5 DEF Lifecycle!DeleteRefused, Lifecycle!DeleteRepeated, Lifecycle!database
  <2>3. cleaner' = [cleaner EXCEPT ![c] = [at |-> to, seen |-> cleaner[c].seen]]
    BY <1>1, <2>1
  <2> QED
    BY <1>0, <1>2, <1>3, <2>1, <2>2, <2>3 DEF LifecycleKinds
<1>6. CASE Lifecycle(Q, k, n)!Clean(c)
  <2>1. PICK to \in {"cleaned", "uncleaned"} : Lifecycle(Q, k, n)!Stands(c, to)
    BY <1>6 DEF Lifecycle!Clean
  <2>2. /\ UNCHANGED <<repository, lives, job, jobs, key, tombstone, worker, crashes>>
        /\ disk' \subseteq disk /\ tombstone # "none"
    BY <1>0, <1>6 DEF Lifecycle!Clean, Lifecycle!database, SeenInv
  <2>3. cleaner' = [cleaner EXCEPT ![c] = [at |-> to, seen |-> cleaner[c].seen]]
    BY <1>1, <2>1
  <2> QED
    BY <1>0, <1>2, <1>3, <2>1, <2>2, <2>3 DEF LifecycleKinds
<1>7. CASE Lifecycle(Q, k, n)!Record(c)
  <2>1. /\ UNCHANGED <<repository, lives, job, jobs, key, disk, worker, crashes>>
        /\ tombstone # "none" /\ tombstone' \in {tombstone, "done", "pending"}
    BY <1>0, <1>7 DEF Lifecycle!Record, SeenInv
  <2>2. PICK x \in CleanerState :
          cleaner' = [cleaner EXCEPT ![c] = x] /\ x.at \in {"rest", "answered"}
    <3>1. CASE c = "startup"
      <4>1. /\ cleaner' = [cleaner EXCEPT ![c] = Lifecycle(Q, k, n)!AtRest]
            /\ Lifecycle(Q, k, n)!AtRest \in CleanerState /\ Lifecycle(Q, k, n)!AtRest.at = "rest"
        BY <1>0, <1>7, <3>1 DEF Lifecycle!Record, Lifecycle!Startup, Lifecycle!AtRest, Lifecycle!NoRow,
          CleanerState, RepositoryRow
      <4> QED
        BY <4>1
    <3>2. CASE c # "startup"
      <4>1. cleaner' = [cleaner EXCEPT ![c] = [at |-> "answered", seen |-> cleaner[c].seen]]
        BY <1>1, <1>7, <3>2 DEF Lifecycle!Record, Lifecycle!Startup
      <4> QED
        BY <1>3, <4>1
    <3> QED
      BY <3>1, <3>2
  <2> QED
    BY <1>0, <1>2, <2>1, <2>2 DEF LifecycleKinds
<1>8. CASE c \in Q /\ Lifecycle(Q, k, n)!Delete(c)
  <2>1. /\ repository' = [life |-> 0, version |-> 0, current |-> None, previous |-> None,
                          publishing |-> None]
        /\ job' = [id |-> 0, worker |-> None] /\ key' = 0 /\ tombstone' = "pending"
        /\ Lifecycle(Q, k, n)!Stands(c, "cleaning")
        /\ UNCHANGED <<lives, jobs, disk, worker, crashes>>
    BY <1>8 DEF Lifecycle!Delete, Lifecycle!NoRow, Lifecycle!NoJob
  <2>2. cleaner' = [cleaner EXCEPT ![c] = [at |-> "cleaning", seen |-> cleaner[c].seen]]
    BY <1>1, <2>1
  <2>3. cleaner' \in [Q \union {"startup"} -> CleanerState] /\ repository' \in RepositoryRow
    BY <1>0, <1>3, <2>1, <2>2 DEF RepositoryRow
  <2>4. LifecycleKinds(Q, n)'
    BY <1>0, <2>1, <2>3 DEF LifecycleKinds
  <2>5. LivesInv' /\ SeenInv(Q)' /\ CheckoutsInv(k)'
    BY <1>0, <2>1 DEF LivesInv, SeenInv, CheckoutsInv, LifecycleKinds
  <2>6. ClaimsInv'
    BY <1>0, <2>1 DEF ClaimsInv, ClaimedBy
  <2> QED
    BY <2>4, <2>5, <2>6 DEF LifecycleInv
<1> QED
  BY <1>4, <1>5, <1>6, <1>7, <1>8

LEMMA LifecycleRestarts ==
  ASSUME NEW Q, NEW k, NEW n, Lifecycle(Q, k, n)!LifecycleAssumption, LifecycleInv(Q, k, n),
         Lifecycle(Q, k, n)!Restart
  PROVE  LifecycleInv(Q, k, n)'
<1>0. /\ LifecycleKinds(Q, n) /\ LivesInv /\ ClaimsInv /\ SeenInv(Q) /\ CheckoutsInv(k)
      /\ cleaner \in [Q \union {"startup"} -> CleanerState] /\ n \in Nat /\ MaxJobs \in Nat
  BY DEF LifecycleInv, LifecycleKinds, Lifecycle!LifecycleAssumption
<1>1. /\ crashes' \in 0..n
      /\ UNCHANGED <<repository, lives, job, jobs, key, tombstone, disk, worker>>
  BY <1>0 DEF Lifecycle!Restart, Lifecycle!database, LifecycleKinds
<1>2. \A c \in Q \union {"startup"} :
        /\ cleaner'[c] \in CleanerState
        /\ \/ cleaner'[c].at \in {"rest", "refused"}
           \/ cleaner'[c].at = "cleaning" /\ tombstone = "pending"
  <2> SUFFICES ASSUME NEW c \in Q \union {"startup"}
               PROVE  /\ cleaner'[c] \in CleanerState
                      /\ \/ cleaner'[c].at \in {"rest", "refused"}
                         \/ cleaner'[c].at = "cleaning" /\ tombstone = "pending"
    OBVIOUS
  <2>1. /\ Lifecycle(Q, k, n)!AtRest \in CleanerState /\ Lifecycle(Q, k, n)!AtRest.at = "rest"
    BY <1>0 DEF Lifecycle!AtRest, Lifecycle!NoRow, CleanerState, RepositoryRow
  <2>2. cleaner[c] \in CleanerState
    BY <1>0
  <2>3. /\ [Lifecycle(Q, k, n)!AtRest EXCEPT !.at = "cleaning"] \in CleanerState
        /\ [Lifecycle(Q, k, n)!AtRest EXCEPT !.at = "cleaning"].at = "cleaning"
        /\ [cleaner[c] EXCEPT !.at = "refused"] \in CleanerState
        /\ [cleaner[c] EXCEPT !.at = "refused"].at = "refused"
    BY <2>1, <2>2 DEF CleanerState
  <2>4. cleaner'[c] = IF c = "startup" THEN IF tombstone = "pending" THEN [Lifecycle(Q, k, n)!AtRest EXCEPT !.at = "cleaning"]
                                          ELSE Lifecycle(Q, k, n)!AtRest
                      ELSE IF cleaner[c].at = "rest" THEN Lifecycle(Q, k, n)!AtRest
                           ELSE [cleaner[c] EXCEPT !.at = "refused"]
    BY DEF Lifecycle!Restart, Lifecycle!Cleaners, Lifecycle!Startup
  <2> QED
    BY <2>1, <2>3, <2>4
<1>3. cleaner' \in [Q \union {"startup"} -> CleanerState]
  <2>1. cleaner' = [c \in Q \union {"startup"} |-> cleaner'[c]]
    BY DEF Lifecycle!Restart, Lifecycle!Cleaners, Lifecycle!Startup
  <2> QED
    BY <1>2, <2>1
<1>4. LifecycleKinds(Q, n)'
  BY <1>0, <1>1, <1>3 DEF LifecycleKinds
<1>5. LivesInv' /\ ClaimsInv' /\ CheckoutsInv(k)'
  BY <1>0, <1>1 DEF LivesInv, ClaimsInv, ClaimedBy, CheckoutsInv
<1>6. SeenInv(Q)'
  BY <1>0, <1>1, <1>2 DEF SeenInv
<1> QED
  BY <1>4, <1>5, <1>6 DEF LifecycleInv

LEMMA LifecycleStep ==
  ASSUME NEW Q, NEW k, NEW n, Lifecycle(Q, k, n)!LifecycleAssumption, LifecycleInv(Q, k, n),
         Lifecycle(Q, k, n)!Next
  PROVE  LifecycleInv(Q, k, n)'
<1>1. CASE Lifecycle(Q, k, n)!Connect
  BY <1>1, LifecycleConnects
<1>2. CASE Lifecycle(Q, k, n)!Restart
  BY <1>2, LifecycleRestarts
<1>3. ASSUME NEW w \in Firsts,
             \/ Lifecycle(Q, k, n)!Clone(w) \/ Lifecycle(Q, k, n)!Seal(w) \/ Lifecycle(Q, k, n)!Discard(w)
             \/ Lifecycle(Q, k, n)!Remove(w) \/ Lifecycle(Q, k, n)!Collect(w)
      PROVE  LifecycleInv(Q, k, n)'
  BY <1>3, LifecycleWorks
<1>4. ASSUME NEW w \in Firsts,
             \/ Lifecycle(Q, k, n)!Claim(w) \/ Lifecycle(Q, k, n)!Begin(w) \/ Lifecycle(Q, k, n)!Publish(w)
             \/ Lifecycle(Q, k, n)!Fail(w) \/ Lifecycle(Q, k, n)!FailJob(w)
      PROVE  LifecycleInv(Q, k, n)'
  BY <1>4, LifecycleWrites
<1>5. ASSUME NEW c \in Q \union {"startup"},
             \/ c \in Q /\ (Lifecycle(Q, k, n)!Ask(c) \/ Lifecycle(Q, k, n)!Delete(c)
                            \/ Lifecycle(Q, k, n)!DeleteRefused(c) \/ Lifecycle(Q, k, n)!DeleteRepeated(c))
             \/ Lifecycle(Q, k, n)!Clean(c) \/ Lifecycle(Q, k, n)!Record(c)
      PROVE  LifecycleInv(Q, k, n)'
  BY <1>5, LifecycleDeletes
<1> QED
  BY <1>1, <1>2, <1>3, <1>4, <1>5
  DEF Lifecycle!Next, Lifecycle!Cleaners, Lifecycle!Startup

\* What the parts of the run say follows.
LEMMA LifecycleSays ==
  ASSUME NEW Q, NEW k, NEW n, LifecycleInv(Q, k, n)
  PROVE  /\ Lifecycle(Q, k, n)!TypeOK /\ Lifecycle(Q, k, n)!AnsweredAgainIsConnected
         /\ Lifecycle(Q, k, n)!PublishedStays
<1>1. Lifecycle(Q, k, n)!TypeOK
  BY LifecycleKindsAre DEF LifecycleInv
<1>2. Lifecycle(Q, k, n)!AnsweredAgainIsConnected
  BY DEF LifecycleInv, LivesInv, Lifecycle!AnsweredAgainIsConnected
<1>3. Lifecycle(Q, k, n)!PublishedStays
  BY DEF LifecycleInv, CheckoutsInv, Lifecycle!PublishedStays, Lifecycle!Cardinality, Cardinality,
         Lifecycle!IsFiniteSet, IsFiniteSet
<1> QED
  BY <1>1, <1>2, <1>3

\* A worker goes on with its job, or its job ends.
LEMMA KeptMoves ==
  ASSUME NEW Q, NEW k, NEW n, LifecycleInv(Q, k, n), KeptInv, NEW w \in Firsts, NEW x,
         worker' = [worker EXCEPT ![w] = x],
         x.at # "idle" => /\ worker[w].at # "idle"
                          /\ x.job = worker[w].job /\ x.life = worker[w].life,
         x.at \in Busy => /\ worker[w].at \in Busy /\ job' = job
                          /\ repository'.current = repository.current,
         x.at = "removing" => x.revision # repository.current,
         lives' = lives, repository'.life = repository.life,
         ClaimedBy(w) \/ (job' = job /\ repository'.current = repository.current)
  PROVE  KeptInv'
<1>1. \A v \in Firsts : worker'[v] = IF v = w THEN x ELSE worker[v]
  BY DEF LifecycleInv, LifecycleKinds
<1>2. ASSUME NEW v \in Firsts
      PROVE  /\ worker'[v].at # "idle" => worker'[v].life # 0 /\ worker'[v].life <= lives'
             /\ worker'[v].at \in Busy /\ worker'[v].life = repository'.life => ClaimedBy(v)'
             /\ worker'[v].at = "removing" /\ worker'[v].life = repository'.life =>
                  worker'[v].revision # repository'.current
  <2>0. "removing" \in Busy /\ "idle" \notin Busy
    BY DEF Busy
  <2>1. CASE v = w
    BY <1>1, <2>0, <2>1 DEF KeptInv, ClaimedBy
  <2>2. CASE v # w
    <3>1. worker'[v] = worker[v]
      BY <1>1, <2>2
    <3>2. CASE job' = job /\ repository'.current = repository.current
      BY <3>1, <3>2 DEF KeptInv, ClaimedBy
    <3>3. CASE ClaimedBy(w)
      <4>1. ~ClaimedBy(v)
        BY <2>2, <3>3 DEF ClaimedBy
      <4> QED
        BY <2>0, <3>1, <4>1 DEF KeptInv
    <3> QED
      BY <3>2, <3>3
  <2> QED
    BY <2>1, <2>2
<1> QED
  BY <1>2 DEF KeptInv

\* What a worker's own steps do to it.
LEMMA KeptWorks ==
  ASSUME NEW Q, NEW k, NEW n, Lifecycle(Q, k, n)!LifecycleAssumption, LifecycleInv(Q, k, n), KeptInv,
         NEW w \in Firsts,
         \/ Lifecycle(Q, k, n)!Clone(w) \/ Lifecycle(Q, k, n)!Begin(w) \/ Lifecycle(Q, k, n)!Seal(w)
         \/ Lifecycle(Q, k, n)!Publish(w) \/ Lifecycle(Q, k, n)!Fail(w) \/ Lifecycle(Q, k, n)!Discard(w)
         \/ Lifecycle(Q, k, n)!Remove(w) \/ Lifecycle(Q, k, n)!FailJob(w) \/ Lifecycle(Q, k, n)!Collect(w)
  PROVE  KeptInv'
<1>0. /\ LifecycleKinds(Q, n) /\ worker[w] \in WorkerState /\ repository \in RepositoryRow
      /\ repository = [life |-> repository.life, version |-> repository.version,
                       current |-> repository.current, previous |-> repository.previous,
                       publishing |-> repository.publishing]
  BY DEF LifecycleInv, LifecycleKinds, WorkerState, RepositoryRow
<1>1. ASSUME NEW to, NEW r, Moved(w, to, r), worker[w].at # "idle",
             to \in Busy => /\ worker[w].at \in Busy /\ job' = job
                            /\ repository'.current = repository.current,
             to = "removing" => r # repository.current,
             lives' = lives, repository'.life = repository.life,
             ClaimedBy(w) \/ (job' = job /\ repository'.current = repository.current)
      PROVE  KeptInv'
  <2> DEFINE x == [at |-> to, job |-> worker[w].job, life |-> worker[w].life, revision |-> r]
  <2>1. /\ worker' = [worker EXCEPT ![w] = x]
        /\ x.at = to /\ x.job = worker[w].job /\ x.life = worker[w].life /\ x.revision = r
    BY <1>1 DEF Moved
  <2> HIDE DEF x
  <2>2. /\ x.at # "idle" => worker[w].at # "idle" /\ x.job = worker[w].job /\ x.life = worker[w].life
        /\ x.at \in Busy => /\ worker[w].at \in Busy /\ job' = job
                           /\ repository'.current = repository.current
        /\ x.at = "removing" => x.revision # repository.current
        /\ lives' = lives /\ repository'.life = repository.life
        /\ ClaimedBy(w) \/ (job' = job /\ repository'.current = repository.current)
    BY <1>1, <2>1
  <2> QED
    BY <2>1, <2>2, KeptMoves
<1>2. CASE Lifecycle(Q, k, n)!Clone(w)
  <2> DEFINE to == IF worker[w].revision \in disk THEN "reused" ELSE "cloned"
  <2>1. /\ worker[w].at = "cloning" /\ Lifecycle(Q, k, n)!Goes(w, to) /\ to \in {"reused", "cloned"}
        /\ UNCHANGED <<repository, lives, job>>
    BY <1>2 DEF Lifecycle!Clone, Lifecycle!database
  <2> HIDE DEF to
  <2>2. Moved(w, to, worker[w].revision)
    BY <1>0, <2>1, GoesMoves
  <2> QED
    BY <1>1, <2>1, <2>2 DEF Busy
<1>3. CASE Lifecycle(Q, k, n)!Begin(w)
  <2>1. /\ worker[w].at \in {"cloned", "reused"} /\ Lifecycle(Q, k, n)!Goes(w, "building")
        /\ lives' = lives /\ job' = job
        /\ repository'.life = repository.life /\ repository'.current = repository.current
    <3>1. CASE repository.current = worker[w].revision
      BY <1>3, <3>1 DEF Lifecycle!Begin
    <3>2. CASE repository.current # worker[w].revision
      <4> DEFINE y == [repository EXCEPT !.publishing = worker[w].revision]
      <4>1. repository' = [y EXCEPT !.version = y.version + 1]
        BY <1>3, <3>2 DEF Lifecycle!Begin, Lifecycle!Bumped
      <4>2. y = [life |-> repository.life, version |-> repository.version,
                 current |-> repository.current, previous |-> repository.previous,
                 publishing |-> worker[w].revision]
        BY <1>0
      <4> HIDE DEF y
      <4>3. repository'.life = repository.life /\ repository'.current = repository.current
        BY <4>1, <4>2
      <4> QED
        BY <1>3, <4>3 DEF Lifecycle!Begin
    <3> QED
      BY <3>1, <3>2
  <2>2. Moved(w, "building", worker[w].revision)
    BY <1>0, <2>1, GoesMoves
  <2> QED
    BY <1>1, <2>1, <2>2 DEF Busy
<1>4. CASE Lifecycle(Q, k, n)!Seal(w)
  <2>1. /\ worker[w].at = "building" /\ Lifecycle(Q, k, n)!Goes(w, "sealed")
        /\ UNCHANGED <<repository, lives, job>>
    BY <1>4 DEF Lifecycle!Seal, Lifecycle!database
  <2>2. Moved(w, "sealed", worker[w].revision)
    BY <1>0, <2>1, GoesMoves
  <2> QED
    BY <1>1, <2>1, <2>2 DEF Busy
<1>5. CASE Lifecycle(Q, k, n)!Publish(w)
  <2>1. /\ worker[w].at = "sealed" /\ Lifecycle(Q, k, n)!Goes(w, "collecting")
        /\ ClaimedBy(w) /\ lives' = lives
        /\ repository' = Lifecycle(Q, k, n)!Published(repository, worker[w].revision)
    BY <1>5 DEF Lifecycle!Publish, Lifecycle!Claimed, ClaimedBy
  <2>2. repository'.life = repository.life
    <3>1. CASE repository.current = worker[w].revision
      <4> DEFINE y == [repository EXCEPT !.publishing = None]
      <4>1. repository' = [y EXCEPT !.version = y.version + 1]
        BY <2>1, <3>1 DEF Lifecycle!Published, Lifecycle!Bumped
      <4>2. y = [life |-> repository.life, version |-> repository.version,
                 current |-> repository.current, previous |-> repository.previous,
                 publishing |-> None]
        BY <1>0
      <4> HIDE DEF y
      <4> QED
        BY <4>1, <4>2
    <3>2. CASE repository.current # worker[w].revision
      <4> DEFINE x == [repository EXCEPT !.current = worker[w].revision]
                 y == [x EXCEPT !.previous = repository.current]
                 z == [y EXCEPT !.publishing = None]
      <4>1. repository' = [z EXCEPT !.version = z.version + 1]
        BY <2>1, <3>2 DEF Lifecycle!Published, Lifecycle!Bumped
      <4>2. x = [life |-> repository.life, version |-> repository.version,
                 current |-> worker[w].revision, previous |-> repository.previous,
                 publishing |-> repository.publishing]
        BY <1>0
      <4> HIDE DEF x
      <4>3. y = [life |-> repository.life, version |-> repository.version,
                 current |-> worker[w].revision, previous |-> repository.current,
                 publishing |-> repository.publishing]
        BY <4>2
      <4> HIDE DEF y
      <4>4. z = [life |-> repository.life, version |-> repository.version,
                 current |-> worker[w].revision, previous |-> repository.current,
                 publishing |-> None]
        BY <4>3
      <4> HIDE DEF z
      <4> QED
        BY <4>1, <4>4
    <3> QED
      BY <3>1, <3>2
  <2>3. Moved(w, "collecting", worker[w].revision)
    BY <1>0, <2>1, GoesMoves
  <2> QED
    BY <1>1, <2>1, <2>2, <2>3 DEF Busy
<1>6. CASE Lifecycle(Q, k, n)!Fail(w)
  <2> DEFINE to == IF worker[w].at = "cloning" THEN "failed" ELSE "failing"
  <2>1. /\ worker[w].at \in {"cloning", "cloned", "reused", "building", "sealed"}
        /\ Lifecycle(Q, k, n)!Goes(w, to) /\ to \in {"failed", "failing"}
        /\ lives' = lives /\ job' = job
        /\ \/ repository' = repository
           \/ repository' = Lifecycle(Q, k, n)!Bumped([repository EXCEPT !.publishing = None])
    BY <1>6 DEF Lifecycle!Fail
  <2> HIDE DEF to
  <2>2. repository'.life = repository.life /\ repository'.current = repository.current
    <3>1. CASE repository' = Lifecycle(Q, k, n)!Bumped([repository EXCEPT !.publishing = None])
      <4> DEFINE y == [repository EXCEPT !.publishing = None]
      <4>1. repository' = [y EXCEPT !.version = y.version + 1]
        BY <3>1 DEF Lifecycle!Bumped
      <4>2. y = [life |-> repository.life, version |-> repository.version,
                 current |-> repository.current, previous |-> repository.previous,
                 publishing |-> None]
        BY <1>0
      <4> HIDE DEF y
      <4> QED
        BY <4>1, <4>2
    <3> QED
      BY <2>1, <3>1
  <2>3. Moved(w, to, worker[w].revision)
    BY <1>0, <2>1, GoesMoves
  <2> QED
    BY <1>1, <2>1, <2>2, <2>3 DEF Busy
<1>7. CASE Lifecycle(Q, k, n)!Discard(w)
  <2>1. PICK to \in {"removing", "failed"} :
          /\ worker[w].at = "failing" /\ Lifecycle(Q, k, n)!Goes(w, to)
          /\ to = "removing" => worker[w].revision # repository.current
          /\ UNCHANGED <<repository, lives, job>>
    BY <1>7 DEF Lifecycle!Discard, Lifecycle!database, Lifecycle!Protected
  <2>2. Moved(w, to, worker[w].revision)
    BY <1>0, <2>1, GoesMoves
  <2> QED
    BY <1>1, <2>1, <2>2 DEF Busy
<1>8. CASE Lifecycle(Q, k, n)!Remove(w)
  <2> DEFINE to == IF worker[w].at = "sweeping" THEN "collecting" ELSE "failed"
  <2>1. /\ worker[w].at \in {"sweeping", "removing"} /\ Lifecycle(Q, k, n)!Goes(w, to)
        /\ \/ worker[w].at = "sweeping" /\ to = "collecting"
           \/ worker[w].at = "removing" /\ to = "failed"
        /\ UNCHANGED <<repository, lives, job>>
    <3>1. worker[w].at \in {"sweeping", "removing"} /\ Lifecycle(Q, k, n)!Goes(w, to)
          /\ UNCHANGED <<repository, lives, job>>
      BY <1>8 DEF Lifecycle!Remove, Lifecycle!database
    <3>2. \/ worker[w].at = "sweeping" /\ to = "collecting"
          \/ worker[w].at = "removing" /\ to = "failed"
      BY <3>1
    <3> QED
      BY <3>1, <3>2
  <2> HIDE DEF to
  <2>2. Moved(w, to, worker[w].revision)
    BY <1>0, <2>1, GoesMoves
  <2> QED
    BY <1>1, <2>1, <2>2 DEF Busy
<1>9. CASE Lifecycle(Q, k, n)!FailJob(w)
  <2>1. /\ worker' = [worker EXCEPT ![w] = Lifecycle(Q, k, n)!Idle]
        /\ Lifecycle(Q, k, n)!Idle.at = "idle"
        /\ UNCHANGED <<repository, lives>> /\ (job' = job \/ ClaimedBy(w))
    BY <1>9 DEF Lifecycle!FailJob, Lifecycle!Idle, Lifecycle!Claimed, ClaimedBy
  <2> QED
    BY <2>1, KeptMoves DEF Busy
<1>10. CASE Lifecycle(Q, k, n)!Collect(w)
  <2>1. worker[w].at = "collecting" /\ UNCHANGED <<repository, lives, job>>
    BY <1>10 DEF Lifecycle!Collect, Lifecycle!database
  <2>2. CASE worker' = [worker EXCEPT ![w] = Lifecycle(Q, k, n)!Idle]
    <3>1. Lifecycle(Q, k, n)!Idle.at = "idle"
      BY DEF Lifecycle!Idle
    <3> QED
      BY <2>1, <2>2, <3>1, KeptMoves DEF Busy
  <2>3. ASSUME NEW r, worker' = [worker EXCEPT ![w].at = "sweeping", ![w].revision = r]
        PROVE  KeptInv'
    <3>1. Moved(w, "sweeping", r)
      BY <1>0, <2>3, GoesMoves
    <3> QED
      BY <1>1, <2>1, <3>1 DEF Busy
  <2> QED
    BY <1>10, <2>2, <2>3 DEF Lifecycle!Collect
<1> QED
  BY <1>2, <1>3, <1>4, <1>5, <1>6, <1>7, <1>8, <1>9, <1>10

LEMMA KeptBegins ==
  ASSUME NEW Q, NEW k, NEW n, Lifecycle(Q, k, n)!Init PROVE KeptInv
<1>1. \A w \in Firsts : worker[w].at = "idle"
  BY DEF Lifecycle!Init, Lifecycle!Idle
<1> QED
  BY <1>1 DEF KeptInv, Busy

LEMMA KeptStep ==
  ASSUME NEW Q, NEW k, NEW n, Lifecycle(Q, k, n)!LifecycleAssumption, LifecycleInv(Q, k, n), KeptInv,
         Lifecycle(Q, k, n)!Next
  PROVE  KeptInv'
<1>0. /\ LifecycleKinds(Q, n) /\ LivesInv /\ ClaimsInv
      /\ lives \in Nat /\ None \notin Firsts /\ repository.life \in Nat
      /\ \A w \in Firsts : worker[w].life \in Nat
  BY DEF LifecycleInv, LifecycleKinds, RepositoryRow, WorkerState, Lifecycle!LifecycleAssumption
<1>1. CASE UNCHANGED <<repository, lives, job, worker>>
  BY <1>1 DEF KeptInv, ClaimedBy
<1>2. CASE Lifecycle(Q, k, n)!Connect
  <2>1. job.id = 0 /\ worker' = worker
    BY <1>2 DEF Lifecycle!Connect
  <2>2. \A w \in Firsts : worker[w].at # "idle" => ~ClaimedBy(w)
    BY <1>0, <2>1 DEF ClaimsInv, ClaimedBy
  <2>3. \A w \in Firsts : worker[w].at # "idle" =>
          /\ worker[w].life # 0 /\ worker[w].life <= lives
          /\ worker[w].at \in Busy => worker[w].life # repository.life
    BY <2>2 DEF KeptInv
  <2>4. /\ lives' \in Nat /\ lives <= lives'
        /\ repository'.life = repository.life \/ repository'.life = lives + 1
    <3>1. CASE repository.life = 0
      <4>1. /\ lives' = lives + 1
            /\ repository' = [Lifecycle(Q, k, n)!NoRow EXCEPT !.life = lives + 1, !.version = 1]
        BY <1>2, <3>1 DEF Lifecycle!Connect
      <4>2. repository'.life = lives + 1
        BY <4>1 DEF Lifecycle!NoRow
      <4> QED
        BY <1>0, <4>1, <4>2
    <3>2. CASE repository.life # 0
      <4>1. lives' = lives /\ repository' = [repository EXCEPT !.version = repository.version + 1]
        BY <1>2, <3>2 DEF Lifecycle!Connect, Lifecycle!Bumped
      <4>2. repository \in RepositoryRow
        BY <1>0 DEF LifecycleKinds
      <4> QED
        BY <1>0, <4>1, <4>2 DEF RepositoryRow
    <3> QED
      BY <3>1, <3>2
  <2>5. \A w \in Firsts : worker[w].at # "idle" =>
          /\ worker[w].life # 0 /\ worker[w].life <= lives'
          /\ worker[w].at \in Busy => worker[w].life # repository'.life
    BY <1>0, <2>3, <2>4
  <2>6. "removing" \in Busy /\ "idle" \notin Busy
    BY DEF Busy
  <2> QED
    BY <2>1, <2>5, <2>6 DEF KeptInv
<1>3. ASSUME NEW w \in Firsts, Lifecycle(Q, k, n)!Claim(w)
      PROVE  KeptInv'
  <2>1. PICK r \in Seconds :
          worker' = [worker EXCEPT ![w] = [at |-> "cloning", job |-> job.id,
                                           life |-> repository.life, revision |-> r]]
    BY <1>3 DEF Lifecycle!Claim
  <2>2. /\ job.id # 0 /\ job.worker = None /\ job' = [job EXCEPT !.worker = w]
        /\ UNCHANGED <<repository, lives>>
    BY <1>3 DEF Lifecycle!Claim
  <2>3. job' = [id |-> job.id, worker |-> w] /\ \A u \in Firsts : ~ClaimedBy(u)
    BY <1>0, <2>2 DEF LifecycleKinds, ClaimedBy
  <2>4. repository.life # 0 /\ repository.life <= lives
    BY <1>0, <2>2 DEF LivesInv
  <2>5. /\ \A u \in Firsts : u # w => worker'[u] = worker[u]
        /\ worker'[w] = [at |-> "cloning", job |-> job.id, life |-> repository.life, revision |-> r]
    BY <1>0, <2>1 DEF LifecycleKinds
  <2>6. ClaimedBy(w)'
    BY <2>3, <2>5 DEF ClaimedBy
  <2>7. "removing" \in Busy /\ "idle" \notin Busy
    BY DEF Busy
  <2> QED
    BY <2>2, <2>3, <2>4, <2>5, <2>6, <2>7 DEF KeptInv
<1>4. ASSUME NEW q \in Q, Lifecycle(Q, k, n)!Delete(q)
      PROVE  KeptInv'
  <2>1. repository'.life = 0 /\ lives' = lives /\ worker' = worker
    BY <1>4 DEF Lifecycle!Delete, Lifecycle!NoRow
  <2>2. "removing" \in Busy /\ "idle" \notin Busy
    BY DEF Busy
  <2> QED
    BY <2>1, <2>2 DEF KeptInv
<1>5. ASSUME NEW c,
             \/ Lifecycle(Q, k, n)!Restart \/ Lifecycle(Q, k, n)!Ask(c)
             \/ Lifecycle(Q, k, n)!DeleteRefused(c) \/ Lifecycle(Q, k, n)!DeleteRepeated(c)
             \/ Lifecycle(Q, k, n)!Clean(c) \/ Lifecycle(Q, k, n)!Record(c)
      PROVE  UNCHANGED <<repository, lives, job, worker>>
  BY <1>5 DEF Lifecycle!Restart, Lifecycle!Ask, Lifecycle!DeleteRefused, Lifecycle!DeleteRepeated,
    Lifecycle!Clean, Lifecycle!Record, Lifecycle!database
<1> QED
  BY <1>1, <1>2, <1>3, <1>4, <1>5, KeptWorks DEF Lifecycle!Next

LEMMA CheckoutsKept ==
  ASSUME NEW Q, NEW k, NEW n, Lifecycle(Q, k, n)!LifecycleAssumption, LifecycleInv(Q, k, n), KeptInv,
         Lifecycle(Q, k, n)!Next
  PROVE  Lifecycle(Q, k, n)!KeepsPublished
<1> SUFFICES ASSUME repository.current \in disk, repository.current \notin disk'
             PROVE  \/ \E c \in Q \union {"startup"} : cleaner[c].at = "cleaning"
                    \/ \E w \in Firsts : /\ worker[w].revision = repository.current
                                         /\ worker[w].at = "sweeping" \/ worker[w].life # repository.life
  BY DEF Lifecycle!KeepsPublished, Lifecycle!Cleaners, Lifecycle!Startup
<1>1. \/ \E w \in Firsts : Lifecycle(Q, k, n)!Remove(w)
      \/ \E c \in Q \union {"startup"} : Lifecycle(Q, k, n)!Clean(c)
  BY DEF Lifecycle!Next, Lifecycle!Connect, Lifecycle!Restart, Lifecycle!Ask, Lifecycle!database,
      Lifecycle!Delete, Lifecycle!DeleteRefused, Lifecycle!DeleteRepeated, Lifecycle!Record,
      Lifecycle!Claim, Lifecycle!Clone, Lifecycle!Begin, Lifecycle!Seal, Lifecycle!Publish,
      Lifecycle!Fail, Lifecycle!Discard, Lifecycle!FailJob, Lifecycle!Collect,
      Lifecycle!Cleaners, Lifecycle!Startup
<1>2. CASE \E c \in Q \union {"startup"} : Lifecycle(Q, k, n)!Clean(c)
  BY <1>2 DEF Lifecycle!Clean
<1>3. ASSUME NEW w \in Firsts, Lifecycle(Q, k, n)!Remove(w)
      PROVE  /\ worker[w].revision = repository.current
             /\ worker[w].at = "sweeping" \/ worker[w].life # repository.life
  <2>1. worker[w].at \in {"sweeping", "removing"} /\ disk' = disk \ {worker[w].revision}
    BY <1>3 DEF Lifecycle!Remove
  <2> QED
    BY <2>1 DEF KeptInv
<1> QED
  BY <1>1, <1>2, <1>3

LEMMA LifecycleActs ==
  ASSUME NEW Q, NEW k, NEW n, Lifecycle(Q, k, n)!LifecycleAssumption, LifecycleInv(Q, k, n),
         Lifecycle(Q, k, n)!Next
  PROVE  Lifecycle(Q, k, n)!PublishesIntoItsLife /\ Lifecycle(Q, k, n)!DeletesWhatItSaw
<1>0. /\ LifecycleKinds(Q, n) /\ LivesInv /\ ClaimsInv /\ SeenInv(Q)
      /\ worker \in [Firsts -> WorkerState]
      /\ cleaner \in [Q \union {"startup"} -> CleanerState]
      /\ repository \in RepositoryRow
  BY DEF LifecycleInv, LifecycleKinds
<1>1. ASSUME NEW w \in Firsts, worker[w].at = "sealed", worker'[w].at = "collecting"
      PROVE  worker[w].life = repository.life
  <2>1. worker' # worker
    BY <1>1
  <2>2. PICK v \in Firsts : \/ Lifecycle(Q, k, n)!Claim(v) \/ Lifecycle(Q, k, n)!Clone(v)
                            \/ Lifecycle(Q, k, n)!Begin(v) \/ Lifecycle(Q, k, n)!Seal(v)
                            \/ Lifecycle(Q, k, n)!Publish(v) \/ Lifecycle(Q, k, n)!Fail(v)
                            \/ Lifecycle(Q, k, n)!Discard(v) \/ Lifecycle(Q, k, n)!Remove(v)
                            \/ Lifecycle(Q, k, n)!FailJob(v) \/ Lifecycle(Q, k, n)!Collect(v)
    BY <2>1 DEF Lifecycle!Next, Lifecycle!Connect, Lifecycle!Restart, Lifecycle!Ask, Lifecycle!Delete,
      Lifecycle!DeleteRefused, Lifecycle!DeleteRepeated, Lifecycle!Clean, Lifecycle!Record
  <2>3. \A u \in Firsts : u # v => worker'[u] = worker[u]
    BY <1>0, <2>2 DEF Lifecycle!Goes, Lifecycle!Claim, Lifecycle!Clone, Lifecycle!Begin,
      Lifecycle!Seal, Lifecycle!Publish, Lifecycle!Fail, Lifecycle!Discard, Lifecycle!Remove,
      Lifecycle!FailJob, Lifecycle!Collect
  <2>4. v = w
    BY <1>1, <2>3
  <2>5. Lifecycle(Q, k, n)!Publish(w) \/ Lifecycle(Q, k, n)!Fail(w)
    BY <1>1, <2>2, <2>4 DEF Lifecycle!Claim, Lifecycle!Clone, Lifecycle!Begin,
      Lifecycle!Seal, Lifecycle!Discard, Lifecycle!Remove, Lifecycle!FailJob, Lifecycle!Collect
  <2>6. ~Lifecycle(Q, k, n)!Fail(w)
    <3> DEFINE to == IF worker[w].at = "cloning" THEN "failed" ELSE "failing"
    <3>1. SUFFICES ASSUME Lifecycle(Q, k, n)!Fail(w) PROVE FALSE
      OBVIOUS
    <3>2. Lifecycle(Q, k, n)!Goes(w, to) /\ to \in {"failed", "failing"}
      BY <3>1 DEF Lifecycle!Fail
    <3> HIDE DEF to
    <3>3. Moved(w, to, worker[w].revision)
      BY <1>0, <3>2, GoesMoves
    <3> QED
      BY <1>0, <1>1, <3>2, <3>3 DEF Moved
  <2> QED
    BY <1>0, <1>1, <2>5, <2>6 DEF ClaimsInv, ClaimedBy, Lifecycle!Publish, Lifecycle!Claimed
<1>2. ASSUME NEW q \in Q, cleaner[q].at = "deciding", repository.life # 0, repository'.life = 0,
             cleaner'[q].at = "cleaning"
      PROVE  repository.current = cleaner[q].seen.current
  <2>1. repository' # repository /\ cleaner' # cleaner
    BY <1>2
  <2>2. PICK p \in Q : Lifecycle(Q, k, n)!Delete(p)
    BY <2>1 DEF Lifecycle!Next, Lifecycle!Connect, Lifecycle!Restart, Lifecycle!Ask, Lifecycle!database,
      Lifecycle!DeleteRefused, Lifecycle!DeleteRepeated, Lifecycle!Clean, Lifecycle!Record,
      Lifecycle!Claim, Lifecycle!Clone, Lifecycle!Begin, Lifecycle!Seal, Lifecycle!Publish,
      Lifecycle!Fail, Lifecycle!Discard, Lifecycle!Remove, Lifecycle!FailJob, Lifecycle!Collect
  <2>3. p = q
    BY <1>0, <1>2, <2>2 DEF Lifecycle!Delete, Lifecycle!Stands
  <2> QED
    BY <1>0, <1>2, <2>2, <2>3 DEF Lifecycle!Delete, SeenInv
<1> QED
  BY <1>1, <1>2 DEF Lifecycle!PublishesIntoItsLife, Lifecycle!DeletesWhatItSaw

-----------------------------------------------------------------------------
(* The repository's knowledge.                                              *)

EntryRow(v) ==
  [life: Nat, saves: Nat, lifecycle: {"none", "active", "archived"},
   revision: v.revisions \union {None}, versions: Seq(SUBSET v.facts), updated: 0..v.hours]
MemoryRow(v) == [content: SUBSET v.facts, created: 0..v.hours]
KnowledgeCall(v) ==
  [at: {"idle", "counting", "persisting", "remembering", "inserting"},
   of: v.entries \union v.memories \union {None}, row: EntryRow(v) \union {None},
   memory: MemoryRow(v) \union {None}, was: {"none", "conflict"}]

\* An entry is saved once for every version, and once more when it is archived.
SavedOften(v, r) ==
  /\ Len(r.versions) <= v.versions
  /\ r.lifecycle = "none" => r.saves = 0 /\ r.versions = <<>>
  /\ r.lifecycle = "active" => r.saves = Len(r.versions) /\ r.saves >= 1
  /\ r.lifecycle = "archived" => r.saves = Len(r.versions) + 1 /\ r.saves >= 2

\* A row in hand was made of the entry as it was, in this life or in an earlier
\* one; in this life no such row replaces an archived entry.
LoadedFrom(r, over) ==
  /\ r.life <= over.life
  /\ r.life = over.life =>
       r.saves <= over.saves + 1 /\ (over.lifecycle = "archived" => r.saves <= over.saves)

\* What a memory of m would be made of is what its version says.
SaysOf(v, m, memory) ==
  /\ v.version[m] <= Len(entry[v.entry[m]].versions)
  /\ memory.content = entry[v.entry[m]].versions[v.version[m]]

EntryInHand(v, x) ==
  /\ x.row # None => Len(x.row.versions) <= v.versions
  /\ x.at \in {"counting", "persisting"} =>
       /\ x.of \in v.entries /\ x.row \in EntryRow(v)
       /\ SavedOften(v, x.row) /\ x.row.lifecycle # "none"
       /\ LoadedFrom(x.row, entry[x.of])
MemoryInHand(v, x) ==
  x.at \in {"remembering", "inserting"} =>
    /\ x.of \in v.memories /\ x.memory \in MemoryRow(v)
    /\ v.collections = 0 => SaysOf(v, x.of, x.memory)

KnowledgeKinds(v) ==
  /\ entry \in [v.entries -> EntryRow(v)]
  /\ memories \in [v.memories -> MemoryRow(v) \union {None}]
  /\ expired \subseteq {m \in v.memories : memories[m] # None}
  /\ published \in v.revisions /\ time \in 0..v.hours /\ collected \in 0..v.collections
  /\ remembering \in [Firsts -> KnowledgeCall(v)]
MemoriesInv(v) ==
  v.collections = 0 =>
    \A m \in v.memories : memories[m] # None => SaysOf(v, m, memories[m])
KnowledgeInv(v) ==
  /\ KnowledgeKinds(v)
  /\ \A e \in v.entries : SavedOften(v, entry[e])
  /\ \A c \in Firsts : EntryInHand(v, remembering[c]) /\ MemoryInHand(v, remembering[c])
  /\ MemoriesInv(v)

LEMMA KnowledgeAssumed ==
  ASSUME NEW v, Knowledge(v)!KnowledgeAssumption
  PROVE  /\ v.hours \in Nat /\ v.collections \in Nat /\ v.versions \in Nat \ {0}
         /\ v.entry \in [v.memories -> v.entries] /\ v.version \in [v.memories -> Nat \ {0}]
         /\ 0 \in 0..v.hours
BY DEF Knowledge!KnowledgeAssumption

LEMMA KnowledgeBegins ==
  ASSUME NEW v, Knowledge(v)!KnowledgeAssumption, Knowledge(v)!Init
  PROVE  KnowledgeInv(v)
<1>0. v.hours \in Nat /\ v.collections \in Nat /\ 0 \in 0..v.hours /\ v.versions \in Nat
  BY KnowledgeAssumed
<1>1. \A e \in v.entries : entry[e] = [life |-> 0, saves |-> 0, lifecycle |-> "none", revision |-> None,
                                      versions |-> <<>>, updated |-> 0]
  BY DEF Knowledge!Init, Knowledge!NoRow
<1>2. <<>> \in Seq(SUBSET v.facts) /\ Len(<<>>) = 0
  OBVIOUS
<1>3. \A e \in v.entries : entry[e] \in EntryRow(v) /\ SavedOften(v, entry[e])
  <2> SUFFICES ASSUME NEW e \in v.entries PROVE entry[e] \in EntryRow(v) /\ SavedOften(v, entry[e])
    OBVIOUS
  <2> DEFINE r == entry[e]
  <2>1. /\ r.life = 0 /\ r.saves = 0 /\ r.lifecycle = "none" /\ r.versions = <<>>
        /\ r = [life |-> 0, saves |-> 0, lifecycle |-> "none", revision |-> None,
               versions |-> <<>>, updated |-> 0]
    BY <1>1
  <2> HIDE DEF r
  <2>2. r \in EntryRow(v)
    BY <1>0, <1>2, <2>1 DEF EntryRow
  <2>3. SavedOften(v, r)
    BY <1>0, <1>2, <2>1 DEF SavedOften
  <2> QED
    BY <2>2, <2>3 DEF r
<1>4. /\ remembering \in [Firsts -> KnowledgeCall(v)]
      /\ \A c \in Firsts : remembering[c].at = "idle" /\ remembering[c].row = None
  BY DEF Knowledge!Init, Knowledge!Idle, Knowledge!Call, KnowledgeCall
<1>5. KnowledgeKinds(v)
  BY <1>0, <1>3, <1>4 DEF KnowledgeKinds, Knowledge!Init
<1>6. MemoriesInv(v)
  BY DEF MemoriesInv, Knowledge!Init
<1> QED
  BY <1>3, <1>4, <1>5, <1>6 DEF KnowledgeInv, EntryInHand, MemoryInHand

LEMMA KnowledgeSays ==
  ASSUME NEW v, KnowledgeInv(v)
  PROVE  /\ Knowledge(v)!TypeOK
         /\ v.collections = 0 => Knowledge(v)!MemoriesMatch
<1>1. ASSUME NEW r \in EntryRow(v), Len(r.versions) <= v.versions PROVE Knowledge(v)!IsRow(r)
  <2>1. r.versions \in Seq(SUBSET v.facts) /\ Len(r.versions) <= v.versions
    BY <1>1 DEF EntryRow
  <2>2. \A i \in DOMAIN r.versions : r.versions[i] \in SUBSET v.facts
    BY <2>1
  <2> QED
    BY <1>1, <2>1, <2>2 DEF EntryRow, Knowledge!IsRow, Knowledge!IsVersions
<1>2. ASSUME NEW m \in MemoryRow(v) PROVE Knowledge(v)!IsMemory(m)
  BY <1>2 DEF MemoryRow, Knowledge!IsMemory
<1>3. ASSUME NEW c \in Firsts
      PROVE  /\ remembering[c].at \in {"idle", "counting", "persisting", "remembering", "inserting"}
             /\ remembering[c].was \in {"none", "conflict"}
             /\ remembering[c].memory # None => Knowledge(v)!IsMemory(remembering[c].memory)
             /\ remembering[c].row # None => Knowledge(v)!IsRow(remembering[c].row)
  <2>1. /\ remembering[c] \in KnowledgeCall(v)
        /\ remembering[c].row # None => Len(remembering[c].row.versions) <= v.versions
    BY DEF KnowledgeInv, KnowledgeKinds, EntryInHand
  <2> QED
    BY <1>1, <1>2, <2>1 DEF KnowledgeCall
<1>4. \A e \in v.entries : Knowledge(v)!IsRow(entry[e])
  BY <1>1 DEF KnowledgeInv, KnowledgeKinds, SavedOften
<1>5. \A m \in v.memories : memories[m] # None => Knowledge(v)!IsMemory(memories[m])
  BY <1>2 DEF KnowledgeInv, KnowledgeKinds
<1>6. Knowledge(v)!TypeOK
  BY <1>3, <1>4, <1>5 DEF KnowledgeInv, KnowledgeKinds, Knowledge!TypeOK
<1>7. v.collections = 0 => Knowledge(v)!MemoriesMatch
  BY DEF KnowledgeInv, MemoriesInv, SaysOf, Knowledge!MemoriesMatch
<1> QED
  BY <1>6, <1>7

\* A call goes on, and nothing that is kept changes.
LEMMA CallGoes ==
  ASSUME NEW v, KnowledgeInv(v), NEW c \in Firsts, NEW x \in KnowledgeCall(v),
         EntryInHand(v, x), MemoryInHand(v, x),
         remembering' = [remembering EXCEPT ![c] = x],
         UNCHANGED <<entry, memories, expired, published, time, collected>>
  PROVE  KnowledgeInv(v)'
<1>1. KnowledgeKinds(v)'
  BY DEF KnowledgeInv, KnowledgeKinds
<1>2. ASSUME NEW d \in Firsts
      PROVE  EntryInHand(v, remembering'[d]) /\ MemoryInHand(v, remembering'[d])
  BY DEF KnowledgeInv, KnowledgeKinds
<1>3. ASSUME NEW d \in Firsts
      PROVE  EntryInHand(v, remembering[d])' /\ MemoryInHand(v, remembering[d])'
  BY <1>2 DEF EntryInHand, MemoryInHand, SaysOf
<1>4. (\A e \in v.entries : SavedOften(v, entry[e]))' /\ MemoriesInv(v)'
  BY DEF KnowledgeInv, MemoriesInv, SaysOf
<1> QED
  BY <1>1, <1>3, <1>4 DEF KnowledgeInv

\* A call that ends.
LEMMA CallEnds ==
  ASSUME NEW v, NEW was \in {"none", "conflict"}
  PROVE  /\ Knowledge(v)!Call("idle", None, None, None, was) \in KnowledgeCall(v)
         /\ EntryInHand(v, Knowledge(v)!Call("idle", None, None, None, was))
         /\ MemoryInHand(v, Knowledge(v)!Call("idle", None, None, None, was))
BY DEF KnowledgeCall, Knowledge!Call, EntryInHand, MemoryInHand

\* A call that has loaded an entry and made the next one of it.
LEMMA CallLoads ==
  ASSUME NEW v, KnowledgeInv(v), NEW c \in Firsts, NEW e \in v.entries, NEW r \in EntryRow(v),
         NEW at \in {"counting", "persisting"},
         SavedOften(v, r), r.lifecycle # "none", r.life = entry[e].life,
         r.saves = entry[e].saves + 1, entry[e].lifecycle # "archived",
         remembering' = [remembering EXCEPT ![c] = Knowledge(v)!Call(at, e, r, None, "none")],
         UNCHANGED <<entry, memories, expired, published, time, collected>>
  PROVE  KnowledgeInv(v)'
<1> DEFINE x == Knowledge(v)!Call(at, e, r, None, "none")
<1>1. x \in KnowledgeCall(v)
  BY DEF KnowledgeCall, Knowledge!Call
<1>2. entry[e].life \in Nat /\ entry[e].saves \in Nat
  BY DEF KnowledgeInv, KnowledgeKinds, EntryRow
<1>3. LoadedFrom(r, entry[e])
  BY <1>2 DEF LoadedFrom
<1>4. x.at = at /\ x.of = e /\ x.row = r
  BY DEF Knowledge!Call
<1> HIDE DEF x
<1>5. EntryInHand(v, x) /\ MemoryInHand(v, x)
  BY <1>3, <1>4 DEF EntryInHand, MemoryInHand, SavedOften
<1> QED
  BY <1>1, <1>5, CallGoes DEF x

LEMMA OneOf ==
  ASSUME NEW S, NEW x \in S
  PROVE  <<x>> \in Seq(S) /\ Len(<<x>>) = 1
OBVIOUS

LEMMA KnowledgeLoads ==
  ASSUME NEW v, Knowledge(v)!KnowledgeAssumption, KnowledgeInv(v),
         NEW c \in Firsts, NEW e \in v.entries,
         \/ Knowledge(v)!Archive(c, e)
         \/ \E facts \in SUBSET v.facts :
              \/ Knowledge(v)!Create(c, e, facts)
              \/ \E merge \in BOOLEAN : Knowledge(v)!Evolve(c, e, facts, merge)
  PROVE  KnowledgeInv(v)'
<1> DEFINE old == entry[e]
<1>0. /\ old \in EntryRow(v) /\ SavedOften(v, old) /\ time \in 0..v.hours /\ published \in v.revisions
      /\ v.versions \in Nat \ {0}
  BY KnowledgeAssumed DEF KnowledgeInv, KnowledgeKinds
<1>1. /\ old.life \in Nat /\ old.saves \in Nat /\ old.versions \in Seq(SUBSET v.facts)
      /\ Len(old.versions) \in Nat /\ old.revision \in v.revisions \union {None}
      /\ old = [life |-> old.life, saves |-> old.saves, lifecycle |-> old.lifecycle,
                revision |-> old.revision, versions |-> old.versions, updated |-> old.updated]
  BY <1>0, LenProperties DEF EntryRow
<1>2. CASE Knowledge(v)!Archive(c, e)
  <2> DEFINE r == [old EXCEPT !.saves = old.saves + 1, !.lifecycle = "archived", !.updated = time]
             n == old.saves + 1
  <2>1. /\ Knowledge(v)!Loads(c, "persisting", e, r)
        /\ UNCHANGED <<entry, memories, expired, published, time, collected>>
        /\ old.lifecycle = "active"
    BY <1>2 DEF Knowledge!Archive, Knowledge!Stored
  <2>2. r = [old EXCEPT !.saves = n, !.lifecycle = "archived", !.updated = time]
    OBVIOUS
  <2>3. n \in Nat /\ n = old.saves + 1
    BY <1>1
  <2> HIDE DEF r, n, old
  <2>4. r = [life |-> old.life, saves |-> n, lifecycle |-> "archived",
             revision |-> old.revision, versions |-> old.versions, updated |-> time]
    BY <1>1, <2>2
  <2>5. r \in EntryRow(v) /\ SavedOften(v, r)
    BY <1>0, <1>1, <2>1, <2>3, <2>4 DEF EntryRow, SavedOften
  <2>6. remembering' = [remembering EXCEPT ![c] = Knowledge(v)!Call("persisting", e, r, None, "none")]
    BY <2>1 DEF Knowledge!Loads
  <2>7. /\ r.lifecycle # "none" /\ r.life = entry[e].life /\ r.saves = entry[e].saves + 1
        /\ entry[e].lifecycle # "archived"
    BY <2>1, <2>3, <2>4 DEF old
  <2> QED
    BY <2>1, <2>5, <2>6, <2>7, CallLoads
<1>3. ASSUME NEW facts \in SUBSET v.facts, Knowledge(v)!Create(c, e, facts)
      PROVE  KnowledgeInv(v)'
  <2> DEFINE one == <<facts>>
             r == [old EXCEPT !.saves = 1, !.lifecycle = "active", !.revision = published,
                              !.versions = one, !.updated = time]
  <2>1. /\ Knowledge(v)!Loads(c, "counting", e, r)
        /\ UNCHANGED <<entry, memories, expired, published, time, collected>>
        /\ old.lifecycle = "none"
    BY <1>1, <1>3 DEF Knowledge!Create, Knowledge!Stored, Knowledge!Present
  <2>2. /\ r = [old EXCEPT !.saves = 1, !.lifecycle = "active", !.revision = published,
                           !.versions = one, !.updated = time]
        /\ one \in Seq(SUBSET v.facts) /\ Len(one) = 1 /\ old.saves = 0
    <3>1. old.saves = 0
      BY <1>0, <2>1 DEF SavedOften
    <3>2. one \in Seq(SUBSET v.facts) /\ Len(one) = 1
      <4>1. facts \in SUBSET v.facts
        BY <1>3
      <4> QED
        BY <4>1, OneOf
    <3> QED
      BY <3>1, <3>2
  <2> HIDE DEF r, one, old
  <2>4. r = [life |-> old.life, saves |-> 1, lifecycle |-> "active",
             revision |-> published, versions |-> one, updated |-> time]
    BY <1>1, <2>2
  <2>5. r \in EntryRow(v) /\ SavedOften(v, r)
    <3>1. r \in EntryRow(v)
      BY <1>0, <1>1, <2>2, <2>4 DEF EntryRow
    <3>2. /\ r.versions = one /\ r.saves = 1 /\ r.lifecycle = "active"
          /\ 1 <= v.versions
      BY <1>0, <2>4
    <3>3. Len(r.versions) = 1 /\ r.saves = Len(r.versions) /\ r.saves >= 1
          /\ Len(r.versions) <= v.versions
      <4>1. Len(one) = 1
        BY <2>2
      <4> QED
        BY <3>2, <4>1
    <3> QED
      BY <3>1, <3>2, <3>3 DEF SavedOften
  <2>6. remembering' = [remembering EXCEPT ![c] = Knowledge(v)!Call("counting", e, r, None, "none")]
    BY <2>1 DEF Knowledge!Loads
  <2>7. /\ r.lifecycle # "none" /\ r.life = entry[e].life /\ r.saves = entry[e].saves + 1
        /\ entry[e].lifecycle # "archived"
    BY <2>1, <2>2, <2>4 DEF old
  <2> QED
    BY <2>1, <2>5, <2>6, <2>7, CallLoads
<1>4. ASSUME NEW facts \in SUBSET v.facts, NEW merge \in BOOLEAN,
             Knowledge(v)!Evolve(c, e, facts, merge)
      PROVE  KnowledgeInv(v)'
  <2> DEFINE added == IF merge THEN facts \union Knowledge(v)!Newest(old) ELSE facts
             more == Append(old.versions, added)
             n == old.saves + 1
             r == [old EXCEPT !.saves = n, !.updated = time, !.versions = more]
  <2>1. /\ Knowledge(v)!Loads(c, "persisting", e, r)
        /\ UNCHANGED <<entry, memories, expired, published, time, collected>>
        /\ old.lifecycle = "active" /\ Len(old.versions) < v.versions
    BY <1>1, <1>4 DEF Knowledge!Evolve, Knowledge!Stored, Knowledge!Version
  <2>2. added \in SUBSET v.facts
    <3>1. old.versions[Len(old.versions)] \in SUBSET v.facts
      BY <1>0, <1>1, <2>1, ElementOfSeq DEF SavedOften
    <3> QED
      BY <3>1 DEF Knowledge!Newest, Knowledge!Version
  <2>3. /\ r = [old EXCEPT !.saves = n, !.updated = time, !.versions = more]
        /\ more \in Seq(SUBSET v.facts) /\ Len(more) = Len(old.versions) + 1
        /\ n = old.saves + 1 /\ n \in Nat
    <3>1. r = [old EXCEPT !.saves = n, !.updated = time, !.versions = more]
      OBVIOUS
    <3>2. more \in Seq(SUBSET v.facts) /\ Len(more) = Len(old.versions) + 1
      <4>1. \A s \in Seq(SUBSET v.facts), x \in SUBSET v.facts :
              Append(s, x) \in Seq(SUBSET v.facts) /\ Len(Append(s, x)) = Len(s) + 1
        BY AppendProperties
      <4> HIDE DEF added
      <4> QED
        BY <1>1, <2>2, <4>1
    <3> QED
      BY <1>1, <3>1, <3>2
  <2> HIDE DEF r, n, more, old
  <2>4. r = [life |-> old.life, saves |-> n, lifecycle |-> old.lifecycle,
             revision |-> old.revision, versions |-> more, updated |-> time]
    BY <1>1, <2>3
  <2>5. r \in EntryRow(v) /\ SavedOften(v, r)
    BY <1>0, <1>1, <2>1, <2>3, <2>4 DEF EntryRow, SavedOften
  <2>6. remembering' = [remembering EXCEPT ![c] = Knowledge(v)!Call("persisting", e, r, None, "none")]
    BY <2>1 DEF Knowledge!Loads
  <2>7. /\ r.lifecycle # "none" /\ r.life = entry[e].life /\ r.saves = entry[e].saves + 1
        /\ entry[e].lifecycle # "archived"
    BY <2>1, <2>3, <2>4 DEF old
  <2> QED
    BY <2>1, <2>5, <2>6, <2>7, CallLoads
<1> QED
  BY <1>2, <1>3, <1>4

\* A saved row stands for its entry.
LEMMA EntrySaved ==
  ASSUME NEW v, Knowledge(v)!KnowledgeAssumption, KnowledgeInv(v),
         NEW c \in Firsts, NEW e \in v.entries, NEW r \in EntryRow(v),
         SavedOften(v, r), r.lifecycle # "none", r.life = entry[e].life,
         r.saves = entry[e].saves + 1,
         Knowledge(v)!KeepsHistory(r, entry[e]),
         entry' = [entry EXCEPT ![e] = r], Knowledge(v)!Ends(c, "none"),
         UNCHANGED <<memories, expired, published, time, collected>>
  PROVE  KnowledgeInv(v)' /\ Knowledge(v)!AddsVersions
<1> DEFINE old == entry[e]
<1>0. /\ old \in EntryRow(v) /\ SavedOften(v, old) /\ entry \in [v.entries -> EntryRow(v)]
      /\ old.saves \in Nat /\ old.life \in Nat /\ Len(old.versions) \in Nat /\ Len(r.versions) \in Nat
      /\ remembering \in [Firsts -> KnowledgeCall(v)]
      /\ v.entry \in [v.memories -> v.entries] /\ v.version \in [v.memories -> Nat \ {0}]
      /\ DOMAIN old.versions = 1..Len(old.versions) /\ DOMAIN r.versions = 1..Len(r.versions)
  BY KnowledgeAssumed, LenProperties DEF KnowledgeInv, KnowledgeKinds, EntryRow
<1>1. Len(old.versions) <= Len(r.versions)
  BY <1>0 DEF SavedOften, EntryRow
<1>2. \A i \in 1..Len(old.versions) : r.versions[i] = old.versions[i]
  BY <1>0, <1>1 DEF Knowledge!KeepsHistory
<1>3. /\ entry'[e] = r /\ \A f \in v.entries : f # e => entry'[f] = entry[f]
      /\ entry' \in [v.entries -> EntryRow(v)]
  BY <1>0
<1>4. \A f \in v.entries : SavedOften(v, entry'[f])
  BY <1>3 DEF KnowledgeInv
<1>5. ASSUME NEW m \in v.memories, NEW memory, SaysOf(v, m, memory)
      PROVE  SaysOf(v, m, memory)'
  BY <1>0, <1>1, <1>2, <1>3, <1>5 DEF SaysOf
<1>6. /\ remembering' \in [Firsts -> KnowledgeCall(v)]
      /\ \A d \in Firsts : \/ remembering'[d] = remembering[d]
                          \/ remembering'[d] = Knowledge(v)!Call("idle", None, None, None, "none")
  <2>1. Knowledge(v)!Call("idle", None, None, None, "none") \in KnowledgeCall(v)
    BY CallEnds
  <2> QED
    BY <1>0, <2>1 DEF Knowledge!Ends
<1>7. ASSUME NEW x, NEW f \in v.entries, LoadedFrom(x, entry[f]), x.life \in Nat, x.saves \in Nat
      PROVE  LoadedFrom(x, entry'[f])
  BY <1>0, <1>3, <1>7 DEF LoadedFrom
<1>8. ASSUME NEW d \in Firsts
      PROVE  EntryInHand(v, remembering[d])' /\ MemoryInHand(v, remembering[d])'
  <2>1. CASE remembering'[d] = remembering[d]
    <3>1. /\ remembering[d] \in KnowledgeCall(v) /\ EntryInHand(v, remembering[d])
          /\ MemoryInHand(v, remembering[d])
      BY <1>0 DEF KnowledgeInv
    <3> QED
      BY <1>5, <1>7, <2>1, <3>1 DEF EntryInHand, MemoryInHand, EntryRow
  <2>2. CASE remembering'[d] = Knowledge(v)!Call("idle", None, None, None, "none")
    BY <2>2 DEF EntryInHand, MemoryInHand, Knowledge!Call
  <2> QED
    BY <1>6, <2>1, <2>2
<1>9. MemoriesInv(v)'
  BY <1>5 DEF MemoriesInv, KnowledgeInv
<1>10. KnowledgeKinds(v)'
  BY <1>3, <1>6 DEF KnowledgeKinds, KnowledgeInv
<1>11. Knowledge(v)!AddsVersions
  BY <1>0, <1>1, <1>2, <1>3 DEF Knowledge!AddsVersions, Knowledge!Version, Knowledge!KeepsHistory
<1> QED
  BY <1>4, <1>8, <1>9, <1>10, <1>11 DEF KnowledgeInv

\* What a step does to entries and memories.
KnowledgeActs(v) ==
  Knowledge(v)!AddsVersions /\ Knowledge(v)!KeepsArchived /\ Knowledge(v)!ReplacesNoMemory

LEMMA KnowledgeStays ==
  ASSUME NEW v, KnowledgeInv(v)
  PROVE  /\ entry' = entry => Knowledge(v)!AddsVersions /\ Knowledge(v)!KeepsArchived
         /\ memories' = memories => Knowledge(v)!ReplacesNoMemory
<1>1. ASSUME NEW e \in v.entries PROVE Len(entry[e].versions) \in Nat
  BY LenProperties DEF KnowledgeInv, KnowledgeKinds, EntryRow
<1> QED
  BY <1>1 DEF Knowledge!AddsVersions, Knowledge!KeepsArchived, Knowledge!ReplacesNoMemory,
     Knowledge!Version, Knowledge!KeepsHistory, Knowledge!SameLife

LEMMA KnowledgePersists ==
  ASSUME NEW v, Knowledge(v)!KnowledgeAssumption, KnowledgeInv(v), NEW c \in Firsts,
         Knowledge(v)!Persist(c)
  PROVE  KnowledgeInv(v)' /\ KnowledgeActs(v)
<1> DEFINE e == remembering[c].of
           x == remembering[c].row
           old == entry[e]
           r == [x EXCEPT !.life = old.life]
<1>0. /\ e \in v.entries /\ x \in EntryRow(v) /\ SavedOften(v, x) /\ x.lifecycle # "none"
      /\ LoadedFrom(x, old) /\ old \in EntryRow(v) /\ SavedOften(v, old)
      /\ UNCHANGED <<memories, expired, published, time, collected>>
      /\ remembering[c].at = "persisting"
  BY DEF KnowledgeInv, KnowledgeKinds, EntryInHand, Knowledge!Persist
<1>1. /\ Knowledge(v)!Ends(c, "none")
      /\ \/ Knowledge(v)!Accepted(x, old) /\ entry' = [entry EXCEPT ![e] = r]
         \/ entry' = entry
  BY DEF Knowledge!Persist
<1>2. Knowledge(v)!ReplacesNoMemory
  BY <1>0, KnowledgeStays
<1>3. CASE entry' = entry
  <2>1. /\ Knowledge(v)!Call("idle", None, None, None, "none") \in KnowledgeCall(v)
        /\ EntryInHand(v, Knowledge(v)!Call("idle", None, None, None, "none"))
        /\ MemoryInHand(v, Knowledge(v)!Call("idle", None, None, None, "none"))
    BY CallEnds
  <2>2. remembering' = [remembering EXCEPT ![c] = Knowledge(v)!Call("idle", None, None, None, "none")]
    BY <1>1 DEF Knowledge!Ends
  <2>3. KnowledgeInv(v)'
    BY <1>0, <1>3, <2>1, <2>2, CallGoes
  <2> QED
    BY <1>2, <1>3, <2>3, KnowledgeStays DEF KnowledgeActs
<1>4. CASE Knowledge(v)!Accepted(x, old) /\ entry' = [entry EXCEPT ![e] = r]
  <2>1. /\ x.life \in Nat /\ x.saves \in Nat /\ old.life \in Nat /\ old.saves \in Nat
        /\ old.saves = x.saves - 1 /\ Knowledge(v)!KeepsHistory(x, old)
    BY <1>0, <1>4 DEF EntryRow, Knowledge!Accepted
  <2>2. /\ r.life = old.life /\ r.saves = x.saves /\ r.lifecycle = x.lifecycle
        /\ r.versions = x.versions /\ r \in EntryRow(v)
    BY <1>0, <2>1 DEF EntryRow
  <2>3. r.saves = old.saves + 1
    BY <2>1, <2>2
  <2> HIDE DEF r
  <2>4. SavedOften(v, r) /\ Knowledge(v)!KeepsHistory(r, old) /\ r.lifecycle # "none"
    BY <1>0, <2>1, <2>2 DEF SavedOften, Knowledge!KeepsHistory
  <2>5. KnowledgeInv(v)' /\ Knowledge(v)!AddsVersions
    BY <1>0, <1>1, <1>4, <2>2, <2>3, <2>4, EntrySaved
  <2>6. Knowledge(v)!KeepsArchived
    <3>1. SUFFICES ASSUME NEW f \in v.entries, entry[f].lifecycle = "archived",
                          entry'[f].lifecycle # "archived"
                   PROVE  Knowledge(v)!OfEarlierLife(c, f) /\ remembering'[c].at = "idle"
      BY DEF Knowledge!KeepsArchived
    <3>2. f = e
      BY <1>0, <1>4, <3>1 DEF KnowledgeInv, KnowledgeKinds
    <3>3. x.life < old.life
      BY <1>0, <2>1, <3>1, <3>2 DEF LoadedFrom
    <3>4. remembering'[c].at = "idle"
      BY <1>1 DEF Knowledge!Ends, Knowledge!Call, KnowledgeInv, KnowledgeKinds
    <3> QED
      BY <1>0, <3>2, <3>3, <3>4 DEF Knowledge!OfEarlierLife
  <2> QED
    BY <1>2, <2>5, <2>6 DEF KnowledgeActs
<1> QED
  BY <1>1, <1>3, <1>4

\* Steps of a call between what it loads and what it saves.
LEMMA KnowledgeCallsOn ==
  ASSUME NEW v, Knowledge(v)!KnowledgeAssumption, KnowledgeInv(v), NEW c \in Firsts,
         Knowledge(v)!Count(c) \/ Knowledge(v)!Check(c)
  PROVE  KnowledgeInv(v)' /\ KnowledgeActs(v)
<1> DEFINE x == remembering[c]
           over == Knowledge(v)!Call("idle", None, None, None, "none")
<1>0. /\ x \in KnowledgeCall(v) /\ EntryInHand(v, x) /\ MemoryInHand(v, x)
      /\ UNCHANGED <<entry, memories, expired, published, time, collected>>
  BY DEF KnowledgeInv, KnowledgeKinds, Knowledge!Count, Knowledge!Check, Knowledge!Stored
<1>1. \/ remembering' = [remembering EXCEPT ![c] = over]
      \/ x.at = "counting" /\ remembering' = [remembering EXCEPT ![c].at = "persisting"]
      \/ x.at = "remembering" /\ remembering' = [remembering EXCEPT ![c].at = "inserting"]
  BY Zenon DEF Knowledge!Count, Knowledge!Check, Knowledge!Ends
<1>2. KnowledgeActs(v)
  BY <1>0, KnowledgeStays DEF KnowledgeActs
<1>3. CASE remembering' = [remembering EXCEPT ![c] = over]
  <2>1. over \in KnowledgeCall(v) /\ EntryInHand(v, over) /\ MemoryInHand(v, over)
    BY CallEnds
  <2> HIDE DEF over
  <2> QED
    BY <1>0, <1>2, <1>3, <2>1, CallGoes
<1>4. ASSUME NEW at, \/ at = "persisting" /\ x.at = "counting"
                     \/ at = "inserting" /\ x.at = "remembering",
             remembering' = [remembering EXCEPT ![c].at = at]
      PROVE  KnowledgeInv(v)'
  <2> DEFINE y == [x EXCEPT !.at = at]
  <2>1. y \in KnowledgeCall(v) /\ EntryInHand(v, y) /\ MemoryInHand(v, y)
    BY <1>0, <1>4 DEF KnowledgeCall, EntryInHand, MemoryInHand
  <2>2. remembering' = [remembering EXCEPT ![c] = y]
    BY <1>4
  <2> HIDE DEF y
  <2> QED
    BY <1>0, <2>1, <2>2, CallGoes
<1> QED
  BY <1>1, <1>2, <1>3, <1>4

\* What is made to be remembered is what the version says.
LEMMA KnowledgeRemembers ==
  ASSUME NEW v, Knowledge(v)!KnowledgeAssumption, KnowledgeInv(v),
         NEW c \in Firsts, NEW m \in v.memories, Knowledge(v)!Remember(c, m)
  PROVE  KnowledgeInv(v)' /\ KnowledgeActs(v)
<1> DEFINE held == entry[v.entry[m]]
           fresh_ == [content |-> Knowledge(v)!Newest(held), created |-> time]
           memory == IF m \in Knowledge(v)!Listed THEN memories[m] ELSE fresh_
           x == Knowledge(v)!Call("remembering", m, None, memory, "none")
<1>0. /\ v.entry[m] \in v.entries /\ held \in EntryRow(v) /\ SavedOften(v, held)
      /\ Len(held.versions) \in Nat /\ held.versions \in Seq(SUBSET v.facts) /\ time \in 0..v.hours
      /\ memories[m] \in MemoryRow(v) \union {None}
      /\ v.version[m] \in Nat \ {0}
  BY KnowledgeAssumed, LenProperties DEF KnowledgeInv, KnowledgeKinds, EntryRow
<1>1. /\ UNCHANGED <<entry, memories, expired, published, time, collected>>
      /\ remembering' = [remembering EXCEPT ![c] = x]
      /\ Len(held.versions) = v.version[m]
  BY DEF Knowledge!Remember, Knowledge!Stored, Knowledge!Rememberable, Knowledge!Version
<1>2. held.versions[Len(held.versions)] \in SUBSET v.facts
  BY <1>0, <1>1, ElementOfSeq
<1>3. fresh_ \in MemoryRow(v) /\ SaysOf(v, m, fresh_)
  BY <1>0, <1>1, <1>2 DEF MemoryRow, SaysOf, Knowledge!Newest, Knowledge!Version
<1>4. m \in Knowledge(v)!Listed => /\ memories[m] \in MemoryRow(v)
                                   /\ v.collections = 0 => SaysOf(v, m, memories[m])
  BY <1>0 DEF Knowledge!Listed, KnowledgeInv, MemoriesInv
<1> HIDE DEF fresh_
<1>5. memory \in MemoryRow(v) /\ (v.collections = 0 => SaysOf(v, m, memory))
  BY <1>3, <1>4
<1> HIDE DEF memory
<1>6. x \in KnowledgeCall(v) /\ EntryInHand(v, x) /\ MemoryInHand(v, x)
  BY <1>5 DEF KnowledgeCall, EntryInHand, MemoryInHand, Knowledge!Call
<1> HIDE DEF x
<1>7. KnowledgeInv(v)'
  BY <1>1, <1>6, CallGoes
<1> QED
  BY <1>1, <1>7, KnowledgeStays DEF KnowledgeActs

\* A memory is inserted where there is none.
LEMMA KnowledgeInserts ==
  ASSUME NEW v, Knowledge(v)!KnowledgeAssumption, KnowledgeInv(v), NEW c \in Firsts,
         Knowledge(v)!Insert(c)
  PROVE  KnowledgeInv(v)' /\ KnowledgeActs(v)
<1> DEFINE m == remembering[c].of
           memory == remembering[c].memory
<1>0. /\ m \in v.memories /\ memory \in MemoryRow(v)
      /\ v.collections = 0 => SaysOf(v, m, memory)
      /\ UNCHANGED <<entry, expired, published, time, collected>>
  BY DEF KnowledgeInv, KnowledgeKinds, MemoryInHand, Knowledge!Insert
<1>1. PICK was \in {"none", "conflict"} : Knowledge(v)!Ends(c, was)
  BY DEF Knowledge!Insert
<1> DEFINE over == Knowledge(v)!Call("idle", None, None, None, was)
<1>2. /\ over \in KnowledgeCall(v) /\ EntryInHand(v, over) /\ MemoryInHand(v, over)
      /\ remembering' = [remembering EXCEPT ![c] = over]
  BY <1>1, CallEnds DEF Knowledge!Ends
<1> HIDE DEF over
<1>3. CASE memories' = memories
  <2>1. KnowledgeInv(v)'
    BY <1>0, <1>2, <1>3, CallGoes
  <2> QED
    BY <1>0, <1>3, <2>1, KnowledgeStays DEF KnowledgeActs
<1>4. CASE memories[m] = None /\ memories' = [memories EXCEPT ![m] = memory]
  <2>0. memories \in [v.memories -> MemoryRow(v) \union {None}]
        /\ expired \subseteq {k \in v.memories : memories[k] # None}
        /\ remembering \in [Firsts -> KnowledgeCall(v)]
    BY DEF KnowledgeInv, KnowledgeKinds
  <2>1. /\ memories' \in [v.memories -> MemoryRow(v) \union {None}]
        /\ \A k \in v.memories : memories'[k] = IF k = m THEN memory ELSE memories[k]
    BY <1>0, <1>4, <2>0
  <2>2. expired \subseteq {k \in v.memories : memories'[k] # None}
    BY <1>4, <2>0, <2>1
  <2>3. KnowledgeKinds(v)'
    BY <1>0, <1>2, <2>0, <2>1, <2>2 DEF KnowledgeKinds, KnowledgeInv
  <2>4. MemoriesInv(v)'
    BY <1>0, <2>1 DEF MemoriesInv, KnowledgeInv, SaysOf
  <2>5. ASSUME NEW d \in Firsts
        PROVE  EntryInHand(v, remembering'[d]) /\ MemoryInHand(v, remembering'[d])
    BY <1>2, <2>0 DEF KnowledgeInv
  <2>6. ASSUME NEW d \in Firsts
        PROVE  EntryInHand(v, remembering[d])' /\ MemoryInHand(v, remembering[d])'
    BY <1>0, <2>5 DEF EntryInHand, MemoryInHand, SaysOf
  <2>7. KnowledgeInv(v)'
    BY <1>0, <2>3, <2>4, <2>6 DEF KnowledgeInv
  <2>8. Knowledge(v)!ReplacesNoMemory
    BY <1>4, <2>1 DEF Knowledge!ReplacesNoMemory
  <2> QED
    BY <1>0, <2>7, <2>8, KnowledgeStays DEF KnowledgeActs
<1> QED
  BY <1>3, <1>4 DEF Knowledge!Insert, Knowledge!Inserted

\* Start-up and the environment.
LEMMA KnowledgeRecovers ==
  ASSUME NEW v, Knowledge(v)!KnowledgeAssumption, KnowledgeInv(v),
         Knowledge(v)!Recover \/ Knowledge(v)!Publish \/ Knowledge(v)!Tick
  PROVE  KnowledgeInv(v)' /\ KnowledgeActs(v)
<1>0. /\ UNCHANGED <<entry, memories, remembering, collected>>
      /\ expired' \subseteq {m \in v.memories : memories[m] # None}
      /\ published' \in v.revisions /\ time' \in 0..v.hours
  BY KnowledgeAssumed DEF Knowledge!Recover, Knowledge!Publish, Knowledge!Tick,
     KnowledgeInv, KnowledgeKinds
<1>1. KnowledgeKinds(v)'
  BY <1>0 DEF KnowledgeInv, KnowledgeKinds
<1>2. \A d \in Firsts : EntryInHand(v, remembering[d])' /\ MemoryInHand(v, remembering[d])'
  BY <1>0 DEF KnowledgeInv, EntryInHand, MemoryInHand, SaysOf
<1>3. (\A e \in v.entries : SavedOften(v, entry[e]))' /\ MemoriesInv(v)'
  BY <1>0 DEF KnowledgeInv, MemoriesInv, SaysOf
<1>4. KnowledgeInv(v)'
  BY <1>1, <1>2, <1>3 DEF KnowledgeInv
<1> QED
  BY <1>0, <1>4, KnowledgeStays DEF KnowledgeActs

\* A collected entry begins a life of its own, and a row in hand is of an
\* earlier one.
LEMMA KnowledgeCollects ==
  ASSUME NEW v, Knowledge(v)!KnowledgeAssumption, KnowledgeInv(v), Knowledge(v)!Collect
  PROVE  KnowledgeInv(v)' /\ KnowledgeActs(v)
<1>0. /\ v.collections \in Nat /\ collected \in 0..v.collections /\ collected < v.collections
      /\ collected' = collected + 1
      /\ UNCHANGED <<published, time, remembering>>
      /\ entry \in [v.entries -> EntryRow(v)]
      /\ memories \in [v.memories -> MemoryRow(v) \union {None}]
      /\ expired \subseteq {m \in v.memories : memories[m] # None}
      /\ v.hours \in Nat /\ 0 \in 0..v.hours /\ v.versions \in Nat
  BY KnowledgeAssumed DEF KnowledgeInv, KnowledgeKinds, Knowledge!Collect
<1>1. PICK gone \in SUBSET v.entries, stays \in SUBSET {m \in v.memories : memories[m] # None} :
        /\ entry' = [e \in v.entries |-> IF e \in gone THEN Knowledge(v)!NoRow(entry[e].life + 1)
                                         ELSE entry[e]]
        /\ memories' = [m \in v.memories |-> IF m \in stays THEN memories[m] ELSE None]
        /\ expired' = expired \intersect stays
  <2>1. PICK kept, left :
          left \in Knowledge(v)!Latest({m \in v.memories : memories[m] # None},
                 [m \in {n \in v.memories : memories[n] # None} |-> memories[m].created],
                 RetainedMemories) /\
          LET gone == {e \in v.entries : entry[e].lifecycle = "archived"} \ kept
              stays == {m \in left : v.entry[m] \notin gone}
          IN  /\ entry' = [e \in v.entries |-> IF e \in gone THEN Knowledge(v)!NoRow(entry[e].life + 1)
                                               ELSE entry[e]]
              /\ memories' = [m \in v.memories |-> IF m \in stays THEN memories[m] ELSE None]
              /\ expired' = expired \intersect stays
    BY DEF Knowledge!Collect
  <2>2. left \subseteq {m \in v.memories : memories[m] # None}
    BY <2>1 DEF Knowledge!Latest
  <2> QED
    BY <2>1, <2>2
<1>2. ASSUME NEW e \in v.entries
      PROVE  /\ entry'[e] \in EntryRow(v) /\ SavedOften(v, entry'[e])
             /\ entry'[e] = entry[e] \/ entry'[e].life = entry[e].life + 1
  <2>1. entry[e] \in EntryRow(v) /\ SavedOften(v, entry[e]) /\ entry[e].life \in Nat
    BY <1>0 DEF KnowledgeInv, EntryRow
  <2> DEFINE life == entry[e].life + 1
             r == Knowledge(v)!NoRow(life)
  <2>2. life \in Nat /\ life = entry[e].life + 1
    BY <2>1
  <2> HIDE DEF life
  <2>3. <<>> \in Seq(SUBSET v.facts) /\ Len(<<>>) = 0
    OBVIOUS
  <2>4. r \in EntryRow(v) /\ r.life = life /\ r.saves = 0 /\ r.versions = <<>> /\ r.lifecycle = "none"
    BY <1>0, <2>2, <2>3 DEF Knowledge!NoRow, EntryRow
  <2>5. entry'[e] = entry[e] \/ entry'[e] = r
    BY <1>1 DEF life
  <2> HIDE DEF r
  <2>6. SavedOften(v, r)
    BY <1>0, <2>3, <2>4 DEF SavedOften
  <2> QED
    BY <2>1, <2>2, <2>4, <2>5, <2>6
<1>3. entry' \in [v.entries -> EntryRow(v)]
  BY <1>1, <1>2
<1>4. /\ memories' \in [v.memories -> MemoryRow(v) \union {None}]
      /\ expired' \subseteq {m \in v.memories : memories'[m] # None}
  BY <1>0, <1>1
<1>5. collected' \in 0..v.collections
  BY <1>0
<1>6. KnowledgeKinds(v)'
  BY <1>0, <1>3, <1>4, <1>5 DEF KnowledgeKinds, KnowledgeInv
<1>7. v.collections # 0
  BY <1>0
<1>8. ASSUME NEW d \in Firsts
      PROVE  EntryInHand(v, remembering[d])' /\ MemoryInHand(v, remembering[d])'
  <2> DEFINE x == remembering[d]
  <2>1. EntryInHand(v, x) /\ MemoryInHand(v, x) /\ remembering'[d] = x
    BY <1>0 DEF KnowledgeInv
  <2>2. ASSUME x.at \in {"counting", "persisting"} PROVE LoadedFrom(x.row, entry'[x.of])
    <3>1. /\ x.of \in v.entries /\ x.row \in EntryRow(v) /\ LoadedFrom(x.row, entry[x.of])
          /\ x.row.life \in Nat /\ entry[x.of].life \in Nat
      BY <1>0, <2>1, <2>2 DEF EntryInHand, EntryRow
    <3> QED
      BY <1>2, <3>1 DEF LoadedFrom
  <2> QED
    BY <1>7, <2>1, <2>2 DEF EntryInHand, MemoryInHand
<1>9. KnowledgeInv(v)'
  BY <1>2, <1>6, <1>7, <1>8 DEF KnowledgeInv, MemoriesInv
<1>10. \A e \in v.entries : entry[e].life \in Nat /\ Len(entry[e].versions) \in Nat
  BY <1>0, LenProperties DEF EntryRow
<1>11. Knowledge(v)!AddsVersions /\ Knowledge(v)!KeepsArchived
  <2>1. \A e \in v.entries : Knowledge(v)!SameLife(e) => entry'[e] = entry[e]
    BY <1>2, <1>10 DEF Knowledge!SameLife
  <2> QED
    BY <1>10, <2>1 DEF Knowledge!AddsVersions, Knowledge!KeepsArchived, Knowledge!Version,
       Knowledge!KeepsHistory
<1>12. Knowledge(v)!ReplacesNoMemory
  BY <1>1 DEF Knowledge!ReplacesNoMemory
<1> QED
  BY <1>9, <1>11, <1>12 DEF KnowledgeActs

LEMMA KnowledgeStep ==
  ASSUME NEW v, Knowledge(v)!KnowledgeAssumption, KnowledgeInv(v), Knowledge(v)!Next
  PROVE  KnowledgeInv(v)' /\ KnowledgeActs(v)
<1>1. CASE \E c \in Firsts, e \in v.entries :
             \/ Knowledge(v)!Archive(c, e)
             \/ \E facts \in SUBSET v.facts :
                  \/ Knowledge(v)!Create(c, e, facts)
                  \/ \E merge \in BOOLEAN : Knowledge(v)!Evolve(c, e, facts, merge)
  <2>1. KnowledgeInv(v)'
    BY <1>1, KnowledgeLoads
  <2>2. UNCHANGED <<entry, memories>>
    BY <1>1 DEF Knowledge!Archive, Knowledge!Create, Knowledge!Evolve, Knowledge!Stored
  <2> QED
    BY <2>1, <2>2, KnowledgeStays DEF KnowledgeActs
<1>2. ASSUME NEW c \in Firsts,
             \/ Knowledge(v)!Count(c) \/ Knowledge(v)!Persist(c)
             \/ Knowledge(v)!Check(c) \/ Knowledge(v)!Insert(c)
      PROVE  KnowledgeInv(v)' /\ KnowledgeActs(v)
  BY <1>2, KnowledgeCallsOn, KnowledgePersists, KnowledgeInserts
<1>3. ASSUME NEW c \in Firsts, NEW m \in v.memories, Knowledge(v)!Remember(c, m)
      PROVE  KnowledgeInv(v)' /\ KnowledgeActs(v)
  BY <1>3, KnowledgeRemembers
<1> QED
  BY <1>1, <1>2, <1>3, KnowledgeRecovers, KnowledgeCollects, Zenon DEF Knowledge!Next

-----------------------------------------------------------------------------
(* The sandboxes of one owner.                                              *)

LeaseOf(v) == [owner: v.workers, started: 0..v.hours, expires: Nat, released: BOOLEAN]
Reasons == {"expired_lease", "abandoned_sandbox", "failed_preparation"}
SandboxRow(v) ==
  [version: Nat, life: 0..v.lives,
   lifecycle: {"creating", "ready", "leased", "released", "archived", "failed"},
   leases: Seq(LeaseOf(v)), failure: {"none", "preparation", "abandoned"},
   history: Seq(Reasons \X Nat), updated: 0..v.hours]
NoSandboxRow ==
  [version |-> 0, life |-> 0, lifecycle |-> "archived", leases |-> <<>>,
   failure |-> "none", history |-> <<>>, updated |-> 0]
Unclaimed == [sandbox |-> None, fence |-> 0, started |-> 0, until |-> 0]

\* Only the last lease of a leased sandbox is open.
LastIsOpen(r) ==
  /\ r.lifecycle = "leased" => Len(r.leases) # 0 /\ ~r.leases[Len(r.leases)].released
  /\ \A i \in 1..Len(r.leases) :
       r.lifecycle # "leased" \/ i # Len(r.leases) => r.leases[i].released
RowSound(r) == Len(r.history) <= RetainedRecoveries /\ LastIsOpen(r)

HolderOf(r) == r.leases[Len(r.leases)].owner
LeasedNow(v) == {s \in v.sandboxes : sandbox[s].version > 0 /\ sandbox[s].lifecycle = "leased"}
\* Those that have counted the leases and have not saved theirs.
Acquiring(v) ==
  {w \in v.workers :
     leasing[w].save # None /\ leasing[w].row.lifecycle = "leased" /\ claim[w] = Unclaimed}

\* What a save that would be accepted makes of the sandbox: it was computed from
\* the row there is.
MadeFrom(v, w, s, r) ==
  /\ sandbox[s].version = 0 => r.life = sandboxes[s] + 1
  /\ sandbox[s].version # 0 /\ sandbox[s].lifecycle \in {"released", "archived"} =>
       r.lifecycle = "archived"
  /\ sandbox[s].lifecycle = "leased" => HolderOf(sandbox[s]) = w
  /\ r.lifecycle = "leased" /\ sandbox[s].lifecycle # "leased" => claim[w] = Unclaimed
SaveFits(v, w, s, r) ==
  /\ RowSound(r) /\ r.version > 0 /\ r.version <= sandbox[s].version + 1
  /\ r.lifecycle = "leased" => HolderOf(r) = w
  /\ r.version = sandbox[s].version + 1 => MadeFrom(v, w, s, r)
PendingInv(v, w) ==
  /\ RowSound(leasing[w].row)
  /\ leasing[w].save # None /\ standing # "deleted" =>
       SaveFits(v, w, leasing[w].save, leasing[w].row)

\* A starting backend listed what is there, or what was there before.
ListedInv(v) ==
  /\ starting.now <= clock
  /\ \A s \in v.sandboxes :
       /\ starting.at # "recovering" => starting.listed[s] = NoSandboxRow
       /\ starting.listed[s] # NoSandboxRow =>
            /\ starting.listed[s].version > 0
            /\ starting.listed[s].lifecycle \in {"creating", "leased", "failed"}
            /\ standing # "deleted" =>
                 /\ starting.listed[s].version <= sandbox[s].version
                 /\ starting.listed[s].version = sandbox[s].version => sandbox[s] = starting.listed[s]
       /\ RowSound(starting.listed[s])

\* A claim whose time is not over is the open lease of its sandbox.
IsOpenLease(w, k, r) ==
  /\ r.lifecycle = "leased" /\ k.fence = Len(r.leases)
  /\ HolderOf(r) = w /\ r.leases[k.fence].started = k.started
  /\ r.leases[k.fence].expires = k.until
ClaimFits(w, k) ==
  /\ k.sandbox = None => k = Unclaimed
  /\ k.sandbox # None /\ standing # "deleted" =>
       k.until <= clock \/ IsOpenLease(w, k, sandbox[k.sandbox])

LendingKinds(v) ==
  /\ sandbox \in [v.sandboxes -> SandboxRow(v)]
  /\ leaseRows = [s \in v.sandboxes |-> leaseRows[s]]
  /\ standing \in {"current", "past", "deleted"} /\ clock \in 0..v.hours /\ starts \in 0..v.starts
  /\ leasing \in [v.workers -> [save: v.sandboxes \union {None}, row: SandboxRow(v)]]
  /\ claim \in [v.workers -> [sandbox: v.sandboxes \union {None}, fence: Nat, started: Nat,
                              until: Nat]]
  /\ starting \in [at: {"rest", "recovering", "exited"}, now: 0..v.hours,
                   listed: [v.sandboxes -> SandboxRow(v)]]
  /\ sandboxes \in [v.sandboxes -> 0..v.lives]
RowsInv(v) ==
  \A s \in v.sandboxes :
    /\ RowSound(sandbox[s]) /\ (sandbox[s].version = 0 => sandbox[s] = NoSandboxRow)
    /\ Cardinality({l \in leaseRows[s] : ~l.lease.released}) <= 1
GoneInv(v) ==
  standing = "deleted" => \A s \in v.sandboxes : sandbox[s] = NoSandboxRow /\ leaseRows[s] = {}

\* What was counted was below the quota, and no worker has counted twice.
QuotaInv(v) ==
  Cardinality(LeasedNow(v)) + Cardinality(Acquiring(v)) < LeasesPerOwner + Cardinality(v.workers)
LendingInv(v) ==
  /\ LendingKinds(v) /\ RowsInv(v) /\ GoneInv(v) /\ QuotaInv(v) /\ ListedInv(v)
  /\ \A w \in v.workers : PendingInv(v, w) /\ ClaimFits(w, claim[w])

LEMMA LendingAssumed ==
  ASSUME NEW v, Lending(v)!SandboxAssumption
  PROVE  /\ v.hours \in Nat /\ v.starts \in Nat /\ v.lives \in Nat /\ v.term \in Nat
         /\ LeasesPerOwner \in Nat /\ RetainedRecoveries \in Nat \ {0}
         /\ RetainedSandboxes \in Nat /\ PreparationTimeout \in Nat
         /\ IsFiniteSet(v.sandboxes) /\ None \notin v.sandboxes
         /\ IsFiniteSet(v.workers) /\ v.workers # {}
BY DEF Lending!SandboxAssumption, Lending!IsFiniteSet, IsFiniteSet

LEMMA NothingLent ==
  ASSUME NEW v, Lending(v)!SandboxAssumption
  PROVE  /\ NoSandboxRow \in SandboxRow(v) /\ RowSound(NoSandboxRow)
         /\ NoSandboxRow.version = 0 /\ NoSandboxRow.lifecycle = "archived"
         /\ NoSandboxRow.leases = <<>> /\ NoSandboxRow.life = 0 /\ NoSandboxRow.failure = "none"
         /\ NoSandboxRow.history = <<>>
<1>1. /\ <<>> \in Seq(LeaseOf(v)) /\ <<>> \in Seq(Reasons \X Nat) /\ Len(<<>>) = 0
      /\ 0 \in 0..v.hours /\ 0 \in 0..v.lives /\ RetainedRecoveries \in Nat
  BY LendingAssumed
<1>2. /\ NoSandboxRow.version = 0 /\ NoSandboxRow.lifecycle = "archived"
      /\ NoSandboxRow.leases = <<>> /\ NoSandboxRow.life = 0 /\ NoSandboxRow.failure = "none"
      /\ NoSandboxRow.history = <<>>
  BY DEF NoSandboxRow
<1>3. NoSandboxRow \in SandboxRow(v)
  BY <1>1 DEF NoSandboxRow, SandboxRow
<1>4. RowSound(NoSandboxRow)
  BY <1>1, <1>2 DEF RowSound, LastIsOpen
<1> QED
  BY <1>2, <1>3, <1>4

LEMMA LendingBegins ==
  ASSUME NEW v, Lending(v)!SandboxAssumption, Lending(v)!Init
  PROVE  LendingInv(v)
<1>0. /\ v.hours \in Nat /\ v.starts \in Nat /\ v.lives \in Nat /\ LeasesPerOwner \in Nat
      /\ NoSandboxRow \in SandboxRow(v) /\ RowSound(NoSandboxRow)
      /\ NoSandboxRow.version = 0 /\ NoSandboxRow.lifecycle = "archived"
  BY LendingAssumed, NothingLent
<1>1. /\ sandbox = [s \in v.sandboxes |-> NoSandboxRow]
      /\ leaseRows = [s \in v.sandboxes |-> {}]
      /\ standing = "current" /\ clock = 0 /\ starts = 0
      /\ leasing = [w \in v.workers |-> [save |-> None, row |-> NoSandboxRow]]
      /\ claim = [w \in v.workers |-> Unclaimed]
      /\ starting = [at |-> "rest", now |-> 0, listed |-> [s \in v.sandboxes |-> NoSandboxRow]]
      /\ sandboxes = [s \in v.sandboxes |-> 0]
  BY DEF Lending!Init, Lending!NoRow, Lending!NoCall, Lending!NoClaim, Lending!AtRest,
     NoSandboxRow, Unclaimed
<1>2. LendingKinds(v)
  <2>1. /\ leasing \in [v.workers -> [save: v.sandboxes \union {None}, row: SandboxRow(v)]]
        /\ claim \in [v.workers -> [sandbox: v.sandboxes \union {None}, fence: Nat, started: Nat,
                                    until: Nat]]
    BY <1>0, <1>1 DEF Unclaimed
  <2>2. starting \in [at: {"rest", "recovering", "exited"}, now: 0..v.hours,
                      listed: [v.sandboxes -> SandboxRow(v)]]
    BY <1>0, <1>1
  <2>3. /\ sandbox \in [v.sandboxes -> SandboxRow(v)] /\ leaseRows = [s \in v.sandboxes |-> leaseRows[s]]
        /\ sandboxes \in [v.sandboxes -> 0..v.lives]
    BY <1>0, <1>1
  <2>4. standing \in {"current", "past", "deleted"} /\ clock \in 0..v.hours /\ starts \in 0..v.starts
    <3>1. standing = "current" /\ clock = 0 /\ starts = 0
      BY <1>1
    <3>2. 0 \in 0..v.hours /\ 0 \in 0..v.starts
      BY <1>0
    <3> QED
      BY <3>1, <3>2
  <2> QED
    BY <2>1, <2>2, <2>3, <2>4 DEF LendingKinds
<1>3. RowsInv(v)
  <2> SUFFICES ASSUME NEW s \in v.sandboxes
               PROVE  /\ RowSound(sandbox[s]) /\ sandbox[s] = NoSandboxRow
                      /\ Cardinality({l \in leaseRows[s] : ~l.lease.released}) <= 1
    BY DEF RowsInv
  <2>1. {l \in leaseRows[s] : ~l.lease.released} = {}
    BY <1>1
  <2>2. Cardinality({l \in leaseRows[s] : ~l.lease.released}) = 0
    BY <2>1, FS_EmptySet
  <2> QED
    BY <1>0, <1>1, <2>2
<1>4. QuotaInv(v)
  <2>1. LeasedNow(v) = {} /\ Acquiring(v) = {}
    BY <1>0, <1>1 DEF LeasedNow, Acquiring
  <2>2. Cardinality({}) = 0 /\ Cardinality(v.workers) \in Nat /\ Cardinality(v.workers) # 0
    BY LendingAssumed, FS_EmptySet, FS_CardinalityType
  <2> QED
    BY <1>0, <2>1, <2>2 DEF QuotaInv
<1>5. ListedInv(v) /\ GoneInv(v)
  BY <1>0, <1>1 DEF ListedInv, GoneInv
<1>6. \A w \in v.workers : PendingInv(v, w) /\ ClaimFits(w, claim[w])
  BY <1>0, <1>1 DEF PendingInv, ClaimFits, Unclaimed
<1> QED
  BY <1>2, <1>3, <1>4, <1>5, <1>6 DEF LendingInv

LEMMA LendingSays ==
  ASSUME NEW v, Lending(v)!SandboxAssumption, LendingInv(v)
  PROVE  /\ Lending(v)!TypeOK /\ Lending(v)!HeldIsLeased
         /\ Lending(v)!NoneOfADeleted /\ Lending(v)!LeaseQuota
<1>0. LendingKinds(v) /\ RowsInv(v) /\ ListedInv(v) /\ GoneInv(v) /\ QuotaInv(v)
  BY DEF LendingInv
<1>1. ASSUME NEW r \in SandboxRow(v), Len(r.history) <= RetainedRecoveries
      PROVE  Lending(v)!IsRow(r)
  <2>1. \A i \in DOMAIN r.leases : r.leases[i] \in LeaseOf(v)
    <3>1. r.leases \in Seq(LeaseOf(v))
      BY DEF SandboxRow
    <3> QED
      BY <3>1, LenProperties, ElementOfSeq
  <2> QED
    BY <1>1, <2>1 DEF SandboxRow, LeaseOf, Lending!IsRow, Lending!Lease, Lending!Lifecycles
<1>2. ASSUME NEW s \in v.sandboxes
      PROVE  /\ Lending(v)!IsRow(sandbox[s]) /\ Lending(v)!IsRow(starting.listed[s])
             /\ (sandbox[s].lifecycle = "leased") <=>
                  (Cardinality({i \in DOMAIN sandbox[s].leases : ~sandbox[s].leases[i].released}) = 1)
  <2> DEFINE r == sandbox[s]
             open_ == {i \in DOMAIN r.leases : ~r.leases[i].released}
  <2>1. r \in SandboxRow(v) /\ RowSound(r)
        /\ starting.listed[s] \in SandboxRow(v) /\ RowSound(starting.listed[s])
    BY <1>0 DEF LendingKinds, RowsInv, ListedInv
  <2>2. Len(r.leases) \in Nat /\ DOMAIN r.leases = 1..Len(r.leases)
    BY <2>1, LenProperties DEF SandboxRow
  <2>3. CASE r.lifecycle = "leased"
    <3>1. open_ = {Len(r.leases)}
      BY <2>1, <2>2, <2>3 DEF RowSound, LastIsOpen
    <3> QED
      BY <1>1, <2>1, <2>3, <3>1, FS_Singleton DEF RowSound
  <2>4. CASE r.lifecycle # "leased"
    <3>1. open_ = {}
      BY <2>1, <2>2, <2>4 DEF RowSound, LastIsOpen
    <3>2. Cardinality(open_) = 0
      BY <3>1, FS_EmptySet
    <3> QED
      BY <1>1, <2>1, <2>4, <3>2 DEF RowSound
  <2> QED
    BY <2>3, <2>4
<1>3. ASSUME NEW w \in v.workers PROVE Lending(v)!IsRow(leasing[w].row)
  BY <1>0, <1>1 DEF LendingInv, LendingKinds, PendingInv, SaveFits, RowSound
<1>4. Lending(v)!HeldIsLeased
  <2> SUFFICES ASSUME NEW w \in v.workers, claim[w] # Unclaimed, clock < claim[w].until,
                      standing # "deleted"
               PROVE  Lending(v)!Holds(w, sandbox[claim[w].sandbox], claim[w].fence)
    BY DEF Lending!HeldIsLeased, Lending!NoClaim, Unclaimed
  <2> DEFINE k == claim[w]
             r == sandbox[k.sandbox]
  <2>1. /\ ClaimFits(w, k) /\ k \in [sandbox: v.sandboxes \union {None}, fence: Nat, started: Nat,
                              until: Nat] /\ clock \in Nat
    BY <1>0, LendingAssumed DEF LendingInv, LendingKinds
  <2>2. k.sandbox \in v.sandboxes /\ IsOpenLease(w, k, r)
    BY <2>1 DEF ClaimFits
  <2>3. r \in SandboxRow(v) /\ LastIsOpen(r)
    BY <1>0, <2>2 DEF LendingKinds, RowsInv, RowSound
  <2>4. Len(r.leases) \in Nat /\ DOMAIN r.leases = 1..Len(r.leases)
    BY <2>3, LenProperties DEF SandboxRow
  <2>5. r.lifecycle = "leased" /\ k.fence = Len(r.leases)
    BY <2>2 DEF IsOpenLease
  <2>6. Len(r.leases) # 0 /\ ~r.leases[Len(r.leases)].released
    BY <2>3, <2>5 DEF LastIsOpen
  <2>7. k.fence \in DOMAIN r.leases /\ ~r.leases[k.fence].released
    <3> HIDE DEF k, r
    <3> QED
      BY <2>4, <2>5, <2>6
  <2> QED
    BY <2>2, <2>7 DEF IsOpenLease, HolderOf, Lending!Holds
<1>5. Lending(v)!LeaseQuota
  <2>1. {s \in v.sandboxes : Lending(v)!Present(s) /\ sandbox[s].lifecycle \in {"leased"}} = LeasedNow(v)
    BY DEF Lending!Present, LeasedNow
  <2>2. Lending(v)!InUse({"leased"}) = Cardinality(LeasedNow(v))
    BY <2>1 DEF Lending!InUse, Lending!Cardinality, Cardinality
  <2>3. Lending(v)!Cardinality(v.workers) = Cardinality(v.workers)
    BY DEF Lending!Cardinality, Cardinality
  <2>4. /\ Cardinality(LeasedNow(v)) \in Nat /\ Cardinality(Acquiring(v)) \in Nat
        /\ Cardinality(v.workers) \in Nat /\ LeasesPerOwner \in Nat
    <3>1. LeasedNow(v) \subseteq v.sandboxes /\ Acquiring(v) \subseteq v.workers
      BY DEF LeasedNow, Acquiring
    <3> QED
      BY <3>1, LendingAssumed, FS_Subset, FS_CardinalityType
  <2> QED
    BY <1>0, <2>2, <2>3, <2>4 DEF QuotaInv, Lending!LeaseQuota
<1>7. Lending(v)!NoneOfADeleted
  BY <1>0 DEF GoneInv, Lending!NoneOfADeleted, Lending!NoRow, NoSandboxRow
<1>6. Lending(v)!TypeOK
  BY <1>0, <1>2, <1>3 DEF LendingKinds, RowsInv, Lending!TypeOK, Lending!Cardinality, Cardinality
<1> QED
  BY <1>4, <1>5, <1>6, <1>7

\* No lease more, or one that its worker had counted for.
LEMMA CountedFor ==
  ASSUME NEW v, Lending(v)!SandboxAssumption, LendingInv(v),
         \/ LeasedNow(v)' \subseteq LeasedNow(v) /\ Acquiring(v)' \subseteq Acquiring(v)
         \/ /\ Cardinality(LeasedNow(v)) < LeasesPerOwner
            /\ LeasedNow(v)' \subseteq LeasedNow(v) /\ Acquiring(v)' \subseteq v.workers
         \/ \E s \in v.sandboxes, w \in Acquiring(v) :
              /\ LeasedNow(v)' \subseteq LeasedNow(v) \union {s}
              /\ Acquiring(v)' \subseteq Acquiring(v) \ {w}
  PROVE  QuotaInv(v)'
<1> DEFINE leased == LeasedNow(v)
           counted == Acquiring(v)
           leasedThen == LeasedNow(v)'
           countedThen == Acquiring(v)'
           all == v.workers
<1>1. IsFiniteSet(leased) /\ IsFiniteSet(counted) /\ IsFiniteSet(all) /\ counted \subseteq all
  <2>1. leased \subseteq v.sandboxes /\ counted \subseteq all
    BY DEF LeasedNow, Acquiring
  <2> QED
    BY <2>1, LendingAssumed, FS_Subset
<1>2. /\ Cardinality(leased) \in Nat /\ Cardinality(counted) \in Nat /\ Cardinality(all) \in Nat
      /\ LeasesPerOwner \in Nat /\ Cardinality(counted) <= Cardinality(all)
      /\ Cardinality(leased) + Cardinality(counted) < LeasesPerOwner + Cardinality(all)
  BY <1>1, LendingAssumed, FS_CardinalityType, FS_Subset DEF LendingInv, QuotaInv
<1> SUFFICES Cardinality(leasedThen) + Cardinality(countedThen) < LeasesPerOwner + Cardinality(all)
  BY DEF QuotaInv
<1>3. ASSUME leasedThen \subseteq leased
      PROVE  Cardinality(leasedThen) \in Nat /\ Cardinality(leasedThen) <= Cardinality(leased)
  <2> HIDE DEF leased, leasedThen
  <2> QED
    BY <1>1, <1>3, FS_Subset, FS_CardinalityType
<1>4. CASE leasedThen \subseteq leased /\ countedThen \subseteq counted
  <2> HIDE DEF leased, leasedThen, counted, countedThen
  <2>1. Cardinality(countedThen) \in Nat /\ Cardinality(countedThen) <= Cardinality(counted)
    BY <1>1, <1>4, FS_Subset, FS_CardinalityType
  <2> QED
    BY <1>2, <1>3, <1>4, <2>1
<1>5. CASE Cardinality(leased) < LeasesPerOwner /\ leasedThen \subseteq leased /\ countedThen \subseteq all
  <2> HIDE DEF leased, leasedThen, counted, countedThen
  <2>1. Cardinality(countedThen) \in Nat /\ Cardinality(countedThen) <= Cardinality(all)
    BY <1>1, <1>5, FS_Subset, FS_CardinalityType
  <2> QED
    BY <1>2, <1>3, <1>5, <2>1
<1>6. ASSUME NEW s \in v.sandboxes, NEW w \in counted,
             leasedThen \subseteq leased \union {s}, countedThen \subseteq counted \ {w}
      PROVE  Cardinality(leasedThen) + Cardinality(countedThen) < LeasesPerOwner + Cardinality(all)
  <2> HIDE DEF leased, leasedThen, counted, countedThen
  <2> DEFINE more == leased \union {s}
             fewer == counted \ {w}
  <2>1. IsFiniteSet(more) /\ Cardinality(more) \in Nat /\ Cardinality(more) <= Cardinality(leased) + 1
    <3>1. IsFiniteSet(more) /\ (Cardinality(more) = Cardinality(leased)
                               \/ Cardinality(more) = Cardinality(leased) + 1)
      BY <1>1, FS_AddElement
    <3> QED
      BY <1>2, <3>1
  <2>2. IsFiniteSet(fewer) /\ Cardinality(fewer) = Cardinality(counted) - 1
    BY <1>1, <1>6, FS_RemoveElement
  <2> HIDE DEF more, fewer
  <2>3. Cardinality(leasedThen) \in Nat /\ Cardinality(leasedThen) <= Cardinality(more)
    BY <1>6, <2>1, FS_Subset, FS_CardinalityType DEF more
  <2>4. Cardinality(countedThen) \in Nat /\ Cardinality(countedThen) <= Cardinality(fewer)
    BY <1>6, <2>2, FS_Subset, FS_CardinalityType DEF fewer
  <2> QED
    BY <1>2, <2>1, <2>2, <2>3, <2>4
<1> QED
  BY <1>4, <1>5, <1>6

\* The row's next version is a row.
LEMMA RowSaved ==
  ASSUME NEW v, Lending(v)!SandboxAssumption, NEW r \in SandboxRow(v), NEW at \in 0..v.hours,
         NEW lifecycle \in {"creating", "ready", "leased", "released", "archived", "failed"},
         NEW leases \in Seq(LeaseOf(v))
  PROVE  /\ Lending(v)!Saved(r, at, lifecycle, leases) \in SandboxRow(v)
         /\ Lending(v)!Saved(r, at, lifecycle, leases) =
              [version |-> r.version + 1, life |-> r.life, lifecycle |-> lifecycle, leases |-> leases,
               failure |-> r.failure, history |-> r.history, updated |-> at]
BY DEF SandboxRow, Lending!Saved

\* Every lease of a sandbox that is not leased is released.
LEMMA StaysClosed ==
  ASSUME NEW r, NEW n, RowSound(r), r.lifecycle # "leased", n.lifecycle # "leased",
         n.leases = r.leases, Len(n.history) <= RetainedRecoveries
  PROVE  RowSound(n)
BY DEF RowSound, LastIsOpen

\* A worker's operation has loaded a row and wants to save the next one.
LEMMA WorkerWants ==
  ASSUME NEW v, Lending(v)!SandboxAssumption, LendingInv(v), NEW w \in v.workers, NEW s \in v.sandboxes,
         NEW r \in SandboxRow(v), RowSound(r), r.version = sandbox[s].version + 1,
         r.lifecycle = "leased" => HolderOf(r) = w, MadeFrom(v, w, s, r),
         Lending(v)!Free(w), Lending(v)!Wants(w, s, r),
         r.lifecycle = "leased" /\ claim[w] = Unclaimed =>
           Cardinality(LeasedNow(v)) < LeasesPerOwner
  PROVE  LendingInv(v)'
<1>0. /\ leasing' = [leasing EXCEPT ![w] = [save |-> s, row |-> r]]
      /\ UNCHANGED <<sandbox, leaseRows, standing, clock, claim, starting, starts, sandboxes>>
      /\ LendingKinds(v) /\ sandbox[s].version \in Nat
  BY DEF Lending!Wants, LendingInv, LendingKinds, SandboxRow
<1> DEFINE k == [save |-> s, row |-> r]
<1>1. k \in [save: v.sandboxes \union {None}, row: SandboxRow(v)] /\ k.save = s /\ k.row = r
  OBVIOUS
<1> HIDE DEF k
<1>2. /\ leasing' \in [v.workers -> [save: v.sandboxes \union {None}, row: SandboxRow(v)]]
      /\ \A x \in v.workers : leasing'[x] = IF x = w THEN k ELSE leasing[x]
  <2>1. leasing \in [v.workers -> [save: v.sandboxes \union {None}, row: SandboxRow(v)]]
    BY <1>0 DEF LendingKinds
  <2>2. leasing' = [leasing EXCEPT ![w] = k]
    BY <1>0 DEF k
  <2> QED
    BY <1>1, <2>1, <2>2
<1>3. LendingKinds(v)'
  BY <1>0, <1>2 DEF LendingKinds
<1>4. SaveFits(v, w, s, r)
  BY <1>0 DEF SaveFits
<1>5. ASSUME NEW x \in v.workers PROVE PendingInv(v, x)' /\ ClaimFits(x, claim[x])'
  <2>1. /\ RowSound(leasing'[x].row)
        /\ leasing'[x].save # None /\ standing # "deleted" =>
             SaveFits(v, x, leasing'[x].save, leasing'[x].row)
    BY <1>1, <1>2, <1>4 DEF LendingInv, PendingInv
  <2>2. PendingInv(v, x)'
    BY <1>0, <2>1 DEF PendingInv, SaveFits, MadeFrom
  <2> QED
    BY <1>0, <2>2 DEF LendingInv, ClaimFits, IsOpenLease
<1>6. RowsInv(v)' /\ GoneInv(v)' /\ ListedInv(v)'
  BY <1>0 DEF LendingInv, RowsInv, GoneInv, ListedInv
<1>7. QuotaInv(v)'
  <2>1. LeasedNow(v)' = LeasedNow(v)
    BY <1>0 DEF LeasedNow
  <2>2. w \in Acquiring(v)' => Cardinality(LeasedNow(v)) < LeasesPerOwner
    BY <1>0, <1>1, <1>2 DEF Acquiring
  <2>3. \A x \in Acquiring(v)' : x \in v.workers /\ (x = w \/ x \in Acquiring(v))
    BY <1>0, <1>2 DEF Acquiring
  <2>4. \/ LeasedNow(v)' \subseteq LeasedNow(v) /\ Acquiring(v)' \subseteq Acquiring(v)
        \/ /\ Cardinality(LeasedNow(v)) < LeasesPerOwner
           /\ LeasedNow(v)' \subseteq LeasedNow(v) /\ Acquiring(v)' \subseteq v.workers
    BY <2>1, <2>2, <2>3
  <2> QED
    BY <2>4, CountedFor
<1> QED
  BY <1>3, <1>5, <1>6, <1>7 DEF LendingInv

\* What is known of a sandbox.
LEMMA SandboxKnown ==
  ASSUME NEW v, Lending(v)!SandboxAssumption, LendingInv(v), NEW s \in v.sandboxes
  PROVE  /\ sandbox[s] \in SandboxRow(v) /\ RowSound(sandbox[s]) /\ sandbox[s].version \in Nat
         /\ sandbox[s].leases \in Seq(LeaseOf(v)) /\ Len(sandbox[s].leases) \in Nat
         /\ Len(sandbox[s].history) <= RetainedRecoveries
         /\ DOMAIN sandbox[s].leases = 1..Len(sandbox[s].leases)
         /\ clock \in 0..v.hours /\ sandboxes[s] \in 0..v.lives
BY LenProperties DEF LendingInv, LendingKinds, RowsInv, RowSound, SandboxRow

LEMMA LendingCreates ==
  ASSUME NEW v, Lending(v)!SandboxAssumption, LendingInv(v), NEW w \in v.workers, NEW s \in v.sandboxes,
         Lending(v)!Create(w, s)
  PROVE  LendingInv(v)'
<1> DEFINE life == sandboxes[s] + 1
           z == Lending(v)!Saved(NoSandboxRow, clock, "creating", <<>>)
           r == [z EXCEPT !.life = life]
<1>0. /\ sandbox[s].version \in Nat /\ clock \in 0..v.hours /\ sandboxes[s] \in 0..v.lives
      /\ v.lives \in Nat
  BY SandboxKnown, LendingAssumed
<1>1. /\ sandbox[s].version = 0 /\ sandboxes[s] < v.lives /\ Lending(v)!Wants(w, s, r)
      /\ Lending(v)!Free(w)
  BY <1>0 DEF Lending!Create, Lending!Present, Lending!Created, Lending!NoRow, NoSandboxRow
<1>2. life \in 0..v.lives /\ life = sandboxes[s] + 1
  BY <1>0, <1>1
<1>3. NoSandboxRow \in SandboxRow(v) /\ NoSandboxRow.version = 0 /\ RowSound(NoSandboxRow)
      /\ NoSandboxRow.leases = <<>> /\ NoSandboxRow.lifecycle = "archived"
  BY NothingLent
<1>4. <<>> \in Seq(LeaseOf(v))
  OBVIOUS
<1>5. /\ z \in SandboxRow(v) /\ z.version = 1 /\ z.lifecycle = "creating"
      /\ z.leases = NoSandboxRow.leases /\ z.history = NoSandboxRow.history
  BY <1>0, <1>3, <1>4 DEF Lending!Saved, SandboxRow
<1> HIDE DEF z, life
<1>6. /\ r \in SandboxRow(v) /\ r.version = 1 /\ r.life = life /\ r.lifecycle = "creating"
      /\ r.leases = NoSandboxRow.leases /\ r.history = NoSandboxRow.history
  BY <1>2, <1>3, <1>5 DEF SandboxRow
<1> HIDE DEF r
<1>7. RowSound(r)
  BY <1>3, <1>6, StaysClosed DEF RowSound
<1>8. sandbox[s].lifecycle # "leased"
  BY <1>1, <1>3 DEF LendingInv, RowsInv
<1>9. MadeFrom(v, w, s, r)
  BY <1>1, <1>2, <1>6, <1>8 DEF MadeFrom
<1> QED
  BY <1>1, <1>6, <1>7, <1>9, WorkerWants

\* Preparing and archiving leave the leases as they are.
LEMMA LendingPrepares ==
  ASSUME NEW v, Lending(v)!SandboxAssumption, LendingInv(v), NEW w \in v.workers, NEW s \in v.sandboxes,
         Lending(v)!Prepare(w, s) \/ Lending(v)!Archive(w, s)
  PROVE  LendingInv(v)'
<1> DEFINE old == sandbox[s]
           prepared == Lending(v)!Saved(old, clock, "ready", old.leases)
           failed_ == Lending(v)!Saved(old, clock, "failed", old.leases)
           unprepared == [failed_ EXCEPT !.failure = "preparation"]
           archived == Lending(v)!Saved(old, clock, "archived", old.leases)
<1>0. /\ old \in SandboxRow(v) /\ RowSound(old) /\ old.version \in Nat
      /\ old.leases \in Seq(LeaseOf(v)) /\ clock \in 0..v.hours
      /\ Len(old.history) <= RetainedRecoveries
  BY SandboxKnown
<1>1. PICK r \in {prepared, unprepared, archived} :
        /\ Lending(v)!Wants(w, s, r) /\ Lending(v)!Free(w)
        /\ old.version # 0 /\ old.lifecycle # "leased"
        /\ old.lifecycle \in {"released", "archived"} => r = archived
  <2>1. CASE Lending(v)!Prepare(w, s)
    BY <1>0, <2>1 DEF Lending!Prepare, Lending!Present, Lending!Prepared, Lending!Unprepared
  <2>2. CASE Lending(v)!Archive(w, s)
    BY <1>0, <2>2 DEF Lending!Archive, Lending!Present, Lending!Archived
  <2> QED
    BY <2>1, <2>2
<1>2. ASSUME NEW lifecycle \in {"ready", "failed", "archived"}
      PROVE  /\ Lending(v)!Saved(old, clock, lifecycle, old.leases) \in SandboxRow(v)
             /\ Lending(v)!Saved(old, clock, lifecycle, old.leases) =
                  [version |-> old.version + 1, life |-> old.life, lifecycle |-> lifecycle,
                   leases |-> old.leases, failure |-> old.failure, history |-> old.history,
                   updated |-> clock]
  <2>1. lifecycle \in {"creating", "ready", "leased", "released", "archived", "failed"}
    OBVIOUS
  <2>2. old \in SandboxRow(v) /\ clock \in 0..v.hours /\ old.leases \in Seq(LeaseOf(v))
    BY <1>0
  <2> HIDE DEF old
  <2> QED
    BY <2>1, <2>2, RowSaved
<1>3. /\ unprepared \in SandboxRow(v) /\ unprepared.version = old.version + 1
      /\ unprepared.lifecycle = "failed" /\ unprepared.leases = old.leases
      /\ unprepared.history = old.history
  <2>1. /\ failed_ \in SandboxRow(v)
        /\ failed_.version = old.version + 1 /\ failed_.lifecycle = "failed"
        /\ failed_.leases = old.leases /\ failed_.history = old.history
    BY <1>2
  <2> HIDE DEF failed_, old
  <2> QED
    BY <2>1 DEF SandboxRow
<1>4. /\ r \in SandboxRow(v) /\ r.version = old.version + 1 /\ r.lifecycle # "leased"
      /\ r.leases = old.leases /\ r.history = old.history
      /\ r = archived => r.lifecycle = "archived"
  <2>1. CASE r = unprepared
    <3>1. archived.lifecycle = "archived"
      BY <1>2
    <3> QED
      BY <1>3, <2>1, <3>1
  <2>2. CASE r = prepared \/ r = archived
    <3>1. /\ archived \in SandboxRow(v) /\ archived.version = old.version + 1
          /\ archived.lifecycle = "archived" /\ archived.leases = old.leases
          /\ archived.history = old.history
      BY <1>2
    <3>2. /\ prepared \in SandboxRow(v) /\ prepared.version = old.version + 1
          /\ prepared.lifecycle = "ready" /\ prepared.leases = old.leases
          /\ prepared.history = old.history
      BY <1>2
    <3> HIDE DEF prepared, archived
    <3> QED
      BY <2>2, <3>1, <3>2
  <2> QED
    BY <2>1, <2>2
<1>5. MadeFrom(v, w, s, r)
  BY <1>1, <1>4 DEF MadeFrom
<1>6. RowSound(r)
  BY <1>0, <1>1, <1>4, StaysClosed
<1> QED
  BY <1>1, <1>4, <1>5, <1>6, WorkerWants

LEMMA LendingAcquires ==
  ASSUME NEW v, Lending(v)!SandboxAssumption, LendingInv(v), NEW w \in v.workers, NEW s \in v.sandboxes,
         Lending(v)!Acquire(w, s)
  PROVE  LendingInv(v)'
<1> DEFINE old == sandbox[s]
           until == clock + v.term
           lease == [owner |-> w, started |-> clock, expires |-> until, released |-> FALSE]
           leases == Append(old.leases, lease)
           r == Lending(v)!Saved(old, clock, "leased", leases)
<1>0. /\ old \in SandboxRow(v) /\ RowSound(old) /\ old.version \in Nat
      /\ old.leases \in Seq(LeaseOf(v)) /\ clock \in 0..v.hours /\ Len(old.leases) \in Nat
      /\ Len(old.history) <= RetainedRecoveries
  BY SandboxKnown
<1>1. /\ Lending(v)!Wants(w, s, r) /\ old.version # 0 /\ old.lifecycle = "ready"
      /\ Cardinality(LeasedNow(v)) < LeasesPerOwner
      /\ Lending(v)!Free(w) /\ claim[w] = Unclaimed
  <2>1. {x \in v.sandboxes : Lending(v)!Present(x) /\ sandbox[x].lifecycle \in {"leased"}} = LeasedNow(v)
    BY DEF Lending!Present, LeasedNow
  <2>2. /\ Lending(v)!Wants(w, s, Lending(v)!Leased(old, w))
        /\ Lending(v)!Present(s) /\ old.lifecycle = "ready"
        /\ Lending(v)!InUse({"leased"}) < LeasesPerOwner
        /\ Lending(v)!Free(w) /\ claim[w] = Lending(v)!NoClaim
    BY Zenon DEF Lending!Acquire
  <2>3. Lending(v)!Leased(old, w) = r
    BY DEF Lending!Leased
  <2>4. Lending(v)!InUse({"leased"}) = Cardinality(LeasedNow(v))
    BY <2>1 DEF Lending!InUse, Lending!Cardinality, Cardinality
  <2>5. old.version # 0
    BY <1>0, <2>2 DEF Lending!Present
  <2>6. claim[w] = Unclaimed
    BY <2>2 DEF Lending!NoClaim, Unclaimed
  <2> HIDE DEF r, old
  <2> QED
    BY <2>2, <2>3, <2>4, <2>5, <2>6
<1>2. lease \in LeaseOf(v) /\ lease.owner = w /\ ~lease.released
  <2>1. until \in Nat
    BY <1>0, LendingAssumed
  <2> HIDE DEF until
  <2> QED
    BY <1>0, <2>1 DEF LeaseOf
<1> HIDE DEF lease
<1>3. /\ leases \in Seq(LeaseOf(v)) /\ Len(leases) = Len(old.leases) + 1
      /\ \A i \in 1..Len(old.leases) : leases[i] = old.leases[i]
      /\ leases[Len(old.leases) + 1] = lease
  <2>1. \A q \in Seq(LeaseOf(v)), l \in LeaseOf(v) :
          /\ Append(q, l) \in Seq(LeaseOf(v)) /\ Len(Append(q, l)) = Len(q) + 1
          /\ \A i \in 1..Len(q) : Append(q, l)[i] = q[i]
          /\ Append(q, l)[Len(q) + 1] = l
    BY AppendProperties
  <2> QED
    BY <1>0, <1>2, <2>1
<1> HIDE DEF leases
<1>4. /\ r \in SandboxRow(v) /\ r.version = old.version + 1 /\ r.lifecycle = "leased"
      /\ r.leases = leases /\ r.history = old.history
  BY <1>0, <1>3 DEF Lending!Saved, SandboxRow
<1> HIDE DEF r
<1>5. RowSound(r)
  <2>1. \A i \in 1..Len(old.leases) : old.leases[i].released
    BY <1>0, <1>1 DEF RowSound, LastIsOpen
  <2>2. \A i \in 1..Len(leases) : i = Len(leases) \/ i \in 1..Len(old.leases)
    BY <1>0, <1>3
  <2>3. Len(r.leases) # 0 /\ ~r.leases[Len(r.leases)].released
    BY <1>0, <1>2, <1>3, <1>4
  <2>4. ASSUME NEW i \in 1..Len(r.leases), i # Len(r.leases) PROVE r.leases[i].released
    BY <1>3, <1>4, <2>1, <2>2, <2>4
  <2>5. LastIsOpen(r)
    BY <1>4, <2>3, <2>4 DEF LastIsOpen
  <2> QED
    BY <1>0, <1>4, <2>5 DEF RowSound
<1>6. HolderOf(r) = w
  BY <1>2, <1>3, <1>4 DEF HolderOf
<1>7. MadeFrom(v, w, s, r)
  BY <1>1, <1>4 DEF MadeFrom
<1> QED
  BY <1>1, <1>4, <1>5, <1>6, <1>7, WorkerWants

\* The open lease is changed, or closed with its sandbox's.
LEMMA LeaseChanged ==
  ASSUME NEW v, Lending(v)!SandboxAssumption, LendingInv(v), NEW s \in v.sandboxes,
         sandbox[s].lifecycle = "leased", NEW l \in LeaseOf(v), l.owner = HolderOf(sandbox[s]),
         NEW lifecycle \in {"leased", "released"},
         lifecycle = "leased" => ~l.released, lifecycle = "released" => l.released,
         NEW r, r = Lending(v)!Saved(sandbox[s], clock, lifecycle,
                       [sandbox[s].leases EXCEPT ![Len(sandbox[s].leases)] = l])
  PROVE  /\ r \in SandboxRow(v) /\ RowSound(r) /\ r.version = sandbox[s].version + 1
         /\ r.lifecycle = lifecycle /\ HolderOf(r) = HolderOf(sandbox[s])
<1> DEFINE old == sandbox[s]
           n == Len(old.leases)
           leases == [old.leases EXCEPT ![n] = l]
<1>0. /\ old \in SandboxRow(v) /\ RowSound(old) /\ old.version \in Nat
      /\ old.leases \in Seq(LeaseOf(v)) /\ clock \in 0..v.hours /\ n \in Nat
      /\ Len(old.history) <= RetainedRecoveries
  BY SandboxKnown
<1>1. n \in 1..n
  BY <1>0 DEF RowSound, LastIsOpen
<1>2. /\ leases \in Seq(LeaseOf(v)) /\ Len(leases) = n
      /\ \A j \in 1..n : leases[j] = IF j = n THEN l ELSE old.leases[j]
  <2>1. \A q \in Seq(LeaseOf(v)) : \A i \in 1..Len(q), e \in LeaseOf(v) :
          /\ [q EXCEPT ![i] = e] \in Seq(LeaseOf(v)) /\ Len([q EXCEPT ![i] = e]) = Len(q)
          /\ \A j \in 1..Len(q) : [q EXCEPT ![i] = e][j] = IF j = i THEN e ELSE q[j]
    BY ExceptSeq
  <2> QED
    BY <1>0, <1>1, <2>1
<1>3. r = Lending(v)!Saved(old, clock, lifecycle, leases)
  OBVIOUS
<1> HIDE DEF leases
<1>9. /\ r \in SandboxRow(v)
      /\ r = [version |-> old.version + 1, life |-> old.life, lifecycle |-> lifecycle,
              leases |-> leases, failure |-> old.failure, history |-> old.history,
              updated |-> clock]
  <2>1. lifecycle \in {"creating", "ready", "leased", "released", "archived", "failed"}
    OBVIOUS
  <2>2. old \in SandboxRow(v) /\ clock \in 0..v.hours /\ leases \in Seq(LeaseOf(v))
    BY <1>0, <1>2
  <2> HIDE DEF old
  <2>3. /\ Lending(v)!Saved(old, clock, lifecycle, leases) \in SandboxRow(v)
        /\ Lending(v)!Saved(old, clock, lifecycle, leases) =
             [version |-> old.version + 1, life |-> old.life, lifecycle |-> lifecycle,
              leases |-> leases, failure |-> old.failure, history |-> old.history,
              updated |-> clock]
    BY <2>1, <2>2, RowSaved
  <2> QED
    BY <1>3, <2>3
<1>4. /\ r \in SandboxRow(v) /\ r.version = old.version + 1 /\ r.lifecycle = lifecycle
      /\ r.leases = leases /\ r.history = old.history
  BY <1>9
<1>5. leases[n] = l /\ \A j \in 1..n : j # n => leases[j] = old.leases[j]
  BY <1>1, <1>2
<1>6. \A j \in 1..n : j # n => old.leases[j].released
  BY <1>0 DEF RowSound, LastIsOpen
<1>7. LastIsOpen(r)
  BY <1>1, <1>2, <1>4, <1>5, <1>6 DEF LastIsOpen
<1>8. HolderOf(r) = HolderOf(old)
  BY <1>2, <1>4, <1>5 DEF HolderOf
<1> QED
  BY <1>0, <1>4, <1>7, <1>8 DEF RowSound

LEMMA LendingRenews ==
  ASSUME NEW v, Lending(v)!SandboxAssumption, LendingInv(v), NEW w \in v.workers,
         Lending(v)!Renew(w) \/ Lending(v)!Release(w)
  PROVE  LendingInv(v)'
<1> DEFINE s == claim[w].sandbox
           old == sandbox[s]
           until == clock + v.term
<1>0. s \in v.sandboxes /\ claim[w] # Unclaimed /\ Lending(v)!Free(w)
  <2>1. claim[w] # Unclaimed /\ Lending(v)!Free(w)
    BY DEF Lending!Renew, Lending!Release, Lending!NoClaim, Unclaimed
  <2>2. ClaimFits(w, claim[w])
    BY DEF LendingInv
  <2>3. claim[w] \in [sandbox: v.sandboxes \union {None}, fence: Nat, started: Nat, until: Nat]
    BY DEF LendingInv, LendingKinds
  <2> QED
    BY <2>1, <2>2, <2>3 DEF ClaimFits
<1>1. /\ old \in SandboxRow(v) /\ RowSound(old) /\ old.version \in Nat
      /\ old.leases \in Seq(LeaseOf(v)) /\ clock \in 0..v.hours /\ Len(old.leases) \in Nat
      /\ DOMAIN old.leases = 1..Len(old.leases) /\ until \in Nat
  BY <1>0, SandboxKnown, LendingAssumed
<1>2. PICK i \in DOMAIN old.leases :
        /\ Lending(v)!Fenced(w, old, i)
        /\ \/ Lending(v)!Wants(w, s, Lending(v)!Renewed(old, i))
           \/ Lending(v)!Wants(w, s, Lending(v)!Released(old, i))
  BY DEF Lending!Renew, Lending!Release
<1> HIDE DEF s, until
<1>3. old.lifecycle = "leased" /\ i = Len(old.leases) /\ HolderOf(old) = w
  BY <1>1, <1>2 DEF Lending!Fenced, Lending!Holds, RowSound, LastIsOpen, HolderOf
<1>4. old.leases[i] \in LeaseOf(v) /\ ~old.leases[i].released
  BY <1>1, <1>2, ElementOfSeq DEF Lending!Fenced, Lending!Holds
<1> DEFINE longer == [old.leases[i] EXCEPT !.expires = until]
           closed_ == [old.leases[i] EXCEPT !.released = TRUE]
<1>5. /\ longer \in LeaseOf(v) /\ longer.owner = w /\ ~longer.released
      /\ closed_ \in LeaseOf(v) /\ closed_.owner = w /\ closed_.released
  BY <1>1, <1>3, <1>4 DEF LeaseOf, HolderOf
<1> DEFINE renewed == Lending(v)!Saved(old, clock, "leased", [old.leases EXCEPT ![i] = longer])
           released == Lending(v)!Saved(old, clock, "released", [old.leases EXCEPT ![i] = closed_])
<1>6. PICK r \in {renewed, released} : Lending(v)!Wants(w, s, r)
  BY <1>2, Zenon DEF Lending!Renewed, Lending!Released, until
<1> HIDE DEF longer, closed_
<1>7. /\ r \in SandboxRow(v) /\ RowSound(r) /\ r.version = old.version + 1
      /\ r.lifecycle \in {"leased", "released"} /\ HolderOf(r) = w
  <2>1. CASE r = renewed
    BY <1>0, <1>3, <1>5, <2>1, LeaseChanged
  <2>2. CASE r = released
    BY <1>0, <1>3, <1>5, <2>2, LeaseChanged
  <2> QED
    BY <1>6, <2>1, <2>2
<1> HIDE DEF renewed, released
<1>8. MadeFrom(v, w, s, r)
  <2>1. old.version # 0
    BY <1>0, <1>3, NothingLent DEF LendingInv, RowsInv
  <2> QED
    BY <1>3, <2>1 DEF MadeFrom
<1> QED
  BY <1>0, <1>6, <1>7, <1>8, WorkerWants

\* A worker forgets what it wanted, or what it was told.
LEMMA LendingForgets ==
  ASSUME NEW v, Lending(v)!SandboxAssumption, LendingInv(v), NEW w \in v.workers,
         \/ leasing' = leasing /\ leasing[w].save = None
         \/ leasing' = [leasing EXCEPT ![w] = [save |-> None, row |-> NoSandboxRow]],
         claim' = claim \/ claim' = [claim EXCEPT ![w] = Unclaimed],
         UNCHANGED <<sandbox, leaseRows, standing, clock, starting, starts, sandboxes>>
  PROVE  LendingInv(v)'
<1> DEFINE idle_ == [save |-> None, row |-> NoSandboxRow]
<1>0. /\ LendingKinds(v) /\ RowSound(NoSandboxRow)
      /\ idle_ \in [save: v.sandboxes \union {None}, row: SandboxRow(v)]
      /\ idle_.save = None /\ idle_.row = NoSandboxRow
  BY NothingLent DEF LendingInv
<1> HIDE DEF idle_
<1>1. /\ leasing' \in [v.workers -> [save: v.sandboxes \union {None}, row: SandboxRow(v)]]
      /\ \A x \in v.workers : leasing'[x] = leasing[x] \/ leasing'[x] = idle_
      /\ leasing'[w].save = None
  <2>1. leasing \in [v.workers -> [save: v.sandboxes \union {None}, row: SandboxRow(v)]]
    BY <1>0 DEF LendingKinds
  <2>2. (leasing' = leasing /\ leasing[w].save = None) \/ leasing' = [leasing EXCEPT ![w] = idle_]
    BY DEF idle_
  <2> QED
    BY <1>0, <2>1, <2>2
<1>2. /\ claim' \in [v.workers -> [sandbox: v.sandboxes \union {None}, fence: Nat, started: Nat,
                                   until: Nat]]
      /\ \A x \in v.workers : claim'[x] = claim[x] \/ claim'[x] = Unclaimed
      /\ \A x \in v.workers : x # w => claim'[x] = claim[x]
  <2>1. Unclaimed \in [sandbox: v.sandboxes \union {None}, fence: Nat, started: Nat, until: Nat]
    BY DEF Unclaimed
  <2>2. claim \in [v.workers -> [sandbox: v.sandboxes \union {None}, fence: Nat, started: Nat,
                                 until: Nat]]
    BY <1>0 DEF LendingKinds
  <2> QED
    BY <2>1, <2>2
<1>3. LendingKinds(v)'
  BY <1>0, <1>1, <1>2 DEF LendingKinds
<1>4. ASSUME NEW x \in v.workers PROVE PendingInv(v, x)' /\ ClaimFits(x, claim[x])'
  <2>1. /\ RowSound(leasing'[x].row)
        /\ leasing'[x].save # None => x # w /\ leasing'[x] = leasing[x] /\ claim'[x] = claim[x]
        /\ leasing'[x].save # None /\ standing # "deleted" =>
             SaveFits(v, x, leasing'[x].save, leasing'[x].row)
    BY <1>0, <1>1, <1>2 DEF LendingInv, PendingInv
  <2>2. PendingInv(v, x)'
    BY <2>1 DEF PendingInv, SaveFits, MadeFrom
  <2>3. ClaimFits(x, claim'[x])
    <3>1. ClaimFits(x, claim[x])
      BY DEF LendingInv
    <3>2. ClaimFits(x, Unclaimed)
      BY DEF ClaimFits, Unclaimed
    <3> QED
      BY <1>2, <3>1, <3>2
  <2> QED
    BY <2>2, <2>3 DEF ClaimFits, IsOpenLease
<1>5. RowsInv(v)' /\ GoneInv(v)' /\ ListedInv(v)'
  BY DEF LendingInv, RowsInv, GoneInv, ListedInv
<1>6. QuotaInv(v)'
  <2>1. LeasedNow(v)' = LeasedNow(v)
    BY DEF LeasedNow
  <2>2. ASSUME NEW x \in Acquiring(v)' PROVE x \in Acquiring(v)
    BY <1>0, <1>1, <1>2, <2>2 DEF Acquiring
  <2> QED
    BY <2>1, <2>2, CountedFor
<1> QED
  BY <1>3, <1>4, <1>5, <1>6 DEF LendingInv

\* The backend that starts lists the rows and, when it has seen to them, serves;
\* the repository moves on, and the clock.
LEMMA LendingPasses ==
  ASSUME NEW v, Lending(v)!SandboxAssumption, LendingInv(v),
         Lending(v)!Start \/ Lending(v)!Serve \/ Lending(v)!Move \/ Lending(v)!Tick
  PROVE  LendingInv(v)'
<1>0. /\ LendingKinds(v) /\ v.hours \in Nat /\ v.starts \in Nat
      /\ NoSandboxRow \in SandboxRow(v) /\ RowSound(NoSandboxRow) /\ NoSandboxRow.version = 0
  BY LendingAssumed, NothingLent DEF LendingInv
<1>1. /\ UNCHANGED <<sandbox, leaseRows, leasing, claim, sandboxes>>
      /\ standing' \in {"current", "past", "deleted"} /\ (standing' = "deleted" <=> standing = "deleted")
      /\ clock' \in 0..v.hours /\ clock <= clock' /\ starts' \in 0..v.starts
  <2>0. standing \in {"current", "past", "deleted"} /\ clock \in 0..v.hours /\ starts \in 0..v.starts
    BY <1>0 DEF LendingKinds
  <2>1. CASE Lending(v)!Start
    BY <1>0, <2>0, <2>1 DEF Lending!Start
  <2>2. CASE Lending(v)!Serve
    BY <1>0, <2>0, <2>2 DEF Lending!Serve
  <2>3. CASE Lending(v)!Move
    BY <1>0, <2>0, <2>3 DEF Lending!Move
  <2>4. CASE Lending(v)!Tick
    BY <1>0, <2>0, <2>4 DEF Lending!Tick
  <2> QED
    BY <2>1, <2>2, <2>3, <2>4
<1>2. \/ starting' = starting
      \/ starting' = [at |-> "rest", now |-> 0, listed |-> [s \in v.sandboxes |-> NoSandboxRow]]
      \/ starting' = [at |-> "recovering", now |-> clock,
                      listed |-> [s \in v.sandboxes |->
                                    IF Lending(v)!Listed(s) THEN sandbox[s] ELSE NoSandboxRow]]
  <2>1. CASE Lending(v)!Start
    BY <2>1 DEF Lending!Start, Lending!NoRow, NoSandboxRow
  <2>2. CASE Lending(v)!Serve
    BY <2>2 DEF Lending!Serve, Lending!AtRest, Lending!NoRow, NoSandboxRow
  <2>3. CASE Lending(v)!Move \/ Lending(v)!Tick
    BY <2>3 DEF Lending!Move, Lending!Tick
  <2> QED
    BY <2>1, <2>2, <2>3
<1>3. starting' \in [at: {"rest", "recovering", "exited"}, now: 0..v.hours,
                     listed: [v.sandboxes -> SandboxRow(v)]]
  <2>1. sandbox \in [v.sandboxes -> SandboxRow(v)] /\ clock \in 0..v.hours
        /\ starting \in [at: {"rest", "recovering", "exited"}, now: 0..v.hours,
                         listed: [v.sandboxes -> SandboxRow(v)]]
    BY <1>0 DEF LendingKinds
  <2> QED
    BY <1>0, <1>2, <2>1
<1>4. LendingKinds(v)'
  BY <1>0, <1>1, <1>3 DEF LendingKinds
<1>5. RowsInv(v)' /\ GoneInv(v)' /\ QuotaInv(v)'
  BY <1>1 DEF LendingInv, RowsInv, GoneInv, QuotaInv, LeasedNow, Acquiring
<1>6. ListedInv(v)'
  <2>1. starting'.now <= clock'
    <3>1. starting.now <= clock /\ clock \in Nat /\ clock' \in Nat /\ starting.now \in Nat
      BY <1>0, <1>1 DEF LendingInv, LendingKinds, ListedInv
    <3> QED
      BY <1>1, <1>2, <3>1
  <2>2. ASSUME NEW s \in v.sandboxes
        PROVE  /\ starting'.at # "recovering" => starting'.listed[s] = NoSandboxRow
               /\ starting'.listed[s] # NoSandboxRow =>
                    /\ starting'.listed[s].version > 0
                    /\ starting'.listed[s].lifecycle \in {"creating", "leased", "failed"}
                    /\ standing # "deleted" =>
                         /\ starting'.listed[s].version <= sandbox[s].version
                         /\ starting'.listed[s].version = sandbox[s].version =>
                              sandbox[s] = starting'.listed[s]
               /\ RowSound(starting'.listed[s])
    <3>1. CASE starting' = starting
      BY <3>1 DEF LendingInv, ListedInv
    <3>2. CASE starting' = [at |-> "rest", now |-> 0, listed |-> [t \in v.sandboxes |-> NoSandboxRow]]
      BY <1>0, <3>2
    <3>3. CASE starting' = [at |-> "recovering", now |-> clock,
                            listed |-> [t \in v.sandboxes |->
                                          IF Lending(v)!Listed(t) THEN sandbox[t] ELSE NoSandboxRow]]
      <4>1. starting'.at = "recovering"
            /\ starting'.listed[s] = IF Lending(v)!Listed(s) THEN sandbox[s] ELSE NoSandboxRow
        BY <3>3
      <4>2. sandbox[s].version \in Nat /\ RowSound(sandbox[s])
        BY SandboxKnown
      <4> QED
        BY <1>0, <4>1, <4>2 DEF Lending!Listed, Lending!Present
    <3> QED
      BY <1>2, <3>1, <3>2, <3>3
  <2> QED
    BY <1>1, <2>1, <2>2 DEF ListedInv
<1>7. ASSUME NEW x \in v.workers PROVE PendingInv(v, x)' /\ ClaimFits(x, claim[x])'
  <2>1. PendingInv(v, x)'
    BY <1>1 DEF LendingInv, PendingInv, SaveFits, MadeFrom
  <2>2. ClaimFits(x, claim[x]) /\ claim[x].until \in Nat /\ clock \in Nat /\ clock' \in Nat
    BY <1>0, <1>1 DEF LendingInv, LendingKinds
  <2> QED
    BY <1>1, <2>1, <2>2 DEF ClaimFits, IsOpenLease
<1> QED
  BY <1>4, <1>5, <1>6, <1>7 DEF LendingInv

\* Nobody has loaded a sandbox that is collected.
LEMMA LendingCollects ==
  ASSUME NEW v, Lending(v)!SandboxAssumption, LendingInv(v), Lending(v)!Collect
  PROVE  LendingInv(v)'
<1>0. /\ LendingKinds(v) /\ NoSandboxRow \in SandboxRow(v) /\ RowSound(NoSandboxRow)
      /\ NoSandboxRow.version = 0
  BY NothingLent DEF LendingInv
<1>1. PICK gone \in SUBSET Lending(v)!Terminal :
        /\ \A s \in gone :
             starting.listed[s] = NoSandboxRow /\ \A w \in v.workers : leasing[w].save # s
        /\ sandbox' = [s \in v.sandboxes |-> IF s \in gone THEN NoSandboxRow ELSE sandbox[s]]
        /\ leaseRows' = [s \in v.sandboxes |-> IF s \in gone THEN {} ELSE leaseRows[s]]
        /\ UNCHANGED <<standing, clock, leasing, claim, starting, starts, sandboxes>>
  <2>1. PICK kept \in SUBSET Lending(v)!Terminal :
          /\ \A s \in Lending(v)!Terminal \ kept :
               starting.listed[s] = Lending(v)!NoRow /\ \A w \in v.workers : leasing[w].save # s
          /\ sandbox' = [s \in v.sandboxes |->
                           IF s \in Lending(v)!Terminal \ kept THEN Lending(v)!NoRow ELSE sandbox[s]]
          /\ leaseRows' = [s \in v.sandboxes |->
                             IF s \in Lending(v)!Terminal \ kept THEN {} ELSE leaseRows[s]]
          /\ UNCHANGED <<standing, clock, leasing, claim, starting, starts, sandboxes>>
    BY DEF Lending!Collect
  <2>2. Lending(v)!NoRow = NoSandboxRow
    BY DEF Lending!NoRow, NoSandboxRow
  <2> DEFINE gone == Lending(v)!Terminal \ kept
  <2>3. gone \in SUBSET Lending(v)!Terminal
    OBVIOUS
  <2> QED
    BY <2>1, <2>2, <2>3
<1>2. \A s \in gone : s \in v.sandboxes /\ sandbox[s].lifecycle # "leased"
  BY DEF Lending!Terminal
<1>3. \A s \in v.sandboxes \ gone : sandbox'[s] = sandbox[s] /\ leaseRows'[s] = leaseRows[s]
  BY <1>1
<1>4. \A s \in gone : sandbox'[s] = NoSandboxRow /\ leaseRows'[s] = {}
  BY <1>1, <1>2
<1>5. LendingKinds(v)'
  <2>1. sandbox \in [v.sandboxes -> SandboxRow(v)]
    BY <1>0 DEF LendingKinds
  <2>2. /\ sandbox' \in [v.sandboxes -> SandboxRow(v)]
        /\ leaseRows' = [s \in v.sandboxes |-> leaseRows'[s]]
    BY <1>0, <1>1, <2>1
  <2> QED
    BY <1>0, <1>1, <2>2 DEF LendingKinds
<1>6. RowsInv(v)'
  <2> SUFFICES ASSUME NEW s \in v.sandboxes
               PROVE  /\ RowSound(sandbox'[s]) /\ (sandbox'[s].version = 0 => sandbox'[s] = NoSandboxRow)
                      /\ Cardinality({l \in leaseRows'[s] : ~l.lease.released}) <= 1
    BY DEF RowsInv
  <2>1. CASE s \in gone
    <3>1. {l \in leaseRows'[s] : ~l.lease.released} = {}
      BY <1>4, <2>1
    <3>2. Cardinality({l \in leaseRows'[s] : ~l.lease.released}) = 0
      BY <3>1, FS_EmptySet
    <3> QED
      BY <1>0, <1>4, <2>1, <3>2
  <2>2. CASE s \notin gone
    BY <1>3, <2>2 DEF LendingInv, RowsInv
  <2> QED
    BY <2>1, <2>2
<1>7. LeasedNow(v)' = LeasedNow(v)
  <2>1. ASSUME NEW s \in v.sandboxes
        PROVE  (sandbox'[s].version > 0 /\ sandbox'[s].lifecycle = "leased") <=>
                 (sandbox[s].version > 0 /\ sandbox[s].lifecycle = "leased")
    BY <1>0, <1>2, <1>3, <1>4
  <2> QED
    BY <2>1 DEF LeasedNow
<1>8. QuotaInv(v)' /\ GoneInv(v)'
  <2>1. GoneInv(v)'
    BY <1>1, <1>3, <1>4 DEF LendingInv, GoneInv
  <2> QED
    BY <1>1, <1>7, <2>1 DEF LendingInv, QuotaInv, Acquiring
<1>9. ListedInv(v)'
  BY <1>1, <1>3 DEF LendingInv, ListedInv
<1>10. ASSUME NEW x \in v.workers PROVE PendingInv(v, x)' /\ ClaimFits(x, claim[x])'
  <2>1. leasing'[x] = leasing[x] /\ claim'[x] = claim[x] /\ PendingInv(v, x) /\ ClaimFits(x, claim[x])
    BY <1>1 DEF LendingInv
  <2>2. /\ leasing[x].save # None => leasing[x].save \in v.sandboxes \ gone
        /\ claim[x].sandbox # None => claim[x].sandbox \in v.sandboxes
    <3>1. /\ leasing[x] \in [save: v.sandboxes \union {None}, row: SandboxRow(v)]
          /\ claim[x] \in [sandbox: v.sandboxes \union {None}, fence: Nat, started: Nat, until: Nat]
      BY <1>0 DEF LendingKinds
    <3> QED
      BY <1>1, <3>1
  <2>3. leasing[x].save # None => sandbox'[leasing[x].save] = sandbox[leasing[x].save]
    BY <1>3, <2>2
  <2>4. PendingInv(v, x)'
    BY <1>1, <2>1, <2>3 DEF PendingInv, SaveFits, MadeFrom
  <2>5. ClaimFits(x, claim[x])'
    BY <1>1, <1>2, <1>3, <2>1, <2>2 DEF ClaimFits, IsOpenLease
  <2> QED
    BY <2>4, <2>5
<1> QED
  BY <1>5, <1>6, <1>8, <1>9, <1>10 DEF LendingInv

\* Nothing is left of a deleted repository's sandboxes.
LEMMA LendingDeletes ==
  ASSUME NEW v, Lending(v)!SandboxAssumption, LendingInv(v), Lending(v)!Delete
  PROVE  LendingInv(v)'
<1>0. /\ LendingKinds(v) /\ NoSandboxRow \in SandboxRow(v) /\ RowSound(NoSandboxRow)
      /\ NoSandboxRow.version = 0
  BY NothingLent DEF LendingInv
<1>1. /\ sandbox' = [s \in v.sandboxes |-> NoSandboxRow]
      /\ leaseRows' = [s \in v.sandboxes |-> {}]
      /\ standing' = "deleted"
      /\ UNCHANGED <<clock, leasing, claim, starting, starts, sandboxes>>
  BY DEF Lending!Delete, Lending!NoRow, NoSandboxRow
<1>2. \A s \in v.sandboxes : sandbox'[s] = NoSandboxRow /\ leaseRows'[s] = {}
  BY <1>1
<1>3. LendingKinds(v)'
  <2>1. /\ sandbox' \in [v.sandboxes -> SandboxRow(v)]
        /\ leaseRows' = [s \in v.sandboxes |-> leaseRows'[s]]
    BY <1>0, <1>1
  <2> QED
    BY <1>0, <1>1, <2>1 DEF LendingKinds
<1>4. RowsInv(v)'
  <2> SUFFICES ASSUME NEW s \in v.sandboxes
               PROVE  /\ RowSound(sandbox'[s]) /\ (sandbox'[s].version = 0 => sandbox'[s] = NoSandboxRow)
                      /\ Cardinality({l \in leaseRows'[s] : ~l.lease.released}) <= 1
    BY DEF RowsInv
  <2>1. {l \in leaseRows'[s] : ~l.lease.released} = {}
    BY <1>2
  <2>2. Cardinality({l \in leaseRows'[s] : ~l.lease.released}) = 0
    BY <2>1, FS_EmptySet
  <2> QED
    BY <1>0, <1>2, <2>2
<1>5. GoneInv(v)' /\ ListedInv(v)'
  BY <1>1, <1>2 DEF LendingInv, GoneInv, ListedInv
<1>6. QuotaInv(v)'
  <2>1. \A s \in v.sandboxes : ~(sandbox'[s].version > 0)
    BY <1>0, <1>2
  <2>2. LeasedNow(v)' = {} /\ Acquiring(v)' = Acquiring(v)
    BY <1>1, <2>1 DEF LeasedNow, Acquiring
  <2> QED
    BY <2>2, CountedFor
<1>7. ASSUME NEW x \in v.workers PROVE PendingInv(v, x)' /\ ClaimFits(x, claim[x])'
  BY <1>1 DEF LendingInv, PendingInv, ClaimFits
<1> QED
  BY <1>3, <1>4, <1>5, <1>6, <1>7 DEF LendingInv

\* A sandbox's next row is written: its version is the one that was expected.
LEMMA SandboxWritten ==
  ASSUME NEW v, Lending(v)!SandboxAssumption, LendingInv(v), NEW s \in v.sandboxes,
         NEW r \in SandboxRow(v), RowSound(r), r.version > 0,
         sandbox[s].version = 0 => r.life = sandboxes[s] + 1,
         Lending(v)!Accepted(s, r), Lending(v)!Write(s, r)
  PROVE  /\ r.version = sandbox[s].version + 1
         /\ \A t \in v.sandboxes : sandbox'[t] = IF t = s THEN r ELSE sandbox[t]
         /\ \A t \in v.sandboxes : t # s => sandboxes'[t] = sandboxes[t]
         /\ sandbox' \in [v.sandboxes -> SandboxRow(v)]
         /\ sandboxes' \in [v.sandboxes -> 0..v.lives]
         /\ leaseRows' = [t \in v.sandboxes |-> leaseRows'[t]]
         /\ RowsInv(v)'
<1>0. /\ sandbox \in [v.sandboxes -> SandboxRow(v)] /\ sandboxes \in [v.sandboxes -> 0..v.lives]
      /\ leaseRows = [t \in v.sandboxes |-> leaseRows[t]] /\ v.lives \in Nat
  BY LendingAssumed DEF LendingInv, LendingKinds
<1>1. /\ sandbox' = [sandbox EXCEPT ![s] = r]
      /\ leaseRows' = [leaseRows EXCEPT ![s] = Lending(v)!Upserted(s, r)]
      /\ sandboxes' = [sandboxes EXCEPT ![s] = IF r.version = 1 THEN @ + 1 ELSE @]
      /\ sandbox[s].version = r.version - 1
      /\ Cardinality({l \in Lending(v)!Upserted(s, r) : ~l.lease.released}) <= 1
  BY DEF Lending!Accepted, Lending!Write, Lending!Expected, Lending!LeasesFit,
     Lending!Cardinality, Cardinality
<1>2. /\ r.version \in Nat /\ sandbox[s].version \in Nat /\ r.version = sandbox[s].version + 1
      /\ r.life \in 0..v.lives /\ sandboxes[s] \in 0..v.lives
  BY <1>0, <1>1 DEF SandboxRow
<1>3. /\ \A t \in v.sandboxes : sandbox'[t] = IF t = s THEN r ELSE sandbox[t]
      /\ sandbox' \in [v.sandboxes -> SandboxRow(v)]
  BY <1>0, <1>1
<1>4. /\ leaseRows'[s] = Lending(v)!Upserted(s, r)
      /\ \A t \in v.sandboxes : t # s => leaseRows'[t] = leaseRows[t]
      /\ leaseRows' = [t \in v.sandboxes |-> leaseRows'[t]]
  BY <1>0, <1>1
<1>5. /\ \A t \in v.sandboxes : t # s => sandboxes'[t] = sandboxes[t]
      /\ sandboxes' \in [v.sandboxes -> 0..v.lives]
  <2> DEFINE n == IF r.version = 1 THEN sandboxes[s] + 1 ELSE sandboxes[s]
  <2>1. n \in 0..v.lives
    BY <1>0, <1>2
  <2>2. sandboxes' = [sandboxes EXCEPT ![s] = n]
    BY <1>1
  <2> HIDE DEF n
  <2> QED
    BY <1>0, <2>1, <2>2
<1>6. RowsInv(v)'
  <2> SUFFICES ASSUME NEW t \in v.sandboxes
               PROVE  /\ RowSound(sandbox'[t]) /\ (sandbox'[t].version = 0 => sandbox'[t] = NoSandboxRow)
                      /\ Cardinality({l \in leaseRows'[t] : ~l.lease.released}) <= 1
    BY DEF RowsInv
  <2>1. CASE t = s
    <3>1. sandbox'[s] = r /\ r.version # 0
      BY <1>2, <1>3
    <3>2. Cardinality({l \in leaseRows'[s] : ~l.lease.released}) <= 1
      BY <1>1, <1>4
    <3> QED
      BY <2>1, <3>1, <3>2
  <2>2. CASE t # s
    <3>1. sandbox'[t] = sandbox[t] /\ leaseRows'[t] = leaseRows[t]
      BY <1>3, <1>4, <2>2
    <3> QED
      BY <3>1 DEF LendingInv, RowsInv
  <2> QED
    BY <2>1, <2>2
<1> QED
  BY <1>2, <1>3, <1>4, <1>5, <1>6

\* The leased sandboxes once it is written.
LEMMA LeasedThen ==
  ASSUME NEW v, Lending(v)!SandboxAssumption, LendingInv(v), NEW s \in v.sandboxes,
         NEW r \in SandboxRow(v), r.version = sandbox[s].version + 1,
         \A t \in v.sandboxes : sandbox'[t] = IF t = s THEN r ELSE sandbox[t]
  PROVE  /\ IsFiniteSet(LeasedNow(v)) /\ IsFiniteSet(LeasedNow(v)')
         /\ LeasedNow(v)' \subseteq LeasedNow(v) \union {s}
         /\ r.lifecycle # "leased" \/ sandbox[s].lifecycle = "leased" =>
              LeasedNow(v)' \subseteq LeasedNow(v)
<1>1. sandbox[s].version \in Nat /\ (sandbox[s].version = 0 => sandbox[s].lifecycle # "leased")
  BY SandboxKnown, NothingLent DEF LendingInv, RowsInv
<1>2. IsFiniteSet(v.sandboxes) /\ LeasedNow(v) \subseteq v.sandboxes /\ LeasedNow(v)' \subseteq v.sandboxes
  BY LendingAssumed DEF LeasedNow
<1>3. IsFiniteSet(LeasedNow(v)) /\ IsFiniteSet(LeasedNow(v)')
  BY <1>2, FS_Subset
<1>4. ASSUME NEW t \in LeasedNow(v)', t # s PROVE t \in LeasedNow(v)
  BY <1>4 DEF LeasedNow
<1>5. s \in LeasedNow(v)' => r.lifecycle = "leased"
  BY DEF LeasedNow
<1>6. sandbox[s].lifecycle = "leased" => s \in LeasedNow(v)
  BY <1>1 DEF LeasedNow
<1> QED
  BY <1>3, <1>4, <1>5, <1>6

\* A worker that waits with its own save, and what it was told, when the sandbox
\* is written without it.
LEMMA OthersWait ==
  ASSUME NEW v, Lending(v)!SandboxAssumption, LendingInv(v), NEW s \in v.sandboxes,
         NEW r \in SandboxRow(v), r.version = sandbox[s].version + 1,
         \A t \in v.sandboxes : sandbox'[t] = IF t = s THEN r ELSE sandbox[t],
         \A t \in v.sandboxes : t # s => sandboxes'[t] = sandboxes[t],
         NEW x \in v.workers, leasing'[x] = leasing[x], claim'[x] = claim[x],
         standing' = standing
  PROVE  PendingInv(v, x)'
<1> DEFINE t == leasing[x].save
           n == leasing[x].row
<1>1. RowSound(n) /\ (t # None /\ standing # "deleted" => SaveFits(v, x, t, n))
      /\ sandbox[s].version \in Nat
  BY SandboxKnown DEF LendingInv, PendingInv
<1>2. t # None => t \in v.sandboxes /\ n.version \in Nat
  <2>1. leasing[x] \in [save: v.sandboxes \union {None}, row: SandboxRow(v)]
    BY DEF LendingInv, LendingKinds
  <2> HIDE DEF t
  <2> QED
    BY <2>1 DEF SandboxRow, t
<1>4. ASSUME t # None, standing # "deleted"
      PROVE  /\ n.version > 0 /\ n.version <= sandbox'[t].version + 1
             /\ n.lifecycle = "leased" => HolderOf(n) = x
             /\ n.version = sandbox'[t].version + 1 =>
                  /\ sandbox'[t].version = 0 => n.life = sandboxes'[t] + 1
                  /\ sandbox'[t].version # 0 /\ sandbox'[t].lifecycle \in {"released", "archived"} =>
                       n.lifecycle = "archived"
                  /\ sandbox'[t].lifecycle = "leased" => HolderOf(sandbox'[t]) = x
                  /\ n.lifecycle = "leased" /\ sandbox'[t].lifecycle # "leased" => claim[x] = Unclaimed
  <2>1. SaveFits(v, x, t, n) /\ t \in v.sandboxes /\ n.version \in Nat
    BY <1>1, <1>2, <1>4
  <2> HIDE DEF t, n
  <2>2. n.version > 0 /\ n.version <= sandbox[t].version + 1 /\ (n.lifecycle = "leased" => HolderOf(n) = x)
        /\ (n.version = sandbox[t].version + 1 => MadeFrom(v, x, t, n))
    BY <2>1 DEF SaveFits
  <2>3. CASE t = s
    <3>1. sandbox'[t] = r
      BY <2>1, <2>3
    <3>2. n.version <= sandbox'[t].version + 1 /\ n.version # sandbox'[t].version + 1
      BY <1>1, <2>1, <2>2, <2>3, <3>1
    <3> QED
      BY <2>2, <3>2
  <2>4. CASE t # s
    <3>1. sandbox'[t] = sandbox[t] /\ sandboxes'[t] = sandboxes[t]
      BY <2>1, <2>4
    <3>4. ASSUME MadeFrom(v, x, t, n)
          PROVE  /\ sandbox'[t].version = 0 => n.life = sandboxes'[t] + 1
                 /\ sandbox'[t].version # 0 /\ sandbox'[t].lifecycle \in {"released", "archived"} =>
                      n.lifecycle = "archived"
                 /\ sandbox'[t].lifecycle = "leased" => HolderOf(sandbox'[t]) = x
                 /\ n.lifecycle = "leased" /\ sandbox'[t].lifecycle # "leased" => claim[x] = Unclaimed
      BY <3>1, <3>4 DEF MadeFrom
    <3> QED
      BY <2>2, <3>1, <3>4
  <2> QED
    BY <2>3, <2>4
<1>5. leasing'[x].save = t /\ leasing'[x].row = n
  OBVIOUS
<1> QED
  BY <1>1, <1>4, <1>5 DEF PendingInv, SaveFits, MadeFrom

\* What is known of a save that is accepted.
LEMMA SaveKnown ==
  ASSUME NEW v, Lending(v)!SandboxAssumption, LendingInv(v), NEW w \in v.workers,
         leasing[w].save # None, Lending(v)!Accepted(leasing[w].save, leasing[w].row)
  PROVE  /\ leasing[w].save \in v.sandboxes /\ leasing[w].row \in SandboxRow(v)
         /\ RowSound(leasing[w].row) /\ leasing[w].row.version > 0
         /\ leasing[w].row.version = sandbox[leasing[w].save].version + 1
         /\ leasing[w].row.lifecycle = "leased" => HolderOf(leasing[w].row) = w
         /\ MadeFrom(v, w, leasing[w].save, leasing[w].row)
<1> DEFINE s == leasing[w].save
           r == leasing[w].row
<1>1. s \in v.sandboxes /\ r \in SandboxRow(v)
  <2>1. leasing[w] \in [save: v.sandboxes \union {None}, row: SandboxRow(v)]
    BY DEF LendingInv, LendingKinds
  <2> QED
    BY <2>1
<1>2. RowSound(r) /\ SaveFits(v, w, s, r)
  BY DEF LendingInv, PendingInv, Lending!Accepted
<1>3. sandbox[s].version = r.version - 1
  BY DEF Lending!Accepted, Lending!Expected
<1> HIDE DEF s, r
<1>4. r.version \in Nat /\ sandbox[s].version \in Nat
  BY <1>1, SandboxKnown DEF SandboxRow
<1>5. r.version = sandbox[s].version + 1
  BY <1>3, <1>4
<1>6. /\ RowSound(r) /\ r.version > 0 /\ (r.lifecycle = "leased" => HolderOf(r) = w)
      /\ MadeFrom(v, w, s, r)
  BY <1>2, <1>5 DEF SaveFits
<1> QED
  BY <1>1, <1>5, <1>6 DEF s, r

\* What a worker is told of a lease is the lease it has.
LEMMA ToldIsOpen ==
  ASSUME NEW v, Lending(v)!SandboxAssumption, NEW w \in v.workers, NEW s \in v.sandboxes,
         NEW r \in SandboxRow(v), RowSound(r), r.lifecycle = "leased", HolderOf(r) = w
  PROVE  /\ Lending(v)!Told(w, s, r) \in [sandbox: v.sandboxes \union {None}, fence: Nat,
                                          started: Nat, until: Nat]
         /\ Lending(v)!Told(w, s, r).sandbox = s
         /\ IsOpenLease(w, Lending(v)!Told(w, s, r), r)
<1> DEFINE n == Len(r.leases)
           l == r.leases[n]
           k == [sandbox |-> s, fence |-> n, started |-> l.started, until |-> l.expires]
<1>1. r.leases \in Seq(LeaseOf(v)) /\ n \in Nat /\ n # 0
  BY LenProperties DEF SandboxRow, RowSound, LastIsOpen
<1>2. l \in LeaseOf(v)
  <2>1. n \in 1..n
    BY <1>1
  <2> QED
    BY <1>1, <2>1, ElementOfSeq
<1>3. l.started \in Nat /\ l.expires \in Nat /\ l.owner = w
  BY <1>2, LendingAssumed DEF LeaseOf, HolderOf
<1>4. Lending(v)!Told(w, s, r) = k
  BY DEF Lending!Told
<1>5. k.sandbox = s /\ k.fence = n /\ k.started = l.started /\ k.until = l.expires
  OBVIOUS
<1>6. IsOpenLease(w, k, r)
  BY <1>3, <1>5 DEF IsOpenLease, HolderOf
<1>7. k \in [sandbox: v.sandboxes \union {None}, fence: Nat, started: Nat, until: Nat]
  <2> HIDE DEF n, l
  <2> QED
    BY <1>1, <1>3
<1> QED
  BY <1>4, <1>5, <1>6, <1>7

\* A worker's save arrives; the worker is told, or has stopped.
LEMMA SaveArrives ==
  ASSUME NEW v, Lending(v)!SandboxAssumption, LendingInv(v), NEW w \in v.workers,
         leasing[w].save # None, Lending(v)!Accepted(leasing[w].save, leasing[w].row),
         Lending(v)!Write(leasing[w].save, leasing[w].row),
         leasing' = [leasing EXCEPT ![w] = [save |-> None, row |-> NoSandboxRow]],
         NEW k \in {Unclaimed, Lending(v)!Told(w, leasing[w].save, leasing[w].row)},
         claim' = [claim EXCEPT ![w] = k],
         UNCHANGED <<standing, clock, starting, starts>>
  PROVE  LendingInv(v)'
<1> DEFINE s == leasing[w].save
           r == leasing[w].row
           old == sandbox[s]
           idle_ == [save |-> None, row |-> NoSandboxRow]
<1>1. /\ s \in v.sandboxes /\ r \in SandboxRow(v) /\ RowSound(r) /\ r.version > 0
      /\ r.version = old.version + 1 /\ MadeFrom(v, w, s, r)
      /\ r.lifecycle = "leased" => HolderOf(r) = w
  BY SaveKnown
<1>2. old.version \in Nat
  BY <1>1, SandboxKnown
<1>3. Lending(v)!Accepted(s, r) /\ Lending(v)!Write(s, r)
  OBVIOUS
<1>4. k = Unclaimed \/ k = Lending(v)!Told(w, s, r)
  OBVIOUS
<1> HIDE DEF s, r
<1>5. old.version = 0 => r.life = sandboxes[s] + 1
  BY <1>1 DEF MadeFrom
<1>6. /\ \A t \in v.sandboxes : sandbox'[t] = IF t = s THEN r ELSE sandbox[t]
      /\ \A t \in v.sandboxes : t # s => sandboxes'[t] = sandboxes[t]
      /\ sandbox' \in [v.sandboxes -> SandboxRow(v)] /\ sandboxes' \in [v.sandboxes -> 0..v.lives]
      /\ leaseRows' = [t \in v.sandboxes |-> leaseRows'[t]] /\ RowsInv(v)'
  BY <1>1, <1>3, <1>5, SandboxWritten
<1>7. /\ idle_ \in [save: v.sandboxes \union {None}, row: SandboxRow(v)]
      /\ idle_.save = None /\ idle_.row = NoSandboxRow /\ RowSound(NoSandboxRow)
  BY NothingLent
<1>8. /\ leasing' \in [v.workers -> [save: v.sandboxes \union {None}, row: SandboxRow(v)]]
      /\ leasing'[w] = idle_ /\ \A x \in v.workers : x # w => leasing'[x] = leasing[x]
  <2>1. leasing \in [v.workers -> [save: v.sandboxes \union {None}, row: SandboxRow(v)]]
    BY DEF LendingInv, LendingKinds
  <2>2. leasing' = [leasing EXCEPT ![w] = idle_]
    OBVIOUS
  <2> HIDE DEF idle_
  <2> QED
    BY <1>7, <2>1, <2>2
<1> HIDE DEF idle_
<1>9. claim \in [v.workers -> [sandbox: v.sandboxes \union {None}, fence: Nat, started: Nat, until: Nat]]
  BY DEF LendingInv, LendingKinds
\* What the worker is told.
<1>10. /\ k \in [sandbox: v.sandboxes \union {None}, fence: Nat, started: Nat, until: Nat]
       /\ \/ k = Unclaimed
          \/ k.sandbox = s /\ IsOpenLease(w, k, r)
          \/ k = claim[w] /\ k.sandbox # s
  <2>1. CASE k = Unclaimed
    BY <2>1 DEF Unclaimed
  <2>2. CASE k = Lending(v)!Told(w, s, r) /\ r.lifecycle = "leased"
    BY <1>1, <2>2, ToldIsOpen
  <2>3. CASE k = Lending(v)!Told(w, s, r) /\ r.lifecycle # "leased"
    <3>1. k = IF claim[w].sandbox = s THEN Unclaimed ELSE claim[w]
      BY <2>3 DEF Lending!Told, Lending!NoClaim, Unclaimed
    <3>2. k = Unclaimed \/ (k = claim[w] /\ claim[w].sandbox # s)
      BY <3>1
    <3>3. claim[w] \in [sandbox: v.sandboxes \union {None}, fence: Nat, started: Nat, until: Nat]
      BY <1>9
    <3> QED
      BY <2>1, <3>2, <3>3
  <2> QED
    BY <1>4, <2>1, <2>2, <2>3
<1>11. /\ claim' \in [v.workers -> [sandbox: v.sandboxes \union {None}, fence: Nat, started: Nat,
                                    until: Nat]]
       /\ claim'[w] = k /\ \A x \in v.workers : x # w => claim'[x] = claim[x]
  BY <1>9, <1>10
<1>12. LendingKinds(v)'
  BY <1>6, <1>8, <1>11 DEF LendingInv, LendingKinds
<1>13. QuotaInv(v)'
  <2>1. /\ LeasedNow(v)' \subseteq LeasedNow(v) \union {s}
        /\ r.lifecycle # "leased" \/ old.lifecycle = "leased" => LeasedNow(v)' \subseteq LeasedNow(v)
    BY <1>1, <1>6, LeasedThen
  <2>2. Acquiring(v)' \subseteq Acquiring(v) \ {w}
    BY <1>7, <1>8, <1>11 DEF Acquiring
  <2>3. r.lifecycle = "leased" /\ old.lifecycle # "leased" => w \in Acquiring(v)
    BY <1>1 DEF MadeFrom, Acquiring, s, r
  <2>4. \/ LeasedNow(v)' \subseteq LeasedNow(v) /\ Acquiring(v)' \subseteq Acquiring(v)
        \/ /\ w \in Acquiring(v) /\ LeasedNow(v)' \subseteq LeasedNow(v) \union {s}
           /\ Acquiring(v)' \subseteq Acquiring(v) \ {w}
    BY <2>1, <2>2, <2>3
  <2> QED
    BY <1>1, <2>4, CountedFor
<1>14. ListedInv(v)'
  <2> SUFFICES ASSUME NEW t \in v.sandboxes, starting.listed[t] # NoSandboxRow, standing # "deleted"
               PROVE  /\ starting.listed[t].version <= sandbox'[t].version
                      /\ starting.listed[t].version = sandbox'[t].version => sandbox'[t] = starting.listed[t]
    BY DEF LendingInv, ListedInv
  <2>1. /\ starting.listed[t].version <= sandbox[t].version
        /\ starting.listed[t].version = sandbox[t].version => sandbox[t] = starting.listed[t]
        /\ starting.listed[t].version \in Nat
    BY DEF LendingInv, ListedInv, LendingKinds, SandboxRow
  <2>2. CASE t = s
    <3>1. sandbox'[t].version = old.version + 1
      BY <1>1, <1>6, <2>2
    <3> QED
      BY <1>2, <2>1, <2>2, <3>1
  <2>3. CASE t # s
    BY <1>6, <2>1, <2>3
  <2> QED
    BY <2>2, <2>3
<1>15. ASSUME NEW x \in v.workers PROVE PendingInv(v, x)'
  <2>1. CASE x = w
    <3>1. leasing'[x].save = None /\ RowSound(leasing'[x].row)
      BY <1>7, <1>8, <2>1
    <3> QED
      BY <3>1 DEF PendingInv
  <2>2. CASE x # w
    <3>1. leasing'[x] = leasing[x] /\ claim'[x] = claim[x]
      BY <1>8, <1>11, <2>2
    <3> QED
      BY <1>1, <1>6, <3>1, OthersWait
  <2> QED
    BY <2>1, <2>2
<1>16. ASSUME NEW x \in v.workers
       PROVE  /\ claim'[x].sandbox = None => claim'[x] = Unclaimed
              /\ claim'[x].sandbox # None =>
                   claim'[x].until <= clock \/ IsOpenLease(x, claim'[x], sandbox'[claim'[x].sandbox])
  <2>1. /\ claim[x].sandbox = None => claim[x] = Unclaimed
        /\ claim[x].sandbox # None =>
             claim[x].until <= clock \/ IsOpenLease(x, claim[x], sandbox[claim[x].sandbox])
        /\ claim[x].sandbox # None => claim[x].sandbox \in v.sandboxes
    <3>1. ClaimFits(x, claim[x]) /\ standing # "deleted"
      BY <1>3 DEF LendingInv, Lending!Accepted
    <3>2. claim[x] \in [sandbox: v.sandboxes \union {None}, fence: Nat, started: Nat, until: Nat]
      BY <1>9
    <3>3. claim[x].sandbox \in v.sandboxes \union {None}
      BY <3>2
    <3> QED
      BY <3>1, <3>3 DEF ClaimFits
  <2>2. CASE claim'[x] = Unclaimed
    BY <2>2 DEF Unclaimed
  <2>3. CASE x = w /\ claim'[x].sandbox = s /\ IsOpenLease(w, claim'[x], r)
    BY <1>1, <1>6, <2>3, LendingAssumed
  <2>4. CASE claim'[x] = claim[x] /\ claim[x].sandbox # s
    BY <1>6, <2>1, <2>4
  <2>5. CASE x # w /\ claim'[x] = claim[x] /\ claim[x].sandbox = s
    <3>1. claim[x].sandbox # None
      BY <1>1, <2>5, LendingAssumed
    <3>2. ~IsOpenLease(x, claim[x], old)
      BY <1>1, <2>5 DEF MadeFrom, IsOpenLease
    <3> QED
      BY <2>1, <2>5, <3>1, <3>2
  <2> QED
    BY <1>10, <1>11, <2>2, <2>3, <2>4, <2>5
<1>17. \A x \in v.workers : ClaimFits(x, claim[x])'
  BY <1>16 DEF ClaimFits
<1>18. standing # "deleted" /\ GoneInv(v)'
  BY <1>3 DEF Lending!Accepted, GoneInv
<1> QED
  BY <1>6, <1>12, <1>13, <1>14, <1>15, <1>17, <1>18 DEF LendingInv

LEMMA LendingSaves ==
  ASSUME NEW v, Lending(v)!SandboxAssumption, LendingInv(v), NEW w \in v.workers,
         Lending(v)!Save(w) \/ Lending(v)!Crash(w) \/ Lending(v)!Stale(w)
  PROVE  LendingInv(v)'
<1> DEFINE s == leasing[w].save
           r == leasing[w].row
<1>0. /\ Lending(v)!NoCall = [save |-> None, row |-> NoSandboxRow] /\ Lending(v)!NoClaim = Unclaimed
      /\ claim = [claim EXCEPT ![w] = claim[w]]
  BY DEF Lending!NoCall, Lending!NoRow, Lending!NoClaim, NoSandboxRow, Unclaimed, LendingInv,
     LendingKinds
<1>1. CASE Lending(v)!Save(w)
  <2>1. /\ leasing' = [leasing EXCEPT ![w] = [save |-> None, row |-> NoSandboxRow]]
        /\ UNCHANGED <<standing, clock, starting, starts>>
    BY <1>0, <1>1 DEF Lending!Save
  <2>2. CASE Lending(v)!Accepted(s, r)
    <3>1. /\ s # None /\ Lending(v)!Write(s, r)
          /\ claim' = [claim EXCEPT ![w] = Lending(v)!Told(w, s, r)]
      BY <1>1, <2>2 DEF Lending!Save, Lending!Free
    <3> QED
      BY <2>1, <2>2, <3>1, SaveArrives
  <2>3. CASE ~Lending(v)!Accepted(s, r)
    <3>1. UNCHANGED <<sandbox, leaseRows, sandboxes, claim>>
      BY <1>1, <2>3 DEF Lending!Save
    <3> QED
      BY <2>1, <3>1, LendingForgets
  <2> QED
    BY <2>2, <2>3
<1>2. CASE Lending(v)!Crash(w)
  <2>1. /\ leasing' = [leasing EXCEPT ![w] = [save |-> None, row |-> NoSandboxRow]]
        /\ claim' = [claim EXCEPT ![w] = Unclaimed]
        /\ UNCHANGED <<standing, clock, starting, starts>>
    BY <1>0, <1>2 DEF Lending!Crash
  <2>2. CASE UNCHANGED <<sandbox, leaseRows, sandboxes>>
    BY <2>1, <2>2, LendingForgets
  <2>3. CASE s # None /\ Lending(v)!Accepted(s, r) /\ Lending(v)!Write(s, r)
    BY <2>1, <2>3, SaveArrives
  <2> QED
    BY <1>2, <2>2, <2>3 DEF Lending!Crash, Lending!Free
<1>3. CASE Lending(v)!Stale(w)
  <2>1. /\ claim' = [claim EXCEPT ![w] = Unclaimed] /\ leasing[w].save = None
        /\ UNCHANGED <<sandbox, leaseRows, standing, clock, leasing, starting, starts, sandboxes>>
    BY <1>0, <1>3 DEF Lending!Stale, Lending!Free
  <2> QED
    BY <2>1, LendingForgets
<1> QED
  BY <1>1, <1>2, <1>3

\* The last RetainedRecoveries records are kept.
LEMMA RecordedFits ==
  ASSUME NEW v, Lending(v)!SandboxAssumption, NEW h \in Seq(Reasons \X Nat),
         Len(h) <= RetainedRecoveries, NEW reason \in Reasons
  PROVE  /\ Lending(v)!Recorded(h, reason) \in Seq(Reasons \X Nat)
         /\ Len(Lending(v)!Recorded(h, reason)) <= RetainedRecoveries
<1> DEFINE e == <<reason, Len(h) + 1>>
           all_ == Append(h, e)
<1>1. Len(h) \in Nat /\ RetainedRecoveries \in Nat \ {0}
  BY LendingAssumed, LenProperties
<1>2. e \in Reasons \X Nat
  BY <1>1
<1> HIDE DEF e
<1>3. all_ \in Seq(Reasons \X Nat) /\ Len(all_) = Len(h) + 1
  BY <1>2, AppendProperties
<1>4. Lending(v)!Recorded(h, reason) = IF Len(all_) <= RetainedRecoveries THEN all_ ELSE Tail(all_)
  BY DEF Lending!Recorded, e
<1> HIDE DEF all_
<1>5. CASE Len(all_) <= RetainedRecoveries
  BY <1>3, <1>4, <1>5
<1>6. CASE ~(Len(all_) <= RetainedRecoveries)
  <2>1. all_ # <<>>
    BY <1>1, <1>3, EmptySeq
  <2>2. Tail(all_) \in Seq(Reasons \X Nat) /\ Len(Tail(all_)) = Len(all_) - 1
    BY <1>3, <2>1, HeadTailProperties
  <2> QED
    BY <1>1, <1>3, <1>4, <1>6, <2>2
<1> QED
  BY <1>5, <1>6

\* What the recovery makes of a sandbox it lists.
LEMMA RecoveredFits ==
  ASSUME NEW v, Lending(v)!SandboxAssumption, NEW old \in SandboxRow(v), RowSound(old),
         NEW at \in 0..v.hours, Lending(v)!Recoverable(old, at)
  PROVE  /\ Lending(v)!Recovered(old, at) \in SandboxRow(v)
         /\ RowSound(Lending(v)!Recovered(old, at))
         /\ Lending(v)!Recovered(old, at).version = old.version + 1
         /\ Lending(v)!Recovered(old, at).lifecycle \in {"released", "failed", "creating"}
         /\ old.lifecycle \in {"leased", "creating", "failed"}
         /\ old.lifecycle = "leased" => old.leases[Len(old.leases)].expires <= at
<1> DEFINE n == Len(old.leases)
           ended == [i \in DOMAIN old.leases |-> [old.leases[i] EXCEPT !.released = TRUE]]
<1>1. /\ old.version \in Nat /\ old.leases \in Seq(LeaseOf(v)) /\ n \in Nat
      /\ DOMAIN old.leases = 1..n /\ old.history \in Seq(Reasons \X Nat)
      /\ Len(old.history) <= RetainedRecoveries
  BY LenProperties DEF SandboxRow, RowSound
<1>2. /\ ended \in Seq(LeaseOf(v)) /\ Len(ended) = n /\ \A i \in 1..n : ended[i].released
  <2>1. \A i \in 1..n : old.leases[i] \in LeaseOf(v)
    BY <1>1, ElementOfSeq
  <2>2. ended \in [1..n -> LeaseOf(v)] /\ \A i \in 1..n : ended[i].released
    BY <1>1, <2>1 DEF LeaseOf
  <2> HIDE DEF ended
  <2> QED
    BY <1>1, <2>2, IsASeq
<1> HIDE DEF ended
<1>3. ASSUME NEW reason \in Reasons
      PROVE  /\ Lending(v)!Recorded(old.history, reason) \in Seq(Reasons \X Nat)
             /\ Len(Lending(v)!Recorded(old.history, reason)) <= RetainedRecoveries
  BY <1>1, RecordedFits
<1>4. CASE Lending(v)!Expired(old, at)
  <2> DEFINE z == Lending(v)!Saved(old, at, "released", ended)
             h == Lending(v)!Recorded(old.history, "expired_lease")
             r == [z EXCEPT !.history = h]
  <2>1. old.lifecycle = "leased"
    BY <1>4 DEF Lending!Expired
  <2>2. /\ z \in SandboxRow(v)
        /\ z = [version |-> old.version + 1, life |-> old.life, lifecycle |-> "released",
                leases |-> ended, failure |-> old.failure, history |-> old.history, updated |-> at]
    BY <1>2, RowSaved
  <2>3. h \in Seq(Reasons \X Nat) /\ Len(h) <= RetainedRecoveries
    BY <1>3 DEF Reasons
  <2>4. Lending(v)!Recovered(old, at) = [z EXCEPT !.history = Lending(v)!Recorded(z.history, "expired_lease")]
    <3>1. ~Lending(v)!Abandoned(old, at) /\ ~Lending(v)!Unready(old)
      BY <2>1 DEF Lending!Abandoned, Lending!Unready
    <3> QED
      BY <1>4, <3>1, Zenon DEF Lending!Recovered, ended, z
  <2>5. z.version = old.version + 1 /\ z.lifecycle = "released" /\ z.leases = ended /\ z.history = old.history
    BY <2>2
  <2>6. Lending(v)!Recovered(old, at) = r
    BY <2>4, <2>5
  <2> HIDE DEF z, h
  <2>7. /\ r \in SandboxRow(v) /\ r.version = old.version + 1 /\ r.lifecycle = "released"
        /\ r.leases = ended /\ r.history = h
    BY <2>2, <2>3, <2>5 DEF SandboxRow
  <2> HIDE DEF r
  <2>8. RowSound(r)
    BY <1>2, <2>3, <2>7 DEF RowSound, LastIsOpen
  <2>9. old.leases[n].expires <= at
    <3>1. PICK i \in 1..n : ~old.leases[i].released /\ old.leases[i].expires <= at
      BY <1>1, <1>4 DEF Lending!Expired
    <3>2. i = n
      BY <3>1 DEF RowSound, LastIsOpen
    <3> QED
      BY <3>1, <3>2
  <2> QED
    BY <2>1, <2>6, <2>7, <2>8, <2>9
<1>5. CASE ~Lending(v)!Expired(old, at)
  <2>1. PICK kind \in {<<"creating", "failed", "abandoned", "abandoned_sandbox">>,
                       <<"failed", "creating", "none", "failed_preparation">>} :
          /\ old.lifecycle = kind[1]
          /\ Lending(v)!Recovered(old, at) =
               [Lending(v)!Saved(old, at, kind[2], old.leases)
                  EXCEPT !.failure = kind[3], !.history = Lending(v)!Recorded(@, kind[4])]
    <3>1. CASE Lending(v)!Abandoned(old, at)
      <4>1. old.lifecycle = "creating"
        BY <3>1 DEF Lending!Abandoned
      <4>2. ~Lending(v)!Unready(old)
        BY <4>1 DEF Lending!Unready
      <4>3. Lending(v)!Recovered(old, at) =
               [Lending(v)!Saved(old, at, "failed", old.leases)
                  EXCEPT !.failure = "abandoned", !.history = Lending(v)!Recorded(@, "abandoned_sandbox")]
        BY <1>5, <3>1, <4>2, Zenon DEF Lending!Recovered
      <4> QED
        BY <4>1, <4>3
    <3>2. CASE Lending(v)!Unready(old)
      <4>1. old.lifecycle = "failed"
        BY <3>2 DEF Lending!Unready
      <4>2. ~Lending(v)!Abandoned(old, at)
        BY <4>1 DEF Lending!Abandoned
      <4>3. Lending(v)!Recovered(old, at) =
               [Lending(v)!Saved(old, at, "creating", old.leases)
                  EXCEPT !.failure = "none", !.history = Lending(v)!Recorded(@, "failed_preparation")]
        BY <1>5, <3>2, <4>2, Zenon DEF Lending!Recovered
      <4> QED
        BY <4>1, <4>3
    <3> QED
      BY <1>5, <3>1, <3>2 DEF Lending!Recoverable
  <2> DEFINE z == Lending(v)!Saved(old, at, kind[2], old.leases)
             h == Lending(v)!Recorded(old.history, kind[4])
             y == [z EXCEPT !.failure = kind[3]]
             r == [y EXCEPT !.history = h]
  <2>2. /\ kind[1] # "leased" /\ kind[2] \in {"creating", "failed"}
        /\ kind[1] \in {"creating", "failed"}
        /\ kind[3] \in {"none", "preparation", "abandoned"} /\ kind[4] \in Reasons
    BY DEF Reasons
  <2>3. /\ z \in SandboxRow(v)
        /\ z = [version |-> old.version + 1, life |-> old.life, lifecycle |-> kind[2],
                leases |-> old.leases, failure |-> old.failure, history |-> old.history,
                updated |-> at]
    <3> DEFINE next == kind[2]
    <3>1. next \in {"creating", "ready", "leased", "released", "archived", "failed"}
      BY <2>2
    <3>2. old \in SandboxRow(v) /\ old.leases \in Seq(LeaseOf(v)) /\ at \in 0..v.hours
      BY <1>1 DEF SandboxRow
    <3> HIDE DEF next
    <3>3. /\ Lending(v)!Saved(old, at, next, old.leases) \in SandboxRow(v)
          /\ Lending(v)!Saved(old, at, next, old.leases) =
               [version |-> old.version + 1, life |-> old.life, lifecycle |-> next,
                leases |-> old.leases, failure |-> old.failure, history |-> old.history,
                updated |-> at]
      BY <3>1, <3>2 DEF SandboxRow, Lending!Saved
    <3> QED
      BY <3>3 DEF next
  <2>4. h \in Seq(Reasons \X Nat) /\ Len(h) <= RetainedRecoveries
    BY <1>3, <2>2
  <2>5. /\ z.version = old.version + 1 /\ z.lifecycle = kind[2] /\ z.leases = old.leases
        /\ z.history = old.history
    BY <2>3
  <2>6. Lending(v)!Recovered(old, at) =
          [z EXCEPT !.failure = kind[3], !.history = Lending(v)!Recorded(z.history, kind[4])]
    BY <2>1
  <2> HIDE DEF z
  <2>7. Lending(v)!Recovered(old, at) = r
    BY <2>3, <2>5, <2>6 DEF SandboxRow
  <2> HIDE DEF h
  <2>8. y \in SandboxRow(v) /\ y.version = old.version + 1 /\ y.lifecycle = kind[2] /\ y.leases = old.leases
    BY <2>2, <2>3, <2>5 DEF SandboxRow
  <2> HIDE DEF y
  <2>9. /\ r \in SandboxRow(v) /\ r.version = old.version + 1 /\ r.lifecycle = kind[2]
        /\ r.leases = old.leases /\ r.history = h
    BY <2>4, <2>8 DEF SandboxRow
  <2> HIDE DEF r
  <2>10. old.lifecycle # "leased" /\ r.lifecycle # "leased"
    BY <2>1, <2>2, <2>9
  <2>11. RowSound(r)
    BY <2>4, <2>9, <2>10, StaysClosed
  <2> QED
    BY <2>1, <2>2, <2>7, <2>9, <2>10, <2>11
<1> QED
  BY <1>4, <1>5

\* What is known of a row that the recovery listed and saves.
LEMMA ListedKnown ==
  ASSUME NEW v, Lending(v)!SandboxAssumption, LendingInv(v), NEW s \in v.sandboxes,
         NEW old, old = starting.listed[s], old # NoSandboxRow,
         Lending(v)!Recoverable(old, starting.now)
  PROVE  /\ old \in SandboxRow(v) /\ RowSound(old) /\ starting.now \in 0..v.hours
         /\ starting.now <= clock /\ old.version > 0
         /\ Lending(v)!Accepted(s, Lending(v)!Recovered(old, starting.now)) => sandbox[s] = old
<1>1. /\ old \in SandboxRow(v) /\ RowSound(old) /\ starting.now \in 0..v.hours
      /\ starting.now <= clock /\ old.version > 0
      /\ standing # "deleted" /\ old.version = sandbox[s].version => sandbox[s] = old
  BY DEF LendingInv, LendingKinds, ListedInv
<1>2. Lending(v)!Recovered(old, starting.now).version = old.version + 1
  BY <1>1, RecoveredFits
<1>3. old.version \in Nat /\ sandbox[s].version \in Nat
  BY <1>1, SandboxKnown DEF SandboxRow
<1>4. ASSUME Lending(v)!Accepted(s, Lending(v)!Recovered(old, starting.now))
      PROVE  old.version = sandbox[s].version /\ standing # "deleted"
  BY <1>2, <1>3, <1>4 DEF Lending!Accepted, Lending!Expected
<1> QED
  BY <1>1, <1>4

\* The recovery's next row, or its end.
LEMMA RecoverySteps ==
  ASSUME NEW v, Lending(v)!SandboxAssumption, LendingInv(v), NEW s \in v.sandboxes,
         Lending(v)!Recover(s)
  PROVE  /\ starting' \in [at: {"rest", "recovering", "exited"}, now: 0..v.hours,
                           listed: [v.sandboxes -> SandboxRow(v)]]
         /\ starting'.now <= clock /\ starting.listed[s] # NoSandboxRow
         /\ \/ starting'.at = "exited" /\ \A t \in v.sandboxes : starting'.listed[t] = NoSandboxRow
            \/ /\ starting'.at = starting.at /\ starting.at = "recovering"
               /\ starting'.listed[s] = NoSandboxRow
               /\ \A t \in v.sandboxes : t # s => starting'.listed[t] = starting.listed[t]
<1> DEFINE list == [starting.listed EXCEPT ![s] = NoSandboxRow]
           over == [at |-> "exited", now |-> 0, listed |-> [t \in v.sandboxes |-> NoSandboxRow]]
<1>0. /\ NoSandboxRow \in SandboxRow(v) /\ v.hours \in Nat /\ Lending(v)!NoRow = NoSandboxRow
      /\ starting \in [at: {"rest", "recovering", "exited"}, now: 0..v.hours,
                       listed: [v.sandboxes -> SandboxRow(v)]]
      /\ starting.now <= clock /\ clock \in 0..v.hours
  BY NothingLent, LendingAssumed DEF LendingInv, LendingKinds, ListedInv, Lending!NoRow, NoSandboxRow
<1>1. [Lending(v)!AtRest EXCEPT !.at = "exited"] = over
  BY <1>0 DEF Lending!AtRest
<1>2. /\ starting.at = "recovering" /\ starting.listed[s] # NoSandboxRow
      /\ starting' = [starting EXCEPT !.listed[s] = NoSandboxRow] \/ starting' = over
  BY <1>0, <1>1, Zenon DEF Lending!Recover
<1>3. [starting EXCEPT !.listed[s] = NoSandboxRow] = [starting EXCEPT !.listed = list]
  BY <1>0
<1>4. /\ list \in [v.sandboxes -> SandboxRow(v)] /\ list[s] = NoSandboxRow
      /\ \A t \in v.sandboxes : t # s => list[t] = starting.listed[t]
  BY <1>0
<1> HIDE DEF list
<1>5. CASE starting' = [starting EXCEPT !.listed = list]
  <2>1. starting' \in [at: {"rest", "recovering", "exited"}, now: 0..v.hours,
                       listed: [v.sandboxes -> SandboxRow(v)]]
    BY <1>0, <1>4, <1>5
  <2>2. starting'.at = starting.at /\ starting'.now = starting.now /\ starting'.listed = list
    BY <1>0, <1>5
  <2> QED
    BY <1>0, <1>2, <1>4, <2>1, <2>2
<1>6. CASE starting' = over
  <2>1. starting' \in [at: {"rest", "recovering", "exited"}, now: 0..v.hours,
                       listed: [v.sandboxes -> SandboxRow(v)]]
    BY <1>0, <1>6
  <2>2. starting'.at = "exited" /\ starting'.now = 0 /\ \A t \in v.sandboxes : starting'.listed[t] = NoSandboxRow
    BY <1>6
  <2> QED
    BY <1>0, <1>2, <2>1, <2>2
<1> QED
  BY <1>2, <1>3, <1>5, <1>6

\* The rows that are listed stay what is there or was there before.
LEMMA ListStays ==
  ASSUME NEW v, Lending(v)!SandboxAssumption, LendingInv(v), NEW s \in v.sandboxes,
         Lending(v)!Recover(s), clock' = clock, standing' = standing,
         \A t \in v.sandboxes : t # s => sandbox'[t] = sandbox[t]
  PROVE  ListedInv(v)'
<1>1. /\ starting'.now <= clock /\ starting.listed[s] # NoSandboxRow
      /\ \/ starting'.at = "exited" /\ \A t \in v.sandboxes : starting'.listed[t] = NoSandboxRow
         \/ /\ starting'.at = starting.at /\ starting.at = "recovering"
            /\ starting'.listed[s] = NoSandboxRow
            /\ \A t \in v.sandboxes : t # s => starting'.listed[t] = starting.listed[t]
  BY RecoverySteps
<1>2. RowSound(NoSandboxRow)
  BY NothingLent
<1>3. ASSUME NEW t \in v.sandboxes
      PROVE  /\ starting'.at # "recovering" => starting'.listed[t] = NoSandboxRow
             /\ starting'.listed[t] # NoSandboxRow =>
                  /\ starting'.listed[t].version > 0
                  /\ starting'.listed[t].lifecycle \in {"creating", "leased", "failed"}
                  /\ standing # "deleted" =>
                       /\ starting'.listed[t].version <= sandbox'[t].version
                       /\ starting'.listed[t].version = sandbox'[t].version =>
                            sandbox'[t] = starting'.listed[t]
             /\ RowSound(starting'.listed[t])
  <2>1. CASE starting'.listed[t] = NoSandboxRow
    BY <1>2, <2>1
  <2>2. CASE starting'.listed[t] # NoSandboxRow
    <3>1. /\ t # s /\ starting'.listed[t] = starting.listed[t] /\ starting'.at = "recovering"
          /\ sandbox'[t] = sandbox[t]
      BY <1>1, <2>2
    <3> QED
      BY <2>2, <3>1 DEF LendingInv, ListedInv
  <2> QED
    BY <2>1, <2>2
<1> QED
  BY <1>1, <1>3 DEF ListedInv

LEMMA LendingRecovers ==
  ASSUME NEW v, Lending(v)!SandboxAssumption, LendingInv(v), NEW s \in v.sandboxes,
         Lending(v)!Recover(s)
  PROVE  LendingInv(v)'
<1> DEFINE old == starting.listed[s]
           r == Lending(v)!Recovered(old, starting.now)
<1>0. /\ UNCHANGED <<standing, clock, leasing, claim, starts>>
      /\ \/ UNCHANGED <<sandbox, leaseRows, sandboxes>>
         \/ /\ Lending(v)!Recoverable(old, starting.now)
            /\ Lending(v)!Accepted(s, r) /\ Lending(v)!Write(s, r)
  BY Zenon DEF Lending!Recover
<1>1. old # NoSandboxRow
      /\ starting' \in [at: {"rest", "recovering", "exited"}, now: 0..v.hours,
                        listed: [v.sandboxes -> SandboxRow(v)]]
  BY RecoverySteps
<1>2. CASE UNCHANGED <<sandbox, leaseRows, sandboxes>>
  <2>1. LendingKinds(v)'
    BY <1>0, <1>1, <1>2 DEF LendingInv, LendingKinds
  <2>2. RowsInv(v)' /\ GoneInv(v)' /\ QuotaInv(v)'
    BY <1>0, <1>2 DEF LendingInv, RowsInv, GoneInv, QuotaInv, LeasedNow, Acquiring
  <2>3. ListedInv(v)'
    BY <1>0, <1>2, ListStays
  <2>4. ASSUME NEW x \in v.workers PROVE PendingInv(v, x)' /\ ClaimFits(x, claim[x])'
    BY <1>0, <1>2 DEF LendingInv, PendingInv, SaveFits, MadeFrom, ClaimFits, IsOpenLease
  <2> QED
    BY <2>1, <2>2, <2>3, <2>4 DEF LendingInv
<1>3. CASE /\ Lending(v)!Recoverable(old, starting.now)
           /\ Lending(v)!Accepted(s, r) /\ Lending(v)!Write(s, r)
  <2>1. /\ old \in SandboxRow(v) /\ RowSound(old) /\ starting.now \in 0..v.hours
        /\ starting.now <= clock /\ old.version > 0 /\ sandbox[s] = old
    BY <1>1, <1>3, ListedKnown
  <2>2. /\ r \in SandboxRow(v) /\ RowSound(r) /\ r.version = old.version + 1
        /\ r.lifecycle # "leased"
        /\ old.lifecycle = "leased" => old.leases[Len(old.leases)].expires <= starting.now
    BY <1>3, <2>1, RecoveredFits
  <2> HIDE DEF old, r
  <2>3. old.version \in Nat /\ r.version > 0 /\ sandbox[s].version # 0
    BY <2>1, <2>2 DEF SandboxRow
  <2>4. /\ \A t \in v.sandboxes : sandbox'[t] = IF t = s THEN r ELSE sandbox[t]
        /\ \A t \in v.sandboxes : t # s => sandboxes'[t] = sandboxes[t]
        /\ sandbox' \in [v.sandboxes -> SandboxRow(v)] /\ sandboxes' \in [v.sandboxes -> 0..v.lives]
        /\ leaseRows' = [t \in v.sandboxes |-> leaseRows'[t]] /\ RowsInv(v)'
    BY <1>3, <2>2, <2>3, SandboxWritten
  <2>5. LendingKinds(v)'
    BY <1>0, <1>1, <2>4 DEF LendingInv, LendingKinds
  <2>6. r.version = sandbox[s].version + 1
    BY <2>1, <2>2
  <2>7. IsFiniteSet(LeasedNow(v)) /\ LeasedNow(v)' \subseteq LeasedNow(v)
    BY <2>2, <2>4, <2>6, LeasedThen
  <2>8. QuotaInv(v)'
    <3>1. Acquiring(v)' = Acquiring(v)
      BY <1>0 DEF Acquiring
    <3> QED
      BY <2>7, <3>1, CountedFor
  <2>9. ListedInv(v)'
    BY <1>0, <2>4, ListStays
  <2>10. ASSUME NEW x \in v.workers PROVE PendingInv(v, x)'
    BY <1>0, <2>2, <2>4, <2>6, OthersWait
  <2>12. standing # "deleted" /\ GoneInv(v)'
    BY <1>0, <1>3 DEF Lending!Accepted, GoneInv
  <2>11. ASSUME NEW x \in v.workers PROVE ClaimFits(x, claim[x])'
    <3>1. /\ ClaimFits(x, claim[x]) /\ claim'[x] = claim[x]
          /\ claim[x] \in [sandbox: v.sandboxes \union {None}, fence: Nat, started: Nat, until: Nat]
      BY <1>0 DEF LendingInv, LendingKinds
    <3>2. claim[x].sandbox # None => claim[x].sandbox \in v.sandboxes
      BY <3>1
    <3>3. CASE claim[x].sandbox # s
      BY <1>0, <2>4, <3>1, <3>2, <3>3 DEF ClaimFits, IsOpenLease
    <3>4. CASE claim[x].sandbox = s
      <4>1. IsOpenLease(x, claim[x], sandbox[s]) => claim[x].until <= starting.now
        BY <2>1, <2>2 DEF IsOpenLease
      <4>2. s # None
        BY LendingAssumed
      <4>3. claim[x].until <= clock \/ IsOpenLease(x, claim[x], sandbox[s])
        BY <2>12, <3>1, <3>4, <4>2 DEF ClaimFits
      <4>4. claim[x].until \in Nat /\ starting.now \in Nat /\ clock \in Nat
        BY <2>1, <3>1, SandboxKnown, LendingAssumed
      <4>5. claim[x].until <= clock
        BY <2>1, <4>1, <4>3, <4>4
      <4> QED
        BY <1>0, <3>1, <3>4, <4>2, <4>5 DEF ClaimFits
    <3> QED
      BY <3>3, <3>4
  <2> QED
    BY <2>4, <2>5, <2>8, <2>9, <2>10, <2>11, <2>12 DEF LendingInv
<1> QED
  BY <1>0, <1>2, <1>3

LEMMA LendingSteps ==
  ASSUME NEW v, Lending(v)!SandboxAssumption, LendingInv(v), Lending(v)!Next
  PROVE  LendingInv(v)'
<1>1. ASSUME NEW w \in v.workers, NEW s \in v.sandboxes,
             \/ Lending(v)!Create(w, s) \/ Lending(v)!Prepare(w, s)
             \/ Lending(v)!Acquire(w, s) \/ Lending(v)!Archive(w, s)
      PROVE  LendingInv(v)'
  BY <1>1, LendingCreates, LendingPrepares, LendingAcquires
<1>2. ASSUME NEW w \in v.workers,
             \/ Lending(v)!Renew(w) \/ Lending(v)!Release(w) \/ Lending(v)!Stale(w)
             \/ Lending(v)!Save(w) \/ Lending(v)!Crash(w)
      PROVE  LendingInv(v)'
  BY <1>2, LendingRenews, LendingSaves
<1>3. CASE \/ Lending(v)!Start \/ Lending(v)!Serve \/ Lending(v)!Move \/ Lending(v)!Tick
           \/ Lending(v)!Collect \/ Lending(v)!Delete
  BY <1>3, LendingPasses, LendingCollects, LendingDeletes
<1>4. ASSUME NEW s \in v.sandboxes, Lending(v)!Recover(s)
      PROVE  LendingInv(v)'
  BY <1>4, LendingRecovers
<1> QED
  BY <1>1, <1>2, <1>3, <1>4 DEF Lending!Next

\* A sandbox that is written over was made from what it was.
LEMMA SandboxRevivesNot ==
  ASSUME NEW v, Lending(v)!SandboxAssumption, LendingInv(v), Lending(v)!Next
  PROVE  Lending(v)!RevivesNone
<1> SUFFICES ASSUME NEW s \in v.sandboxes, sandbox[s].version > 0,
                    sandbox[s].lifecycle \in {"released", "archived"}, sandbox'[s].version > 0
             PROVE  sandbox'[s].lifecycle \in {"archived", sandbox[s].lifecycle}
  BY DEF Lending!RevivesNone, Lending!Present
<1>1. CASE UNCHANGED sandbox
  BY <1>1
<1>2. ASSUME NEW w \in v.workers, leasing[w].save # None,
             Lending(v)!Accepted(leasing[w].save, leasing[w].row),
             Lending(v)!Write(leasing[w].save, leasing[w].row)
      PROVE  sandbox'[s].lifecycle \in {"archived", sandbox[s].lifecycle}
  <2> DEFINE t == leasing[w].save
             r == leasing[w].row
  <2>1. t \in v.sandboxes /\ MadeFrom(v, w, t, r)
    BY <1>2, SaveKnown
  <2>2. sandbox' = [sandbox EXCEPT ![t] = r]
    BY <1>2 DEF Lending!Write
  <2>3. sandbox'[s] = IF s = t THEN r ELSE sandbox[s]
    <3>1. sandbox \in [v.sandboxes -> SandboxRow(v)]
      BY DEF LendingInv, LendingKinds
    <3> HIDE DEF t, r
    <3> QED
      BY <2>1, <2>2, <3>1
  <2>4. sandbox[s].version \in Nat
    BY SandboxKnown
  <2> HIDE DEF t, r
  <2> QED
    BY <2>1, <2>3, <2>4 DEF MadeFrom
<1>3. ASSUME NEW t \in v.sandboxes, Lending(v)!Recover(t)
      PROVE  sandbox'[s].lifecycle \in {"archived", sandbox[s].lifecycle}
  <2> DEFINE old == starting.listed[t]
             r == Lending(v)!Recovered(old, starting.now)
  <2>1. \/ UNCHANGED sandbox
        \/ /\ Lending(v)!Recoverable(old, starting.now)
           /\ Lending(v)!Accepted(t, r) /\ Lending(v)!Write(t, r)
    BY <1>3, Zenon DEF Lending!Recover
  <2>2. CASE /\ Lending(v)!Recoverable(old, starting.now)
             /\ Lending(v)!Accepted(t, r) /\ Lending(v)!Write(t, r)
    <3>1. old # NoSandboxRow
      BY <1>3, RecoverySteps
    <3>2. old \in SandboxRow(v) /\ RowSound(old) /\ starting.now \in 0..v.hours /\ sandbox[t] = old
      BY <2>2, <3>1, ListedKnown
    <3>3. old.lifecycle \in {"leased", "creating", "failed"}
      BY <2>2, <3>2, RecoveredFits
    <3>4. s # t
      BY <3>2, <3>3
    <3>5. sandbox' = [sandbox EXCEPT ![t] = r] /\ sandbox \in [v.sandboxes -> SandboxRow(v)]
      BY <2>2 DEF Lending!Write, LendingInv, LendingKinds
    <3> QED
      BY <3>4, <3>5
  <2> QED
    BY <2>1, <2>2
<1>4. CASE Lending(v)!Collect
  <2>1. PICK gone : sandbox' = [t \in v.sandboxes |-> IF t \in gone THEN Lending(v)!NoRow ELSE sandbox[t]]
    BY <1>4 DEF Lending!Collect
  <2>2. Lending(v)!NoRow.lifecycle = "archived"
    BY DEF Lending!NoRow
  <2> QED
    BY <2>1, <2>2
<1>9. CASE Lending(v)!Delete
  <2>1. sandbox'[s].version = 0
    BY <1>9 DEF Lending!Delete, Lending!NoRow
  <2> QED
    BY <2>1
<1>5. ASSUME NEW w \in v.workers, Lending(v)!Save(w) \/ Lending(v)!Crash(w)
      PROVE  \/ UNCHANGED sandbox
             \/ /\ leasing[w].save # None /\ Lending(v)!Accepted(leasing[w].save, leasing[w].row)
                /\ Lending(v)!Write(leasing[w].save, leasing[w].row)
  BY <1>5 DEF Lending!Save, Lending!Crash, Lending!Free
<1>6. ASSUME NEW w \in v.workers, NEW t \in v.sandboxes,
             \/ Lending(v)!Create(w, t) \/ Lending(v)!Prepare(w, t)
             \/ Lending(v)!Acquire(w, t) \/ Lending(v)!Archive(w, t)
      PROVE  UNCHANGED sandbox
  BY <1>6 DEF Lending!Create, Lending!Prepare, Lending!Acquire, Lending!Archive, Lending!Wants
<1>7. ASSUME NEW w \in v.workers,
             Lending(v)!Renew(w) \/ Lending(v)!Release(w) \/ Lending(v)!Stale(w)
      PROVE  UNCHANGED sandbox
  BY <1>7 DEF Lending!Renew, Lending!Release, Lending!Stale, Lending!Wants
<1>8. CASE Lending(v)!Start \/ Lending(v)!Serve \/ Lending(v)!Move \/ Lending(v)!Tick
  BY <1>1, <1>8 DEF Lending!Start, Lending!Serve, Lending!Move, Lending!Tick
<1> QED
  BY <1>1, <1>2, <1>3, <1>4, <1>5, <1>6, <1>7, <1>8, <1>9 DEF Lending!Next

\* Only Recover, Start and Serve change what is listed.
LEMMA ListKept ==
  ASSUME NEW v, Lending(v)!Next, ~Lending(v)!Start, ~Lending(v)!Serve,
         \A s \in v.sandboxes : ~Lending(v)!Recover(s)
  PROVE  UNCHANGED starting
<1>1. ASSUME NEW w \in v.workers, NEW t \in v.sandboxes,
             \/ Lending(v)!Create(w, t) \/ Lending(v)!Prepare(w, t)
             \/ Lending(v)!Acquire(w, t) \/ Lending(v)!Archive(w, t)
      PROVE  UNCHANGED starting
  BY <1>1 DEF Lending!Create, Lending!Prepare, Lending!Acquire, Lending!Archive, Lending!Wants
<1>2. ASSUME NEW w \in v.workers,
             \/ Lending(v)!Renew(w) \/ Lending(v)!Release(w) \/ Lending(v)!Stale(w)
             \/ Lending(v)!Save(w) \/ Lending(v)!Crash(w)
      PROVE  UNCHANGED starting
  BY <1>2 DEF Lending!Renew, Lending!Release, Lending!Stale, Lending!Wants, Lending!Save, Lending!Crash
<1>3. CASE Lending(v)!Move \/ Lending(v)!Tick \/ Lending(v)!Collect \/ Lending(v)!Delete
  BY <1>3 DEF Lending!Move, Lending!Tick, Lending!Collect, Lending!Delete
<1> QED
  BY <1>1, <1>2, <1>3 DEF Lending!Next

\* What the recovery has seen to has been recovered.
LEMMA SandboxRecovers ==
  ASSUME NEW v, Lending(v)!SandboxAssumption, LendingInv(v), Lending(v)!Next
  PROVE  Lending(v)!RecoversOrStops
<1> SUFFICES ASSUME NEW s \in v.sandboxes, starting.listed[s] # NoSandboxRow,
                    Lending(v)!Recoverable(starting.listed[s], starting.now),
                    starting'.at = "recovering", starting'.listed[s] = NoSandboxRow
             PROVE  sandbox'[s] = Lending(v)!Recovered(starting.listed[s], starting.now)
  BY DEF Lending!RecoversOrStops, Lending!NoRow, NoSandboxRow
<1>0. starting.at = "recovering"
  BY DEF LendingInv, ListedInv
<1>1. ~Lending(v)!Start
  BY <1>0 DEF Lending!Start
<1>2. ~Lending(v)!Serve
  BY DEF Lending!Serve, Lending!AtRest
<1>3. PICK t \in v.sandboxes : Lending(v)!Recover(t)
  BY <1>1, <1>2, ListKept
<1>4. t = s
  BY <1>3, RecoverySteps
<1> DEFINE old == starting.listed[s]
           r == Lending(v)!Recovered(old, starting.now)
<1>5. \/ Lending(v)!Write(s, r)
      \/ starting' = [Lending(v)!AtRest EXCEPT !.at = "exited"]
  BY <1>3, <1>4, Zenon DEF Lending!Recover
<1>6. starting' # [Lending(v)!AtRest EXCEPT !.at = "exited"]
  BY DEF Lending!AtRest
<1>7. sandbox' = [sandbox EXCEPT ![s] = r] /\ sandbox \in [v.sandboxes -> SandboxRow(v)]
  BY <1>5, <1>6 DEF Lending!Write, LendingInv, LendingKinds
<1> QED
  BY <1>7

LendingActs(v) == Lending(v)!RevivesNone /\ Lending(v)!RecoversOrStops

LEMMA LendingStep ==
  ASSUME NEW v, Lending(v)!SandboxAssumption, LendingInv(v), Lending(v)!Next
  PROVE  LendingInv(v)' /\ LendingActs(v)
BY LendingSteps, SandboxRevivesNot, SandboxRecovers DEF LendingActs

-----------------------------------------------------------------------------
(* The engineering sessions.                                                *)

SessionRow ==
  {r \in [version : Nat, life : Nat, lifecycle : {"active", "interrupted", "recovered", "archived"},
          workflow : Workflows \union {None}, history : Seq(Firsts), expires : Nat] :
     Len(r.history) <= MaxHistory}
Operation ==
  [at : {"idle", "creating", "viewing", "beginning", "working", "answering", "attaching",
         "archiving"},
   session : Sessions \union {None}, row : SessionRow]

SessionKinds ==
  /\ session \in [Sessions -> SessionRow] /\ head \in Revisions
  /\ \A s \in Sessions : session[s].version = 0 => session[s] = Opened!NoRow
  /\ hour \in 0..MaxHour /\ restarts \in 0..Restarts
  /\ operating \in [Firsts -> Operation]
  /\ listing \in {"none", "answered", "refused"}

\* What a caller has in hand is made of the row it loaded: as long as the
\* version is the one it loaded, the row is, too.
FromItsRow(c) ==
  LET r == operating[c].row
      kept == session[operating[c].session]
  IN /\ operating[c].at # "idle" => operating[c].session \in Sessions
     /\ operating[c].at \in {"viewing", "beginning", "attaching"} =>
          /\ r.version <= kept.version + 1
          /\ r.version = kept.version + 1 =>
               /\ Opened!Open(kept)
               /\ \/ r.history = kept.history
                  \/ r.history = Opened!Added(kept.history, c)
               /\ operating[c].at = "beginning" => r.lifecycle = "interrupted"
     /\ operating[c].at = "working" =>
          /\ r.version <= kept.version /\ r.lifecycle = "interrupted"
          /\ r.version = kept.version => kept = r

SessionInv == SessionKinds /\ \A c \in Firsts : FromItsRow(c)

LEMMA SessionAssumed ==
  /\ Expiration \in Nat \ {0} /\ MaxHistory \in Nat \ {0}
  /\ MaxHour \in Nat /\ Restarts \in Nat
  /\ WorkflowOf \in [Sessions -> Workflows \union {None}]
BY RecordsAssumption DEF Opened!SessionAssumption

LEMMA SessionFields ==
  ASSUME NEW r \in SessionRow
  PROVE  /\ r.version \in Nat /\ r.life \in Nat
         /\ r.lifecycle \in {"active", "interrupted", "recovered", "archived"}
         /\ r.workflow \in Workflows \union {None} /\ r.history \in Seq(Firsts) /\ r.expires \in Nat
         /\ Len(r.history) <= MaxHistory
         /\ r = [version |-> r.version, life |-> r.life, lifecycle |-> r.lifecycle,
                 workflow |-> r.workflow, history |-> r.history, expires |-> r.expires]
BY DEF SessionRow

LEMMA SessionRowIs ==
  ASSUME NEW v \in Nat, NEW n \in Nat, NEW f \in {"active", "interrupted", "recovered", "archived"},
         NEW w \in Workflows \union {None}, NEW h \in Seq(Firsts), NEW x \in Nat,
         Len(h) <= MaxHistory
  PROVE  [version |-> v, life |-> n, lifecycle |-> f, workflow |-> w, history |-> h,
          expires |-> x] \in SessionRow
BY DEF SessionRow

LEMMA SessionSays == SessionInv => Opened!TypeOK
<1> SUFFICES ASSUME SessionInv PROVE Opened!TypeOK
  OBVIOUS
<1>1. ASSUME NEW r \in SessionRow PROVE Opened!IsRow(r)
  <2>1. \A i \in DOMAIN r.history : r.history[i] \in Firsts
    BY SessionFields, LenProperties
  <2> QED
    BY SessionFields, <2>1 DEF Opened!IsRow
<1> QED
  BY <1>1 DEF SessionInv, SessionKinds, Operation, Opened!TypeOK

LEMMA NoSessionRow == Opened!NoRow \in SessionRow
<1>1. <<>> \in Seq(Firsts) /\ Len(<<>>) <= MaxHistory
  BY SessionAssumed
<1> QED
  BY <1>1, SessionRowIs DEF Opened!NoRow

LEMMA SessionBegins == Opened!Init => SessionInv
<1> SUFFICES ASSUME Opened!Init PROVE SessionInv
  OBVIOUS
<1>1. /\ session = [s \in Sessions |-> Opened!NoRow] /\ head \in Revisions /\ hour = 0
      /\ operating = [c \in Firsts |-> Opened!Idle] /\ listing = "none" /\ restarts = 0
  BY DEF Opened!Init
<1>2. Opened!Idle \in Operation /\ Opened!Idle.at = "idle"
  BY NoSessionRow DEF Opened!Idle, Operation
<1> QED
  BY <1>1, <1>2, NoSessionRow, SessionAssumed DEF SessionInv, SessionKinds, FromItsRow

\* A history with one operation more.
LEMMA AddedIs ==
  ASSUME NEW h \in Seq(Firsts), Len(h) <= MaxHistory, NEW c \in Firsts
  PROVE  Opened!Added(h, c) \in Seq(Firsts) /\ Len(Opened!Added(h, c)) <= MaxHistory
<1> DEFINE all == Append(h, c)
<1>1. Len(h) \in Nat /\ all \in Seq(Firsts) /\ Len(all) = Len(h) + 1
  BY AppendProperties, LenProperties
<1> HIDE DEF all
<1>2. Tail(all) \in Seq(Firsts) /\ Len(Tail(all)) = Len(all) - 1
  <2>1. all # <<>>
    BY <1>1
  <2> QED
    BY <1>1, <2>1, HeadTailProperties
<1>3. Opened!Added(h, c) = IF Len(all) <= MaxHistory THEN all ELSE Tail(all)
  BY DEF Opened!Added, all
<1> QED
  BY <1>1, <1>2, <1>3, SessionAssumed

LEMMA AppendedIs ==
  ASSUME NEW r \in SessionRow, NEW c \in Firsts, hour \in Nat,
         NEW to \in {"active", "interrupted", "recovered", "archived"}
  PROVE  /\ Opened!Appended(r, c, to) \in SessionRow
         /\ Opened!Appended(r, c, to).version = r.version + 1
         /\ Opened!Appended(r, c, to).lifecycle = to /\ Opened!Appended(r, c, to).life = r.life
         /\ Opened!Appended(r, c, to).history = Opened!Added(r.history, c)
<1> DEFINE h == Opened!Added(r.history, c)
           nrow == [version |-> r.version + 1, life |-> r.life, lifecycle |-> to,
                    workflow |-> r.workflow, history |-> h, expires |-> hour + Expiration]
<1>1. /\ r.version \in Nat /\ r.life \in Nat /\ r.history \in Seq(Firsts)
      /\ r.workflow \in Workflows \union {None} /\ Len(r.history) <= MaxHistory
      /\ r = [version |-> r.version, life |-> r.life, lifecycle |-> r.lifecycle,
              workflow |-> r.workflow, history |-> r.history, expires |-> r.expires]
  BY SessionFields
<1>2. h \in Seq(Firsts) /\ Len(h) <= MaxHistory
  BY <1>1, AddedIs
<1>3. Opened!Appended(r, c, to) =
        [r EXCEPT !.version = r.version + 1, !.lifecycle = to, !.history = h,
                  !.expires = hour + Expiration]
  BY DEF Opened!Appended
<1> HIDE DEF h
<1>4. Opened!Appended(r, c, to) = nrow
  BY <1>1, <1>3
<1>5. nrow \in SessionRow
  <2>1. r.version + 1 \in Nat /\ hour + Expiration \in Nat
    BY <1>1, SessionAssumed
  <2> QED
    BY <1>1, <1>2, <2>1, SessionRowIs
<1> QED
  BY <1>4, <1>5 DEF h

\* A row with another lifecycle, version, life or workflow.
LEMMA RowMoves ==
  ASSUME NEW r \in SessionRow, NEW r2, NEW v \in Nat, NEW n \in Nat,
         NEW f \in {"active", "interrupted", "recovered", "archived"},
         NEW w \in Workflows \union {None},
         r2 = [version |-> v, life |-> n, lifecycle |-> f, workflow |-> w, history |-> r.history,
               expires |-> r.expires]
  PROVE  r2 \in SessionRow
BY SessionFields, SessionRowIs

\* The fields of a row of which some have changed.
LEMMA RowChanged ==
  ASSUME NEW r \in SessionRow, NEW v, NEW n, NEW f, NEW w, NEW x, NEW r2
  PROVE  /\ r2 = [r EXCEPT !.version = v, !.lifecycle = f] =>
           r2 = [version |-> v, life |-> r.life, lifecycle |-> f, workflow |-> r.workflow,
                 history |-> r.history, expires |-> r.expires]
         /\ r2 = [r EXCEPT !.lifecycle = f, !.version = v] =>
           r2 = [version |-> v, life |-> r.life, lifecycle |-> f, workflow |-> r.workflow,
                 history |-> r.history, expires |-> r.expires]
         /\ r2 = [r EXCEPT !.version = v, !.workflow = w] =>
           r2 = [version |-> v, life |-> r.life, lifecycle |-> r.lifecycle, workflow |-> w,
                 history |-> r.history, expires |-> r.expires]
         /\ r2 = [r EXCEPT !.version = v, !.life = n] =>
           r2 = [version |-> v, life |-> n, lifecycle |-> r.lifecycle, workflow |-> r.workflow,
                 history |-> r.history, expires |-> r.expires]
         /\ r2 = [r EXCEPT !.lifecycle = f, !.workflow = w, !.expires = x] =>
           r2 = [version |-> r.version, life |-> r.life, lifecycle |-> f, workflow |-> w,
                 history |-> r.history, expires |-> x]
<1>1. r = [version |-> r.version, life |-> r.life, lifecycle |-> r.lifecycle,
           workflow |-> r.workflow, history |-> r.history, expires |-> r.expires]
  BY SessionFields
<1>2. ASSUME r2 = [r EXCEPT !.version = v, !.lifecycle = f]
      PROVE  r2 = [version |-> v, life |-> r.life, lifecycle |-> f, workflow |-> r.workflow,
                   history |-> r.history, expires |-> r.expires]
  BY <1>1, <1>2
<1>3. ASSUME r2 = [r EXCEPT !.lifecycle = f, !.version = v]
      PROVE  r2 = [version |-> v, life |-> r.life, lifecycle |-> f, workflow |-> r.workflow,
                   history |-> r.history, expires |-> r.expires]
  BY <1>1, <1>3
<1>4. ASSUME r2 = [r EXCEPT !.version = v, !.workflow = w]
      PROVE  r2 = [version |-> v, life |-> r.life, lifecycle |-> r.lifecycle, workflow |-> w,
                   history |-> r.history, expires |-> r.expires]
  BY <1>1, <1>4
<1>5. ASSUME r2 = [r EXCEPT !.version = v, !.life = n]
      PROVE  r2 = [version |-> v, life |-> n, lifecycle |-> r.lifecycle, workflow |-> r.workflow,
                   history |-> r.history, expires |-> r.expires]
  BY <1>1, <1>5
<1>6. ASSUME r2 = [r EXCEPT !.lifecycle = f, !.workflow = w, !.expires = x]
      PROVE  r2 = [version |-> r.version, life |-> r.life, lifecycle |-> f, workflow |-> w,
                   history |-> r.history, expires |-> x]
  BY <1>1, <1>6
<1> QED
  BY <1>2, <1>3, <1>4, <1>5, <1>6

\* One caller's operation moves and the rows stay.
LEMMA CallerMoves ==
  ASSUME SessionInv, NEW c \in Firsts, NEW op \in Operation,
         operating' = [operating EXCEPT ![c] = op], session' = session,
         head' = head, hour' = hour, restarts' = restarts, listing' = listing, FromItsRow(c)'
  PROVE  SessionInv'
<1>1. /\ operating' \in [Firsts -> Operation] /\ session' \in [Sessions -> SessionRow]
      /\ \A d \in Firsts : d # c => operating'[d] = operating[d]
  BY DEF SessionInv, SessionKinds
<1>2. SessionKinds'
  BY <1>1 DEF SessionInv, SessionKinds
<1>3. ASSUME NEW d \in Firsts, d # c PROVE FromItsRow(d)'
  BY <1>1, <1>3 DEF SessionInv, FromItsRow
<1> QED
  BY <1>2, <1>3 DEF SessionInv

\* A row is saved under a higher version, by a caller whose operation is then
\* over or has what it saved.
LEMMA RowIsSaved ==
  ASSUME SessionInv, NEW c \in Firsts, NEW op \in Operation, NEW s \in Sessions,
         NEW r \in SessionRow, r.version > session[s].version,
         operating' = [operating EXCEPT ![c] = op], session' = [session EXCEPT ![s] = r],
         head' = head, hour' = hour, restarts' = restarts, listing' = listing, FromItsRow(c)'
  PROVE  SessionInv'
<1>1. /\ session \in [Sessions -> SessionRow] /\ operating \in [Firsts -> Operation]
      /\ \A d \in Firsts : FromItsRow(d)
      /\ \A t \in Sessions : session[t].version \in Nat
  BY SessionFields DEF SessionInv, SessionKinds
<1>2. /\ session' \in [Sessions -> SessionRow] /\ session'[s] = r /\ r.version \in Nat
      /\ \A t \in Sessions : t # s => session'[t] = session[t]
      /\ operating' \in [Firsts -> Operation]
      /\ \A d \in Firsts : d # c => operating'[d] = operating[d]
  BY <1>1, SessionFields
<1>3. SessionKinds'
  BY <1>1, <1>2 DEF SessionInv, SessionKinds
<1>4. ASSUME NEW d \in Firsts, d # c PROVE FromItsRow(d)'
  <2>1. /\ operating'[d] = operating[d] /\ operating[d].row.version \in Nat /\ FromItsRow(d)
        /\ operating[d].at # "idle" => operating[d].session \in Sessions
    BY <1>1, <1>2, <1>4, SessionFields DEF Operation, FromItsRow
  <2>2. CASE operating[d].at = "idle"
    BY <2>1, <2>2 DEF FromItsRow
  <2>3. CASE operating[d].at # "idle" /\ operating[d].session # s
    <3>1. session'[operating[d].session] = session[operating[d].session]
      BY <1>2, <2>1, <2>3
    <3> QED
      BY <2>1, <3>1 DEF FromItsRow, Opened!Open
  <2>4. CASE operating[d].at # "idle" /\ operating[d].session = s
    <3>1. /\ operating[d].at \in {"viewing", "beginning", "attaching"} =>
               operating[d].row.version <= session[s].version + 1
          /\ operating[d].at = "working" => operating[d].row.version <= session[s].version
                                            /\ operating[d].row.lifecycle = "interrupted"
      BY <2>1, <2>4 DEF FromItsRow
    <3>2. /\ operating[d].at \in {"viewing", "beginning", "attaching"} =>
               operating[d].row.version < r.version + 1
          /\ operating[d].at = "working" => operating[d].row.version < r.version
      <4> DEFINE v == operating[d].row.version
                 kept == session[s].version
      <4>1. v \in Nat /\ kept \in Nat /\ r.version \in Nat /\ r.version > kept
        BY <1>1, <1>2, <2>1
      <4>2. /\ v <= kept + 1 => v < r.version + 1
            /\ v <= kept => v < r.version
        <5> HIDE DEF v, kept
        <5> QED
          BY <4>1
      <4> QED
        BY <3>1, <4>2
    <3>3. /\ operating[d].row.version < r.version + 1 =>
               operating[d].row.version <= r.version + 1 /\ operating[d].row.version # r.version + 1
          /\ operating[d].row.version < r.version =>
               operating[d].row.version <= r.version /\ operating[d].row.version # r.version
      BY <1>2, <2>1
    <3> QED
      BY <1>2, <2>1, <2>4, <3>1, <3>2, <3>3 DEF FromItsRow
  <2> QED
    BY <2>2, <2>3, <2>4
<1> QED
  BY <1>3, <1>4 DEF SessionInv

\* What an operation begins with.
LEMMA OperationBegins ==
  ASSUME SessionInv, NEW c \in Firsts, NEW s \in Sessions, NEW r \in SessionRow, NEW to,
         to \in {"creating", "viewing", "beginning", "attaching", "archiving"},
         Opened!Goes(c, to, s, r),
         to \in {"viewing", "beginning", "attaching"} =>
           /\ r.version = session[s].version + 1 /\ Opened!Open(session[s])
           /\ r.history = session[s].history \/ r.history = Opened!Added(session[s].history, c)
           /\ to = "beginning" => r.lifecycle = "interrupted"
  PROVE  SessionInv'
<1> DEFINE op == [at |-> to, session |-> s, row |-> r]
<1>1. /\ operating' = [operating EXCEPT ![c] = op] /\ session' = session
      /\ head' = head /\ hour' = hour /\ restarts' = restarts /\ listing' = listing
  BY DEF Opened!Goes
<1>2. op \in Operation /\ op.at = to /\ op.session = s /\ op.row = r
  BY DEF Operation
<1> HIDE DEF op
<1>3. operating'[c] = op
  BY <1>1 DEF SessionInv, SessionKinds
<1>4. r.version \in Nat /\ session[s].version \in Nat
  BY SessionFields DEF SessionInv, SessionKinds
<1>5. FromItsRow(c)'
  BY <1>1, <1>2, <1>3, <1>4 DEF FromItsRow, Opened!Open
<1> QED
  BY <1>1, <1>2, <1>5, CallerMoves

LEMMA SessionStep == SessionInv /\ Opened!Next => SessionInv'
<1> SUFFICES ASSUME SessionInv, Opened!Next PROVE SessionInv'
  OBVIOUS
<1>0. /\ session \in [Sessions -> SessionRow] /\ operating \in [Firsts -> Operation]
      /\ head \in Revisions /\ hour \in 0..MaxHour /\ hour \in Nat /\ restarts \in 0..Restarts
      /\ listing \in {"none", "answered", "refused"}
      /\ \A c \in Firsts : FromItsRow(c)
      /\ \A s \in Sessions : session[s].version = 0 => session[s] = Opened!NoRow
      /\ \A c \in Firsts : /\ operating[c].row \in SessionRow
                           /\ operating[c].at # "idle" => operating[c].session \in Sessions
      /\ Opened!Idle \in Operation /\ Opened!Idle.at = "idle"
  <2>1. Opened!Idle \in Operation /\ Opened!Idle.at = "idle"
    BY NoSessionRow DEF Opened!Idle, Operation
  <2>2. hour \in Nat
    BY SessionAssumed DEF SessionInv, SessionKinds
  <2> QED
    BY <2>1, <2>2 DEF SessionInv, SessionKinds, FromItsRow, Operation
<1>1. ASSUME NEW c \in Firsts, NEW s \in Sessions,
             Opened!Create(c, s) \/ Opened!View(c, s) \/ Opened!Begin(c, s) \/ Opened!Archive(c, s)
      PROVE  SessionInv'
  <2> DEFINE r == session[s]
  <2>0. /\ r \in SessionRow /\ r.version \in Nat /\ r.version + 1 \in Nat /\ r.life \in Nat
        /\ r.workflow \in Workflows \union {None}
        /\ r = [version |-> r.version, life |-> r.life, lifecycle |-> r.lifecycle,
                workflow |-> r.workflow, history |-> r.history, expires |-> r.expires]
    BY <1>0, SessionFields
  <2>1. CASE Opened!Create(c, s)
    <3> DEFINE fresh1 == [Opened!NoRow EXCEPT !.lifecycle = "active", !.workflow = WorkflowOf[s],
                                             !.expires = hour + Expiration]
    <3>1. Opened!Goes(c, "creating", s, fresh1)
      BY <2>1 DEF Opened!Create
    <3>2. fresh1 = [version |-> 0, life |-> 0, lifecycle |-> "active", workflow |-> WorkflowOf[s],
                    history |-> <<>>, expires |-> hour + Expiration]
      <4>1. Opened!NoRow.version = 0 /\ Opened!NoRow.life = 0 /\ Opened!NoRow.history = <<>>
        BY DEF Opened!NoRow
      <4> DEFINE none == Opened!NoRow
      <4>2. fresh1 = [none EXCEPT !.lifecycle = "active", !.workflow = WorkflowOf[s],
                                         !.expires = hour + Expiration]
        OBVIOUS
      <4>3. none \in SessionRow /\ none.version = 0 /\ none.life = 0 /\ none.history = <<>>
        BY <4>1, NoSessionRow
      <4>4. none = [version |-> none.version, life |-> none.life, lifecycle |-> none.lifecycle,
                    workflow |-> none.workflow, history |-> none.history, expires |-> none.expires]
        BY <4>3, SessionFields
      <4> DEFINE x == hour + Expiration
                 w == WorkflowOf[s]
      <4>5. fresh1 = [none EXCEPT !.lifecycle = "active", !.workflow = w, !.expires = x]
        BY <4>2
      <4> HIDE DEF fresh1, none, x, w
      <4>6. fresh1 = [version |-> none.version, life |-> none.life, lifecycle |-> "active",
                      workflow |-> w, history |-> none.history, expires |-> x]
        BY <4>4, <4>5
      <4>7. fresh1 = [version |-> 0, life |-> 0, lifecycle |-> "active",
                      workflow |-> w, history |-> <<>>, expires |-> x]
        BY <4>3, <4>6
      <4> QED
        BY <4>7 DEF x, w
    <3>3. /\ hour + Expiration \in Nat /\ WorkflowOf[s] \in Workflows \union {None}
          /\ <<>> \in Seq(Firsts) /\ Len(<<>>) <= MaxHistory
      BY <1>0, SessionAssumed
    <3>4. fresh1 \in SessionRow
      <4> HIDE DEF fresh1
      <4> QED
        BY <3>2, <3>3, SessionRowIs
    <3> HIDE DEF fresh1
    <3> QED
      BY <3>1, <3>4, OperationBegins
  <2>2. CASE Opened!View(c, s)
    <3> DEFINE to == IF r.lifecycle = "recovered" THEN "recovered" ELSE "active"
               next == Opened!Appended(r, c, to)
    <3>1. /\ Opened!Goes(c, "viewing", s, next) /\ Opened!Open(r)
          /\ to \in {"active", "interrupted", "recovered", "archived"}
      BY <2>2 DEF Opened!View, Opened!Required
    <3> HIDE DEF to
    <3>2. /\ next \in SessionRow /\ next.version = r.version + 1
          /\ next.history = Opened!Added(r.history, c)
      BY <1>0, <2>0, <3>1, AppendedIs
    <3> HIDE DEF next
    <3> QED
      BY <3>1, <3>2, OperationBegins
  <2>3. CASE Opened!Begin(c, s)
    <3> DEFINE next == [r EXCEPT !.version = r.version + 1, !.lifecycle = "interrupted"]
    <3>1. Opened!Goes(c, "beginning", s, next) /\ Opened!Open(r)
      BY <2>3 DEF Opened!Begin, Opened!Required
    <3>2. next = [version |-> r.version + 1, life |-> r.life, lifecycle |-> "interrupted",
                  workflow |-> r.workflow, history |-> r.history, expires |-> r.expires]
      <4>1. next = [r EXCEPT !.version = r.version + 1, !.lifecycle = "interrupted"]
        OBVIOUS
      <4> HIDE DEF next, r
      <4> QED
        BY <2>0, <4>1, RowChanged
    <3>3. next \in SessionRow
      BY <2>0, <3>2, RowMoves
    <3>4. next.version = r.version + 1 /\ next.lifecycle = "interrupted" /\ next.history = r.history
      BY <3>2
    <3> HIDE DEF next
    <3> QED
      BY <3>1, <3>3, <3>4, OperationBegins
  <2>4. CASE Opened!Archive(c, s)
    <3>1. Opened!Goes(c, "archiving", s, r)
      BY <2>4 DEF Opened!Archive
    <3> QED
      BY <2>0, <3>1, OperationBegins
  <2> QED
    BY <1>1, <2>1, <2>2, <2>3, <2>4
<1>2. ASSUME NEW c \in Firsts, NEW s \in Sessions, NEW w \in Workflows, Opened!Attach(c, s, w)
      PROVE  SessionInv'
  <2> DEFINE r == session[s]
             next == [r EXCEPT !.version = r.version + 1, !.workflow = w]
  <2>0. /\ r \in SessionRow /\ r.version + 1 \in Nat /\ r.life \in Nat
        /\ r.lifecycle \in {"active", "interrupted", "recovered", "archived"}
        /\ r = [version |-> r.version, life |-> r.life, lifecycle |-> r.lifecycle,
                workflow |-> r.workflow, history |-> r.history, expires |-> r.expires]
    BY <1>0, SessionFields
  <2>1. Opened!Goes(c, "attaching", s, next) /\ Opened!Open(r)
    BY <1>2 DEF Opened!Attach, Opened!Required
  <2>2. next = [version |-> r.version + 1, life |-> r.life, lifecycle |-> r.lifecycle,
                workflow |-> w, history |-> r.history, expires |-> r.expires]
    <3>1. next = [r EXCEPT !.version = r.version + 1, !.workflow = w]
      OBVIOUS
    <3> HIDE DEF next, r
    <3> QED
      BY <2>0, <3>1, RowChanged
  <2>3. next \in SessionRow
    BY <2>0, <2>2, RowMoves
  <2>4. next.version = r.version + 1 /\ next.history = r.history
    BY <2>2
  <2> HIDE DEF next
  <2> QED
    BY <2>1, <2>3, <2>4, OperationBegins
<1>3. ASSUME NEW c \in Firsts, Opened!Save(c) PROVE SessionInv'
  <2> DEFINE s == operating[c].session
             r == operating[c].row
             op == IF operating[c].at = "beginning" THEN [operating[c] EXCEPT !.at = "working"]
                   ELSE Opened!Idle
  <2>0. /\ operating[c].at \in {"viewing", "beginning", "attaching"} /\ s \in Sessions
        /\ r \in SessionRow /\ r.version \in Nat /\ session[s].version \in Nat
        /\ head' = head /\ hour' = hour /\ restarts' = restarts /\ listing' = listing
    BY <1>0, <1>3, SessionFields DEF Opened!Save
  <2>1. CASE session' = session
    <3>1. operating' = [operating EXCEPT ![c] = Opened!Idle] \/ operating' = [operating EXCEPT ![c] = op]
      BY <1>3 DEF Opened!Save
    <3>2. CASE operating' = [operating EXCEPT ![c] = Opened!Idle]
      <4>1. FromItsRow(c)'
        BY <1>0, <3>2 DEF FromItsRow
      <4> QED
        BY <1>0, <2>0, <2>1, <3>2, <4>1, CallerMoves
    <3>3. CASE operating' # [operating EXCEPT ![c] = Opened!Idle]
      <4>1. session' = [session EXCEPT ![s] = r] /\ session[s].version = r.version - 1
        BY <1>3, <3>3 DEF Opened!Save, Opened!Saved
      <4>2. session'[s] = r /\ session[s] = r
        BY <1>0, <2>0, <2>1, <4>1
      <4> QED
        BY <2>0, <4>1, <4>2
    <3> QED
      BY <3>2, <3>3
  <2>2. CASE session' # session
    <3>1. /\ session' = [session EXCEPT ![s] = r] /\ session[s].version = r.version - 1
          /\ operating' = [operating EXCEPT ![c] = op]
      BY <1>3, <2>2 DEF Opened!Save, Opened!Saved
    <3>2. session'[s] = r /\ r.version > session[s].version /\ r.version = session[s].version + 1
      BY <1>0, <2>0, <3>1
    <3>3. op \in Operation /\ operating'[c] = op
      BY <1>0, <2>0, <3>1 DEF Operation
    <3>4. FromItsRow(c)'
      <4>1. CASE operating[c].at = "beginning"
        <5>1. op.at = "working" /\ op.session = s /\ op.row = r
          BY <1>0, <4>1 DEF Operation
        <5>2. r.lifecycle = "interrupted"
          BY <1>0, <2>0, <3>2, <4>1 DEF FromItsRow
        <5> HIDE DEF op
        <5> QED
          BY <2>0, <3>2, <3>3, <5>1, <5>2 DEF FromItsRow
      <4>2. CASE operating[c].at # "beginning"
        BY <1>0, <3>3, <4>2 DEF FromItsRow
      <4> QED
        BY <4>1, <4>2
    <3> HIDE DEF op
    <3> QED
      BY <2>0, <3>1, <3>2, <3>3, <3>4, RowIsSaved
  <2> QED
    BY <2>1, <2>2
<1>4. ASSUME NEW c \in Firsts, Opened!SaveCreated(c) PROVE SessionInv'
  <2> DEFINE s == operating[c].session
             r == operating[c].row
             next == [r EXCEPT !.version = session[s].version + 1, !.life = session[s].life + 1]
  <2>0. /\ s \in Sessions /\ r \in SessionRow /\ session[s].version \in Nat
        /\ session[s].life \in Nat
        /\ r.lifecycle \in {"active", "interrupted", "recovered", "archived"}
        /\ r.workflow \in Workflows \union {None}
        /\ r = [version |-> r.version, life |-> r.life, lifecycle |-> r.lifecycle,
                workflow |-> r.workflow, history |-> r.history, expires |-> r.expires]
        /\ head' = head /\ hour' = hour /\ restarts' = restarts /\ listing' = listing
        /\ operating' = [operating EXCEPT ![c] = Opened!Idle]
    BY <1>0, <1>4, SessionFields DEF Opened!SaveCreated
  <2>1. FromItsRow(c)'
    BY <1>0, <2>0 DEF FromItsRow
  <2>2. session' = session \/ session' = [session EXCEPT ![s] = next]
    BY <1>4 DEF Opened!SaveCreated
  <2>3. next = [version |-> session[s].version + 1, life |-> session[s].life + 1,
                lifecycle |-> r.lifecycle, workflow |-> r.workflow, history |-> r.history,
                expires |-> r.expires]
    <3>1. next = [r EXCEPT !.version = session[s].version + 1, !.life = session[s].life + 1]
      OBVIOUS
    <3> HIDE DEF next, r, s
    <3> QED
      BY <2>0, <3>1, RowChanged
  <2>4. next \in SessionRow
    <3>1. session[s].version + 1 \in Nat /\ session[s].life + 1 \in Nat
      BY <2>0
    <3> QED
      BY <2>0, <2>3, <3>1, RowMoves
  <2>5. next.version > session[s].version
    BY <2>0, <2>3
  <2> HIDE DEF next
  <2>6. CASE session' = session
    BY <1>0, <2>0, <2>1, <2>6, CallerMoves
  <2>7. CASE session' = [session EXCEPT ![s] = next]
    BY <1>0, <2>0, <2>1, <2>4, <2>5, <2>7, RowIsSaved
  <2> QED
    BY <2>2, <2>6, <2>7
<1>5. ASSUME NEW c \in Firsts, Opened!Complete(c) PROVE SessionInv'
  <2> DEFINE s == operating[c].session
             r == operating[c].row
             next == Opened!Appended(r, c, "active")
             op == [operating[c] EXCEPT !.at = "answering"]
  <2>0. /\ s \in Sessions /\ r \in SessionRow /\ r.version \in Nat
        /\ head' = head /\ hour' = hour /\ restarts' = restarts /\ listing' = listing
    BY <1>0, <1>5, SessionFields DEF Opened!Complete
  <2>1. \/ /\ session[s].version = r.version
           /\ session' = [session EXCEPT ![s] = next]
           /\ operating' = [operating EXCEPT ![c] = op]
        \/ session' = session /\ operating' = [operating EXCEPT ![c] = Opened!Idle]
    BY <1>0, <1>5 DEF Opened!Complete
  <2>2. next \in SessionRow /\ next.version = r.version + 1
    BY <1>0, <2>0, AppendedIs
  <2>3. op \in Operation /\ op.at = "answering" /\ op.session = s
    BY <1>0 DEF Operation
  <2> HIDE DEF next, op
  <2>4. CASE /\ session[s].version = r.version
             /\ session' = [session EXCEPT ![s] = next]
             /\ operating' = [operating EXCEPT ![c] = op]
    <3>1. FromItsRow(c)'
      BY <1>0, <2>0, <2>3, <2>4 DEF FromItsRow
    <3>2. next.version > session[s].version
      BY <2>0, <2>2, <2>4
    <3> QED
      BY <2>0, <2>2, <2>3, <2>4, <3>1, <3>2, RowIsSaved
  <2>5. CASE session' = session /\ operating' = [operating EXCEPT ![c] = Opened!Idle]
    <3>1. FromItsRow(c)'
      BY <1>0, <2>5 DEF FromItsRow
    <3> QED
      BY <1>0, <2>0, <2>5, <3>1, CallerMoves
  <2> QED
    BY <2>1, <2>4, <2>5
<1>6. ASSUME NEW c \in Firsts, Opened!Answer(c) PROVE SessionInv'
  <2>1. /\ operating' = [operating EXCEPT ![c] = Opened!Idle] /\ session' = session
        /\ head' = head /\ hour' = hour /\ restarts' = restarts /\ listing' = listing
    BY <1>6 DEF Opened!Answer
  <2>2. FromItsRow(c)'
    BY <1>0, <2>1 DEF FromItsRow
  <2> QED
    BY <1>0, <2>1, <2>2, CallerMoves
<1>7. ASSUME NEW r \in SessionRow
      PROVE  /\ Opened!Archived(r) \in SessionRow /\ Opened!Archived(r).version > r.version
             /\ Opened!Archived(r).life = r.life /\ Opened!Archived(r).history = r.history
             /\ Opened!Archived(r).lifecycle = "archived"
  <2>0. /\ r.version \in Nat /\ r.version + 1 \in Nat /\ r.life \in Nat
        /\ r.workflow \in Workflows \union {None}
        /\ r = [version |-> r.version, life |-> r.life, lifecycle |-> r.lifecycle,
                workflow |-> r.workflow, history |-> r.history, expires |-> r.expires]
    BY SessionFields
  <2>1. Opened!Archived(r) = [version |-> r.version + 1, life |-> r.life, lifecycle |-> "archived",
                workflow |-> r.workflow, history |-> r.history, expires |-> r.expires]
    <3> DEFINE next == Opened!Archived(r)
    <3>1. next = [r EXCEPT !.lifecycle = "archived", !.version = r.version + 1]
      BY DEF Opened!Archived
    <3> HIDE DEF next
    <3>2. next = [version |-> r.version + 1, life |-> r.life, lifecycle |-> "archived",
                workflow |-> r.workflow, history |-> r.history, expires |-> r.expires]
      BY <2>0, <3>1
    <3> QED
      BY <3>2 DEF next
  <2>2. Opened!Archived(r) \in SessionRow
    BY <2>0, <2>1, RowMoves
  <2> QED
    BY <2>0, <2>1, <2>2
<1>8. ASSUME NEW c \in Firsts, Opened!SaveArchived(c) PROVE SessionInv'
  <2> DEFINE s == operating[c].session
             next == Opened!Archived(session[s])
  <2>1. /\ operating' = [operating EXCEPT ![c] = Opened!Idle] /\ s \in Sessions
        /\ session' = [session EXCEPT ![s] = next]
        /\ head' = head /\ hour' = hour /\ restarts' = restarts /\ listing' = listing
    BY <1>0, <1>8 DEF Opened!SaveArchived
  <2>2. next \in SessionRow /\ next.version > session[s].version
    BY <1>0, <1>7, <2>1
  <2>3. FromItsRow(c)'
    BY <1>0, <2>1 DEF FromItsRow
  <2> HIDE DEF next
  <2> QED
    BY <1>0, <2>1, <2>2, <2>3, RowIsSaved
<1>9. ASSUME NEW c \in Firsts, Opened!List(c) PROVE SessionInv'
  <2>1. /\ session' = session /\ operating' = operating /\ head' = head /\ hour' = hour
        /\ restarts' = restarts /\ listing' \in {"answered", "refused"}
    BY <1>9 DEF Opened!List
  <2> QED
    BY <1>0, <2>1 DEF SessionInv, SessionKinds, FromItsRow, Opened!Open
<1>10. ASSUME Opened!Start PROVE SessionInv'
  <2>1. /\ session' = [s \in Sessions |->
             IF Opened!Present(s) THEN Opened!Recovered(session[s]) ELSE Opened!NoRow]
        /\ operating' = operating /\ head' = head /\ hour' = hour /\ listing' = listing
        /\ restarts' = restarts + 1 /\ restarts < Restarts
    BY <1>10 DEF Opened!Start
  <2>2. ASSUME NEW s \in Sessions
        PROVE  /\ session'[s] \in SessionRow
               /\ session'[s] = session[s] \/ session'[s].version > session[s].version
    <3> DEFINE r == session[s]
    <3>0. /\ r \in SessionRow /\ r.version \in Nat /\ r.version + 1 \in Nat /\ r.life \in Nat
          /\ r.workflow \in Workflows \union {None}
          /\ r = [version |-> r.version, life |-> r.life, lifecycle |-> r.lifecycle,
                  workflow |-> r.workflow, history |-> r.history, expires |-> r.expires]
      BY <1>0, SessionFields
    <3>1. CASE ~Opened!Present(s)
      BY <1>0, <2>1, <3>0, <3>1, NoSessionRow DEF Opened!Present
    <3>2. CASE Opened!Present(s) /\ Opened!Expired(r)
      <4>1. session'[s] = Opened!Archived(r)
        BY <2>1, <3>2 DEF Opened!Recovered
      <4> QED
        BY <1>7, <3>0, <4>1
    <3>3. CASE Opened!Present(s) /\ ~Opened!Expired(r) /\ r.lifecycle = "interrupted"
      <4>1. session'[s] = [r EXCEPT !.lifecycle = "recovered", !.version = r.version + 1]
        BY <2>1, <3>3 DEF Opened!Recovered
      <4>2. session'[s] = [version |-> r.version + 1, life |-> r.life, lifecycle |-> "recovered",
                           workflow |-> r.workflow, history |-> r.history, expires |-> r.expires]
        BY <3>0, <4>1
      <4>3. session'[s] \in SessionRow
        BY <3>0, <4>2, RowMoves
      <4>4. session'[s].version > r.version
        BY <3>0, <4>2
      <4> QED
        BY <4>3, <4>4
    <3>4. CASE Opened!Present(s) /\ ~Opened!Expired(r) /\ r.lifecycle # "interrupted"
      BY <2>1, <3>0, <3>4 DEF Opened!Recovered
    <3> QED
      BY <3>1, <3>2, <3>3, <3>4
  <2>3. SessionKinds'
    <3>1. restarts' \in 0..Restarts
      BY <1>0, <2>1, SessionAssumed
    <3>2. \A s \in Sessions : session'[s].version = 0 => session'[s] = Opened!NoRow
      <4> TAKE s \in Sessions
      <4>1. session[s].version \in Nat /\ (session[s].version = 0 => session[s] = Opened!NoRow)
        BY <1>0, SessionFields
      <4> QED
        BY <2>2, <4>1
    <3> QED
      BY <1>0, <2>1, <2>2, <3>1, <3>2 DEF SessionKinds
  <2>4. ASSUME NEW c \in Firsts PROVE FromItsRow(c)'
    <3> DEFINE s == operating[c].session
               r == operating[c].row
    <3>1. CASE operating[c].at \notin {"viewing", "beginning", "attaching", "working"}
      BY <1>0, <2>1, <3>1 DEF FromItsRow
    <3>2. CASE operating[c].at \in {"viewing", "beginning", "attaching", "working"}
      <4>1. /\ s \in Sessions /\ r.version \in Nat /\ session[s].version \in Nat
            /\ session'[s].version \in Nat
        BY <1>0, <2>2, <3>2, SessionFields
      <4>2. CASE session'[s] = session[s]
        BY <1>0, <2>1, <4>2 DEF FromItsRow, Opened!Open
      <4>3. CASE session'[s].version > session[s].version
        <5>1. /\ operating[c].at \in {"viewing", "beginning", "attaching"} =>
                   r.version <= session'[s].version + 1 /\ r.version # session'[s].version + 1
              /\ operating[c].at = "working" => /\ r.version <= session'[s].version
                                                /\ r.version # session'[s].version
                                                /\ r.lifecycle = "interrupted"
          <6>1. /\ operating[c].at \in {"viewing", "beginning", "attaching"} =>
                     r.version <= session[s].version + 1
                /\ operating[c].at = "working" => r.version <= session[s].version
                                                  /\ r.lifecycle = "interrupted"
            BY <1>0 DEF FromItsRow
          <6> QED
            BY <4>1, <4>3, <6>1
        <5> QED
          BY <2>1, <4>1, <5>1 DEF FromItsRow
      <4> QED
        BY <2>2, <4>1, <4>2, <4>3
    <3> QED
      BY <3>1, <3>2
  <2> QED
    BY <2>3, <2>4 DEF SessionInv
<1>11. ASSUME Opened!Publish \/ Opened!Tick PROVE SessionInv'
  <2>1. /\ session' = session /\ operating' = operating /\ restarts' = restarts
        /\ listing' = listing /\ head' \in Revisions
        /\ hour' = hour \/ (hour' = hour + 1 /\ hour < MaxHour)
    BY <1>0, <1>11 DEF Opened!Publish, Opened!Tick
  <2>2. hour' \in 0..MaxHour
    BY <1>0, <2>1, SessionAssumed
  <2> QED
    BY <1>0, <2>1, <2>2 DEF SessionInv, SessionKinds, FromItsRow, Opened!Open
<1> QED
  BY <1>1, <1>2, <1>3, <1>4, <1>5, <1>6, <1>8, <1>9, <1>10, <1>11 DEF Opened!Next

\* What a step may do to the rows and to those who are at work on them.
LEMMA SessionActs ==
  SessionInv /\ Opened!Next => Opened!CompletesOwn /\ Opened!HistoryGrows /\ Opened!ArchivedStays
<1> SUFFICES ASSUME SessionInv, Opened!Next
             PROVE  Opened!CompletesOwn /\ Opened!HistoryGrows /\ Opened!ArchivedStays
  OBVIOUS
<1>0. /\ session \in [Sessions -> SessionRow] /\ operating \in [Firsts -> Operation]
      /\ \A c \in Firsts : FromItsRow(c)
      /\ \A c \in Firsts : /\ operating[c].row \in SessionRow /\ operating[c].row.version \in Nat
                           /\ operating[c].at # "idle" => operating[c].session \in Sessions
      /\ \A s \in Sessions : session[s] \in SessionRow /\ session[s].version \in Nat
                             /\ session[s].life \in Nat
  <2>1. \A c \in Firsts : operating[c].row \in SessionRow
    BY DEF SessionInv, SessionKinds, Operation
  <2> QED
    BY <2>1, SessionFields DEF SessionInv, SessionKinds, FromItsRow
<1>1. ASSUME NEW c \in Firsts, operating[c].at = "working", operating'[c].at = "answering"
      PROVE  session[operating[c].session] = operating[c].row
  <2>1. ASSUME NEW d \in Firsts, NEW op, op.at # "answering", operating' = [operating EXCEPT ![d] = op]
        PROVE  FALSE
    <3>1. operating'[c] = op \/ operating'[c] = operating[c]
      BY <1>0, <2>1
    <3> QED
      BY <1>1, <2>1, <3>1
  <2>2. ASSUME operating' = operating PROVE FALSE
    BY <1>1, <2>2
  <2>3. Opened!Idle.at # "answering"
    BY DEF Opened!Idle
  <2>31. ASSUME NEW d \in Firsts, NEW s \in Sessions, NEW to, NEW r, Opened!Goes(d, to, s, r),
                to # "answering"
         PROVE  FALSE
    <3> DEFINE op == [at |-> to, session |-> s, row |-> r]
    <3>1. op.at # "answering" /\ operating' = [operating EXCEPT ![d] = op]
      BY <2>31 DEF Opened!Goes
    <3> HIDE DEF op
    <3> QED
      BY <2>1, <3>1
  <2>4. ASSUME NEW d \in Firsts, NEW s \in Sessions,
               Opened!Create(d, s) \/ Opened!View(d, s) \/ Opened!Begin(d, s)
               \/ Opened!Archive(d, s) \/ \E w \in Workflows : Opened!Attach(d, s, w)
        PROVE  FALSE
    BY <2>4, <2>31 DEF Opened!Create, Opened!View, Opened!Begin, Opened!Archive, Opened!Attach
  <2>5. ASSUME NEW d \in Firsts, Opened!Save(d) PROVE FALSE
    <3> DEFINE op == [operating[d] EXCEPT !.at = "working"]
    <3>1. \/ operating' = [operating EXCEPT ![d] = Opened!Idle]
          \/ operating' = [operating EXCEPT ![d] = op]
      BY <2>5 DEF Opened!Save
    <3>2. op.at # "answering"
      BY <1>0 DEF Operation
    <3> HIDE DEF op
    <3> QED
      BY <2>1, <2>3, <3>1, <3>2
  <2>6. ASSUME NEW d \in Firsts,
               Opened!SaveCreated(d) \/ Opened!Answer(d) \/ Opened!SaveArchived(d)
        PROVE  FALSE
    BY <2>1, <2>3, <2>6 DEF Opened!SaveCreated, Opened!Answer, Opened!SaveArchived
  <2>7. ASSUME (\E d \in Firsts : Opened!List(d)) \/ Opened!Start \/ Opened!Publish \/ Opened!Tick
        PROVE  FALSE
    BY <2>2, <2>7 DEF Opened!List, Opened!Start, Opened!Publish, Opened!Tick
  <2>8. PICK d \in Firsts : Opened!Complete(d)
    BY <2>4, <2>5, <2>6, <2>7 DEF Opened!Next
  <2>9. d = c
    <3>1. CASE d # c
      <4>1. operating'[c] = operating[c]
        BY <1>0, <2>8, <3>1 DEF Opened!Complete
      <4> QED
        BY <1>1, <4>1
    <3> QED
      BY <3>1
  <2>10. session[operating[c].session].version = operating[c].row.version
    <3>1. CASE operating' = [operating EXCEPT ![c] = Opened!Idle]
      BY <2>1, <2>3, <3>1
    <3>2. CASE operating' # [operating EXCEPT ![c] = Opened!Idle]
      BY <2>8, <2>9, <3>2 DEF Opened!Complete
    <3> QED
      BY <3>1, <3>2
  <2> QED
    BY <1>0, <1>1, <2>10 DEF FromItsRow
\* A row that a step saves in the same life.
<1>2. ASSUME NEW s \in Sessions, session'[s] # session[s], Opened!SameLife(s)
      PROVE  \/ /\ session'[s].history = session[s].history
                /\ session[s].lifecycle = "archived" => session'[s].lifecycle = "archived"
             \/ /\ \E c \in Firsts : \/ session'[s].history = session[s].history
                                     \/ session'[s].history = Opened!Added(session[s].history, c)
                /\ session[s].lifecycle # "archived"
  <2>1. ASSUME NEW c \in Firsts, Opened!Save(c)
        PROVE  /\ \/ session'[s].history = session[s].history
                  \/ session'[s].history = Opened!Added(session[s].history, c)
               /\ session[s].lifecycle # "archived"
    <3> DEFINE r == operating[c].row
    <3>1. /\ operating[c].at \in {"viewing", "beginning", "attaching"}
          /\ session[operating[c].session].version = r.version - 1
          /\ session' = [session EXCEPT ![operating[c].session] = r]
      BY <1>2, <2>1 DEF Opened!Save, Opened!Saved
    <3>2. operating[c].session = s /\ session'[s] = r
      BY <1>0, <1>2, <3>1
    <3>3. r.version = session[s].version + 1
      BY <1>0, <3>1, <3>2
    <3>4. Opened!Open(session[s]) /\ (r.history = session[s].history
                                      \/ r.history = Opened!Added(session[s].history, c))
      BY <1>0, <3>1, <3>2, <3>3 DEF FromItsRow
    <3> QED
      BY <3>2, <3>4 DEF Opened!Open
  <2>2. ASSUME NEW c \in Firsts, Opened!SaveCreated(c) PROVE FALSE
    <3> DEFINE n == session[operating[c].session].life + 1
               v == session[operating[c].session].version + 1
               r == [operating[c].row EXCEPT !.version = v, !.life = n]
    <3>1. session' = [session EXCEPT ![operating[c].session] = r]
      BY <1>2, <2>2 DEF Opened!SaveCreated
    <3>2. operating[c].session = s /\ session'[s] = r
      BY <1>0, <1>2, <3>1
    <3>3. r.life = n
      BY <1>0 DEF SessionRow
    <3>4. n = session[s].life + 1 /\ session'[s].life = n
      BY <3>2, <3>3
    <3> HIDE DEF r, n
    <3>5. session[s].life \in Nat /\ session'[s].life = session[s].life
      BY <1>0, <1>2 DEF Opened!SameLife
    <3> QED
      BY <3>4, <3>5
  <2>3. ASSUME NEW c \in Firsts, Opened!Complete(c)
        PROVE  /\ session'[s].history = Opened!Added(session[s].history, c)
               /\ session[s].lifecycle # "archived"
    <3> DEFINE r == Opened!Appended(operating[c].row, c, "active")
    <3>1. /\ operating[c].at = "working"
          /\ session[operating[c].session].version = operating[c].row.version
          /\ session' = [session EXCEPT ![operating[c].session] = r]
      BY <1>2, <2>3 DEF Opened!Complete
    <3>2. operating[c].session = s /\ session'[s] = r
      BY <1>0, <1>2, <3>1
    <3>3. session[s] = operating[c].row /\ session[s].lifecycle = "interrupted"
      BY <1>0, <3>1, <3>2 DEF FromItsRow
    <3>4. r.history = Opened!Added(operating[c].row.history, c)
      <4>1. hour \in Nat
        BY SessionAssumed DEF SessionInv, SessionKinds
      <4> QED
        BY <1>0, <4>1, AppendedIs
    <3> QED
      BY <3>2, <3>3, <3>4
  <2>4. ASSUME NEW r \in SessionRow
        PROVE  Opened!Archived(r).lifecycle = "archived" /\ Opened!Archived(r).history = r.history
    <3> DEFINE v == r.version + 1
    <3>1. Opened!Archived(r) = [r EXCEPT !.lifecycle = "archived", !.version = v]
      BY DEF Opened!Archived
    <3> HIDE DEF v
    <3> QED
      BY <3>1 DEF SessionRow
  <2>5. ASSUME NEW c \in Firsts, Opened!SaveArchived(c)
        PROVE  session'[s].history = session[s].history /\ session'[s].lifecycle = "archived"
    <3>1. session'[s] = Opened!Archived(session[s])
      BY <1>0, <1>2, <2>5 DEF Opened!SaveArchived
    <3> QED
      BY <1>0, <2>4, <3>1
  <2>6. ASSUME Opened!Start
        PROVE  /\ session'[s].history = session[s].history
               /\ session[s].lifecycle = "archived" => session'[s].lifecycle = "archived"
    <3>1. session'[s] = Opened!Recovered(session[s])
      BY <1>2, <2>6 DEF Opened!Start, Opened!SameLife
    <3>2. CASE Opened!Expired(session[s])
      <4>1. session'[s] = Opened!Archived(session[s])
        BY <3>1, <3>2 DEF Opened!Recovered
      <4> QED
        BY <1>0, <2>4, <4>1
    <3>3. CASE ~Opened!Expired(session[s])
      <4> DEFINE v == session[s].version + 1
      <4>1. /\ session[s].lifecycle = "interrupted"
            /\ session'[s] = [session[s] EXCEPT !.lifecycle = "recovered", !.version = v]
        BY <1>2, <3>1, <3>3 DEF Opened!Recovered
      <4> HIDE DEF v
      <4>2. session'[s].history = session[s].history
        BY <1>0, <4>1 DEF SessionRow
      <4> QED
        BY <4>1, <4>2
    <3> QED
      BY <3>2, <3>3
  <2>7. ASSUME session' = session PROVE FALSE
    BY <1>2, <2>7
  <2>8. ASSUME NEW d \in Firsts, NEW t \in Sessions,
               Opened!Create(d, t) \/ Opened!View(d, t) \/ Opened!Begin(d, t)
               \/ Opened!Archive(d, t) \/ \E w \in Workflows : Opened!Attach(d, t, w)
        PROVE  session' = session
    BY <2>8 DEF Opened!Create, Opened!View, Opened!Begin, Opened!Archive, Opened!Attach, Opened!Goes
  <2>9. ASSUME \/ \E d \in Firsts : Opened!Answer(d) \/ Opened!List(d)
               \/ Opened!Publish \/ Opened!Tick
        PROVE  session' = session
    BY <2>9 DEF Opened!Answer, Opened!List, Opened!Publish, Opened!Tick
  <2> QED
    BY <2>1, <2>2, <2>3, <2>5, <2>6, <2>7, <2>8, <2>9 DEF Opened!Next
<1>3. Opened!CompletesOwn
  BY <1>1 DEF Opened!CompletesOwn
<1>4. Opened!HistoryGrows /\ Opened!ArchivedStays
  BY <1>2 DEF Opened!HistoryGrows, Opened!ArchivedStays
<1> QED
  BY <1>3, <1>4

-----------------------------------------------------------------------------
(* The coordinated execution.                                               *)

Ends3 == {"completed", "partial", "failed"}
CoordinatedRow ==
  [status: {"none", "coordinating", "completed", "partial", "failed", "stale"},
   version: Nat, by: 0..MaxCalls, history: Seq(Ends3)]
CoordinatedCall ==
  [at: {"idle", "hit", "begin", "stage", "finish", "failing", "answered", "threw"},
   number: 0..MaxCalls, mine: CoordinatedRow]
NoExecution == [status |-> "none", version |-> 0, by |-> 0, history |-> <<>>]

Unfailed(history) == \A i \in DOMAIN history : history[i] # "failed"

\* What an execution's status says of its stages.
ExecutionStands(v, r) ==
  /\ r.status = "none" => r = NoExecution
  /\ r.status # "none" => r.by # 0
  /\ Len(r.history) <= Len(v.stages)
  /\ r.status \in {"completed", "partial"} =>
       Len(r.history) = Len(v.stages) /\ Unfailed(r.history)
  /\ r.status = "completed" =>
       \A i \in DOMAIN r.history : r.history[i] = "completed"

\* A call that is under way has a copy of its own execution, and knows which
\* stage it is at.
Working == {"stage", "finish", "failing"}
CallStands(v, x) ==
  /\ ExecutionStands(v, x.mine)
  /\ x.at \in {"hit", "answered"} => x.mine.status # "none"
  /\ x.at = "begin" => x.number # 0
  /\ x.at \in Working =>
       x.mine.status = "coordinating" /\ x.mine.by = x.number /\ x.mine.version # 0
  /\ x.at = "stage" => Len(x.mine.history) < Len(v.stages) /\ Unfailed(x.mine.history)
  /\ x.at = "finish" => Len(x.mine.history) = Len(v.stages) /\ Unfailed(x.mine.history)

\* One execution is collected while no call can be overtaken, or none is.
OneCaller(v) == \A c, d \in v.callers : c = d

\* How the stored execution follows a copy of it: no copy is ahead of it, one of
\* the same version has its status unless it was recovered, and a call that is
\* under way and was overtaken has an older version.
RowFollows(v, x) ==
  /\ x.mine.status # "none" /\ row.by = x.mine.by =>
       /\ x.mine.version <= row.version
       /\ x.mine.version = row.version => row.status \in {x.mine.status, "failed", "stale"}
  /\ x.at = "begin" => row.by # x.number
  /\ x.at \in Working =>
       \/ row.status = "none" /\ v.collections # 0
       \/ /\ row.status # "none" /\ x.mine.version <= row.version
          /\ x.mine.version = row.version => row.by = x.mine.by

\* Calls have numbers of their own, and nothing is known by one that has not begun.
CallsApart(v) ==
  \A c, d \in v.callers :
    /\ c # d => call[c].number = 0 \/ call[c].number # call[d].number
    /\ call[c].at = "begin" => call[d].mine.by # call[c].number
    /\ call[c].number <= calls /\ call[c].mine.by <= calls

CoordinationKinds(v) ==
  /\ row \in CoordinatedRow /\ ExecutionStands(v, row) /\ row.by <= calls
  /\ fresh \in BOOLEAN
  /\ call \in [v.callers -> CoordinatedCall]
  /\ calls \in 0..MaxCalls /\ recoveries \in 0..MaxRecoveries
  /\ moves \in 0..v.moves /\ removed \in 0..v.collections
CoordinationInv(v) ==
  /\ CoordinationKinds(v)
  /\ \A c \in v.callers : CallStands(v, call[c]) /\ RowFollows(v, call[c])
  /\ CallsApart(v)

\* What is assumed of it: the constants, and that one caller's calls follow each
\* other where what they store is collected.
CoordinationAssumed(v) ==
  /\ Coordination(v)!CoordinatorAssumption
  /\ v.collections = 0 \/ OneCaller(v)

LEMMA CoordinationNumbers ==
  ASSUME NEW v, CoordinationAssumed(v)
  PROVE  /\ MaxCalls \in Nat /\ MaxRecoveries \in Nat /\ v.moves \in Nat /\ v.collections \in Nat
         /\ Len(v.stages) \in Nat
BY DEF CoordinationAssumed, Coordination!CoordinatorAssumption

LEMMA NothingExecuted ==
  ASSUME NEW v, CoordinationAssumed(v)
  PROVE  /\ NoExecution \in CoordinatedRow
         /\ ExecutionStands(v, NoExecution)
         /\ NoExecution.status = "none" /\ NoExecution.version = 0 /\ NoExecution.by = 0
         /\ NoExecution.history = <<>> /\ Len(NoExecution.history) = 0
<1>1. MaxCalls \in Nat /\ Len(v.stages) \in Nat /\ <<>> \in Seq(Ends3) /\ Len(<<>>) = 0
  BY CoordinationNumbers
<1>2. /\ NoExecution.status = "none" /\ NoExecution.version = 0 /\ NoExecution.by = 0
      /\ NoExecution.history = <<>>
  BY DEF NoExecution
<1>3. NoExecution \in CoordinatedRow
  BY <1>1 DEF NoExecution, CoordinatedRow
<1> QED
  BY <1>1, <1>2, <1>3 DEF ExecutionStands

LEMMA CoordinationBegins ==
  ASSUME NEW v, CoordinationAssumed(v), Coordination(v)!Init
  PROVE  CoordinationInv(v)
<1>1. /\ row = NoExecution /\ fresh = TRUE
      /\ call = [c \in v.callers |-> [at |-> "idle", number |-> 0, mine |-> NoExecution]]
      /\ calls = 0 /\ recoveries = 0 /\ moves = 0 /\ removed = 0
  BY DEF Coordination!Init, Coordination!NoRow, Coordination!Idle, NoExecution
<1>2. /\ MaxCalls \in Nat /\ MaxRecoveries \in Nat /\ v.moves \in Nat /\ v.collections \in Nat
      /\ NoExecution \in CoordinatedRow /\ ExecutionStands(v, NoExecution)
      /\ NoExecution.status = "none" /\ NoExecution.by = 0
  BY CoordinationNumbers, NothingExecuted
<1>3. /\ call \in [v.callers -> CoordinatedCall]
      /\ \A c \in v.callers : call[c].at = "idle" /\ call[c].number = 0 /\ call[c].mine = NoExecution
  BY <1>1, <1>2 DEF CoordinatedCall
<1>4. CoordinationKinds(v)
  BY <1>1, <1>2, <1>3 DEF CoordinationKinds
<1>5. \A c \in v.callers : CallStands(v, call[c]) /\ RowFollows(v, call[c])
  BY <1>2, <1>3 DEF CallStands, RowFollows, Working
<1>6. CallsApart(v)
  BY <1>1, <1>2, <1>3 DEF CallsApart
<1> QED
  BY <1>4, <1>5, <1>6 DEF CoordinationInv

LEMMA CoordinationSays ==
  ASSUME NEW v, CoordinationAssumed(v), CoordinationInv(v)
  PROVE  Coordination(v)!TypeOK /\ Coordination(v)!AnswersStand
<1>1. ASSUME NEW r \in CoordinatedRow, ExecutionStands(v, r) PROVE Coordination(v)!IsRow(r)
  BY <1>1 DEF CoordinatedRow, ExecutionStands, Unfailed, Ends3, Coordination!IsRow,
     Coordination!Statuses, Coordination!Outcomes
<1>2. \A c \in v.callers : /\ call[c] \in CoordinatedCall /\ call[c].mine \in CoordinatedRow
                           /\ ExecutionStands(v, call[c].mine)
  BY DEF CoordinationInv, CoordinationKinds, CallStands, CoordinatedCall
<1>3. Coordination(v)!TypeOK
  BY <1>1, <1>2 DEF CoordinationInv, CoordinationKinds, CoordinatedCall, Coordination!TypeOK
<1>4. Coordination(v)!AnswersStand
  <2> SUFFICES ASSUME NEW c \in v.callers, call[c].at = "answered"
               PROVE  /\ row.by = call[c].mine.by /\ row.version = call[c].mine.version
                           => row.status \in {call[c].mine.status, "failed", "stale"}
                      /\ call[c].mine.status = "completed" =>
                           \A i \in DOMAIN call[c].mine.history : call[c].mine.history[i] = "completed"
    BY DEF Coordination!AnswersStand
  <2>1. CallStands(v, call[c]) /\ RowFollows(v, call[c])
    BY DEF CoordinationInv
  <2> QED
    BY <2>1 DEF CallStands, RowFollows, ExecutionStands
<1> QED
  BY <1>3, <1>4

\* A call goes on without a save.
LEMMA CallPasses ==
  ASSUME NEW v, CoordinationAssumed(v), CoordinationInv(v), NEW c \in v.callers,
         NEW x \in CoordinatedCall, CallStands(v, x), RowFollows(v, x),
         x.number = call[c].number, x.mine = call[c].mine, x.at # "begin",
         call' = [call EXCEPT ![c] = x],
         UNCHANGED <<row, fresh, calls, recoveries, moves, removed>>
  PROVE  CoordinationInv(v)'
<1>1. CoordinationKinds(v)'
  BY DEF CoordinationInv, CoordinationKinds
<1>2. ASSUME NEW d \in v.callers
      PROVE  /\ CallStands(v, call'[d]) /\ RowFollows(v, call'[d])
             /\ call'[d].number = call[d].number /\ call'[d].mine = call[d].mine
             /\ call'[d].at = "begin" => call[d].at = "begin"
  BY DEF CoordinationInv, CoordinationKinds
<1>3. \A d \in v.callers : RowFollows(v, call[d])'
  BY <1>2 DEF RowFollows
<1>4. CallsApart(v)'
  BY <1>2 DEF CoordinationInv, CallsApart
<1> QED
  BY <1>1, <1>2, <1>3, <1>4 DEF CoordinationInv

\* A call's save: its own execution, begun or gone on with from where it is.
LEMMA CallSaves ==
  ASSUME NEW v, CoordinationAssumed(v), CoordinationInv(v), NEW c \in v.callers,
         NEW x \in CoordinatedCall, NEW r \in CoordinatedRow,
         CallStands(v, x), ExecutionStands(v, r), r.status # "none",
         r.by = call[c].number, r.version = row.version + 1,
         \/ call[c].at = "begin"
         \/ call[c].at \in Working /\ row.status # "none" /\ row.version = call[c].mine.version,
         x.number = call[c].number, x.mine = r \/ x.mine = call[c].mine,
         x.at # "begin",
         row' = r, call' = [call EXCEPT ![c] = x],
         UNCHANGED <<fresh, calls, recoveries, moves, removed>>
  PROVE  CoordinationInv(v)'
<1>0. /\ row \in CoordinatedRow /\ row.version \in Nat /\ row.by \in Nat /\ r.version \in Nat
      /\ call \in [v.callers -> CoordinatedCall]
      /\ calls \in Nat /\ call[c].number \in Nat /\ call[c].number <= calls
  BY CoordinationNumbers DEF CoordinationInv, CoordinationKinds, CoordinatedRow, CoordinatedCall, CallsApart
<1>1. /\ \A d \in v.callers : call'[d] = IF d = c THEN x ELSE call[d]
      /\ call' \in [v.callers -> CoordinatedCall]
  BY <1>0
<1>2. CoordinationKinds(v)'
  BY <1>0, <1>1 DEF CoordinationInv, CoordinationKinds
<1>3. \A d \in v.callers : CallStands(v, call'[d])
  BY <1>1 DEF CoordinationInv
<1>4. /\ call[c].number # 0
      /\ call[c].at # "begin" => row.by = call[c].number
  <2>1. CallStands(v, call[c]) /\ RowFollows(v, call[c])
    BY DEF CoordinationInv
  <2> QED
    BY <1>0, <2>1 DEF CallStands, RowFollows, ExecutionStands
<1>5. ASSUME NEW d \in v.callers
      PROVE  /\ call[d] \in CoordinatedCall /\ call[d].mine.version \in Nat
             /\ CallStands(v, call[d]) /\ RowFollows(v, call[d])
             /\ call[d].mine.by = r.by => /\ call[c].at # "begin"
                                          /\ call[d].mine.status = "none" \/ call[d].mine.version <= row.version
             /\ d # c => call[d].number # r.by
  <2>1. call[d] \in CoordinatedCall /\ call[d].mine.version \in Nat
    BY <1>0 DEF CoordinatedCall, CoordinatedRow
  <2>2. CallStands(v, call[d]) /\ RowFollows(v, call[d])
    BY DEF CoordinationInv
  <2>3. call[d].mine.by = r.by => call[c].at # "begin"
    BY DEF CoordinationInv, CallsApart
  <2>4. d # c => call[d].number # r.by
    BY <1>4 DEF CoordinationInv, CallsApart
  <2> QED
    BY <1>4, <2>1, <2>2, <2>3, <2>4 DEF RowFollows
<1>6. ASSUME NEW d \in v.callers, d # c
      PROVE  RowFollows(v, call[d])'
  <2>1. call'[d] = call[d] /\ row' = r
    BY <1>1, <1>6
  <2>2. call[d].mine.status # "none" /\ r.by = call[d].mine.by => call[d].mine.version < r.version
    BY <1>0, <1>5
  <2>3. call[d].at = "begin" => r.by # call[d].number
    BY <1>5, <1>6
  <2>4. call[d].at \in Working => call[d].mine.version < r.version
    <3>1. v.collections # 0 => OneCaller(v)
      BY DEF CoordinationAssumed
    <3>2. v.collections = 0
      BY <1>6, <3>1 DEF OneCaller
    <3> QED
      BY <1>0, <1>5, <3>2 DEF RowFollows
  <2> QED
    BY <1>0, <1>5, <2>1, <2>2, <2>3, <2>4 DEF RowFollows
<1>7. RowFollows(v, call[c])'
  <2>1. call'[c] = x /\ row' = r
    BY <1>1
  <2>2. CASE x.mine = r
    BY <1>0, <2>1, <2>2 DEF RowFollows
  <2>3. CASE x.mine = call[c].mine
    <3>1. x.mine.version \in Nat
      BY <1>5, <2>3
    <3>2. x.mine.status # "none" /\ r.by = x.mine.by => x.mine.version < r.version
      BY <1>0, <1>5, <2>3
    <3>3. x.at \in Working => x.mine.version < r.version
      <4>1. x.at \in Working => x.mine.by = x.number /\ x.mine.status # "none"
        BY DEF CallStands
      <4> QED
        BY <3>2, <4>1
    <3> QED
      BY <1>0, <2>1, <3>1, <3>2, <3>3 DEF RowFollows
  <2> QED
    BY <2>2, <2>3
<1>8. CallsApart(v)'
  <2>1. ASSUME NEW d \in v.callers
        PROVE  /\ call'[d].number = call[d].number
               /\ call'[d].at = "begin" => call[d].at = "begin" /\ d # c
               /\ \/ call'[d].mine = call[d].mine
                  \/ d = c /\ call'[d].mine.by = call[c].number
    BY <1>1
  <2> QED
    BY <1>0, <1>4, <2>1 DEF CoordinationInv, CallsApart
<1> QED
  BY <1>2, <1>3, <1>6, <1>7, <1>8 DEF CoordinationInv

\* What a step does to the stored execution.
CoordinationActs(v) ==
  Coordination(v)!TakenOverAtStart /\ Coordination(v)!StaysCompleted

LEMMA ExecutionRests ==
  ASSUME NEW v, row' = row PROVE CoordinationActs(v)
BY DEF CoordinationActs, Coordination!TakenOverAtStart, Coordination!StaysCompleted

\* A save that is made is of the call's own execution, or begins one; only one
\* that begins is made over a completed execution.
LEMMA SavesOwn ==
  ASSUME NEW v, CoordinationAssumed(v), CoordinationInv(v), NEW c \in v.callers,
         \/ call[c].at = "begin" /\ row'.history = <<>>
         \/ call[c].at \in Working /\ row.status # "none" /\ row.version = call[c].mine.version,
         row'.by = call[c].number
  PROVE  CoordinationActs(v)
<1>1. CallStands(v, call[c]) /\ RowFollows(v, call[c])
  BY DEF CoordinationInv
<1>2. call[c].mine.version \in Nat
  BY DEF CoordinationInv, CoordinationKinds, CoordinatedCall, CoordinatedRow
<1>3. call[c].at = "begin" => call[c].at \notin Working
  BY DEF Working
<1>4. call[c].at \in Working => row.by = call[c].number /\ row.status # "completed"
  BY <1>1, <1>2, <1>3 DEF CallStands, RowFollows
<1> QED
  BY <1>1, <1>4 DEF CoordinationActs, RowFollows, Coordination!TakenOverAtStart,
     Coordination!StaysCompleted

\* What a call has once its save is answered, or is not.
After(c, at, mine) == [at |-> at, number |-> call[c].number, mine |-> mine]
AtVersion(record, n) ==
  [status |-> record.status, version |-> n, by |-> record.by, history |-> record.history]

\* A save that is heard of: the call goes on from what it saved.
GoesOnFrom(v, at, record) ==
  /\ at \in {"stage", "finish", "failing", "answered"}
  /\ at # "answered" => record.status = "coordinating"
  /\ at = "stage" => Len(record.history) < Len(v.stages) /\ Unfailed(record.history)
  /\ at = "finish" => Len(record.history) = Len(v.stages) /\ Unfailed(record.history)

LEMMA CallStores ==
  ASSUME NEW v, CoordinationAssumed(v), CoordinationInv(v), NEW c \in v.callers,
         NEW record \in CoordinatedRow, NEW at, NEW unheard,
         ExecutionStands(v, record), record.status # "none", record.by = call[c].number,
         \/ call[c].at = "begin" /\ record.history = <<>>
         \/ call[c].at \in Working /\ row.status # "none" /\ row.version = call[c].mine.version,
         GoesOnFrom(v, at, record),
         unheard = "threw" \/ (unheard = "failing" /\ call[c].at \in Working),
         Coordination(v)!Store(c, record, at) \/ Coordination(v)!StoreUnheard(c, record, unheard),
         UNCHANGED <<fresh, calls, recoveries, moves, removed>>
  PROVE  CoordinationInv(v)' /\ CoordinationActs(v)
<1> DEFINE n == row.version + 1
           r == AtVersion(record, n)
           mine == call[c].mine
<1>0. /\ call \in [v.callers -> CoordinatedCall] /\ call[c].number \in 0..MaxCalls
      /\ mine \in CoordinatedRow /\ n \in Nat /\ n # 0 /\ n = row.version + 1
      /\ call[c] = [at |-> call[c].at, number |-> call[c].number, mine |-> mine]
      /\ CallStands(v, call[c])
  <2>1. /\ call \in [v.callers -> CoordinatedCall] /\ call[c] \in CoordinatedCall
        /\ row \in CoordinatedRow /\ CallStands(v, call[c])
    BY DEF CoordinationInv, CoordinationKinds
  <2>2. row.version \in Nat
    BY <2>1 DEF CoordinatedRow
  <2>3. n \in Nat /\ n # 0 /\ n = row.version + 1
    BY <2>2
  <2> QED
    BY <2>1, <2>3 DEF CoordinatedCall
<1>1. row' = [record EXCEPT !.version = n]
  BY DEF Coordination!Store, Coordination!StoreUnheard, Coordination!Saved
<1> HIDE DEF n
<1>2. /\ row' = r /\ r \in CoordinatedRow
      /\ r.status = record.status /\ r.by = record.by /\ r.version = n /\ r.history = record.history
  <2>1. record = [status |-> record.status, version |-> record.version, by |-> record.by,
                  history |-> record.history]
    BY DEF CoordinatedRow
  <2> QED
    BY <1>0, <1>1, <2>1 DEF AtVersion, CoordinatedRow
<1>3. \/ call' = [call EXCEPT ![c] = After(c, at, r)]
      \/ call' = [call EXCEPT ![c] = After(c, unheard, mine)]
  <2>1. CASE Coordination(v)!Store(c, record, at)
    <3> DEFINE y == [call[c] EXCEPT !.at = at, !.mine = row']
    <3>1. call' = [call EXCEPT ![c].at = at, ![c].mine = row']
      BY <2>1 DEF Coordination!Store
    <3>2. call' = [call EXCEPT ![c] = y]
      BY <1>0, <3>1
    <3> HIDE DEF r
    <3>3. y = [at |-> at, number |-> call[c].number, mine |-> row']
      <4> DEFINE z == [call[c] EXCEPT !.at = at]
      <4>1. z = [at |-> at, number |-> call[c].number, mine |-> mine] /\ y = [z EXCEPT !.mine = row']
        BY <1>0
      <4> HIDE DEF z, y
      <4> QED
        BY <4>1
    <3> HIDE DEF y
    <3>4. y = After(c, at, r)
      BY <1>2, <3>3 DEF After
    <3> QED
      BY <3>2, <3>4
  <2>2. CASE Coordination(v)!StoreUnheard(c, record, unheard)
    <3> DEFINE y == [call[c] EXCEPT !.at = unheard]
    <3>1. call' = [call EXCEPT ![c].at = unheard]
      BY <2>2 DEF Coordination!StoreUnheard, Coordination!At
    <3>2. y = After(c, unheard, mine)
      BY <1>0 DEF After
    <3>3. call' = [call EXCEPT ![c] = y]
      BY <1>0, <3>1
    <3> QED
      BY <3>2, <3>3
  <2> QED
    BY <2>1, <2>2
<1>4. ExecutionStands(v, r)
  <2>1. record.status # "none" /\ record.by # 0
    BY DEF ExecutionStands
  <2> QED
    BY <1>2, <2>1 DEF ExecutionStands
<1> HIDE DEF r
<1>5. /\ After(c, at, r) \in CoordinatedCall /\ CallStands(v, After(c, at, r))
      /\ After(c, at, r).number = call[c].number /\ After(c, at, r).mine = r
      /\ After(c, at, r).at # "begin"
  BY <1>0, <1>2, <1>4 DEF After, CoordinatedCall, CallStands, GoesOnFrom, Working
<1>6. /\ After(c, unheard, mine) \in CoordinatedCall /\ CallStands(v, After(c, unheard, mine))
      /\ After(c, unheard, mine).number = call[c].number /\ After(c, unheard, mine).mine = call[c].mine
      /\ After(c, unheard, mine).at # "begin"
  BY <1>0 DEF After, CoordinatedCall, CallStands, Working
<1>7. CoordinationInv(v)'
  BY <1>0, <1>2, <1>3, <1>4, <1>5, <1>6, CallSaves
<1>8. CoordinationActs(v)
  BY <1>2, SavesOwn
<1> QED
  BY <1>7, <1>8

\* A call that is thrown out, goes to its catch or is answered, and saves nothing.
LEMMA CallLeaves ==
  ASSUME NEW v, CoordinationAssumed(v), CoordinationInv(v), NEW c \in v.callers, NEW at,
         \/ at = "threw"
         \/ at = "failing" /\ call[c].at \in Working
         \/ at = "answered" /\ call[c].at = "hit",
         call' = [call EXCEPT ![c].at = at],
         UNCHANGED <<row, fresh, calls, recoveries, moves, removed>>
  PROVE  CoordinationInv(v)' /\ CoordinationActs(v)
<1> DEFINE x == [call[c] EXCEPT !.at = at]
<1>1. call[c] \in CoordinatedCall /\ CallStands(v, call[c]) /\ RowFollows(v, call[c])
  BY DEF CoordinationInv, CoordinationKinds
<1>2. /\ x \in CoordinatedCall /\ x.at = at /\ x.number = call[c].number /\ x.mine = call[c].mine
  BY <1>1 DEF CoordinatedCall
<1>3. call' = [call EXCEPT ![c] = x]
  BY DEF CoordinationInv, CoordinationKinds
<1> HIDE DEF x
<1>4. CallStands(v, x) /\ RowFollows(v, x) /\ x.at # "begin"
  BY <1>1, <1>2 DEF CallStands, RowFollows, Working
<1>5. CoordinationInv(v)'
  BY <1>2, <1>3, <1>4, CallPasses
<1> QED
  BY <1>5, ExecutionRests

\* What a call has once it has taken one more stage.
LEMMA StageReached ==
  ASSUME NEW v, NEW c, call[c].mine \in CoordinatedRow, NEW outcome \in Ends3
  PROVE  /\ Coordination(v)!Reached(c, outcome) \in CoordinatedRow
         /\ Coordination(v)!Reached(c, outcome).status = call[c].mine.status
         /\ Coordination(v)!Reached(c, outcome).by = call[c].mine.by
         /\ Len(Coordination(v)!Reached(c, outcome).history) = Len(call[c].mine.history) + 1
         /\ Len(call[c].mine.history) \in Nat
         /\ Unfailed(call[c].mine.history) /\ outcome # "failed" =>
              Unfailed(Coordination(v)!Reached(c, outcome).history)
<1> DEFINE mine == call[c].mine
           longer == Append(mine.history, outcome)
           r == [mine EXCEPT !.history = longer]
<1>1. r = Coordination(v)!Reached(c, outcome)
  BY DEF Coordination!Reached
<1>2. mine.history \in Seq(Ends3) /\ Len(mine.history) \in Nat
      /\ DOMAIN mine.history = 1..Len(mine.history)
  BY LenProperties DEF CoordinatedRow
<1>3. /\ longer \in Seq(Ends3) /\ Len(longer) = Len(mine.history) + 1
      /\ \A i \in 1..Len(mine.history) : longer[i] = mine.history[i]
      /\ longer[Len(mine.history) + 1] = outcome
      /\ DOMAIN longer = 1..(Len(mine.history) + 1)
  <2>1. \A s \in Seq(Ends3), x \in Ends3 :
          /\ Append(s, x) \in Seq(Ends3) /\ Len(Append(s, x)) = Len(s) + 1
          /\ \A i \in 1..Len(s) : Append(s, x)[i] = s[i]
          /\ Append(s, x)[Len(s) + 1] = x
    BY AppendProperties
  <2>2. DOMAIN longer = 1..Len(longer)
    BY <1>2, <2>1, LenProperties
  <2> QED
    BY <1>2, <2>1, <2>2
<1> HIDE DEF longer
<1>4. r \in CoordinatedRow /\ r.status = mine.status /\ r.by = mine.by /\ r.history = longer
  BY <1>3 DEF CoordinatedRow
<1>5. Unfailed(mine.history) /\ outcome # "failed" => Unfailed(longer)
  <2>1. \A i \in 1..(Len(mine.history) + 1) :
          i \in 1..Len(mine.history) \/ i = Len(mine.history) + 1
    BY <1>2
  <2> HIDE DEF mine
  <2> QED
    BY <1>2, <1>3, <2>1 DEF Unfailed
<1> HIDE DEF r
<1> QED
  BY <1>1, <1>2, <1>3, <1>4, <1>5

\* What is known of a call.
LEMMA CallKnown ==
  ASSUME NEW v, CoordinationAssumed(v), CoordinationInv(v), NEW c \in v.callers
  PROVE  /\ call[c] \in CoordinatedCall /\ call[c].mine \in CoordinatedRow
         /\ CallStands(v, call[c]) /\ ExecutionStands(v, call[c].mine) /\ RowFollows(v, call[c])
         /\ Len(v.stages) \in Nat /\ call[c].number \in 0..MaxCalls
BY CoordinationNumbers DEF CoordinationInv, CoordinationKinds, CoordinatedCall, CallStands

\* A save that is not made is an error like any other.
LEMMA CallBegins ==
  ASSUME NEW v, CoordinationAssumed(v), CoordinationInv(v), NEW c \in v.callers,
         Coordination(v)!Begin(c)
  PROVE  CoordinationInv(v)' /\ CoordinationActs(v)
<1> DEFINE n == call[c].number
           record == [Coordination(v)!NoRow EXCEPT !.status = "coordinating", !.by = n]
           x == [status |-> "coordinating", version |-> 0, by |-> n, history |-> <<>>]
<1>0. /\ call[c].at = "begin" /\ n # 0 /\ n \in 0..MaxCalls /\ Len(v.stages) \in Nat
      /\ UNCHANGED <<fresh, calls, recoveries, moves, removed>>
  BY CallKnown DEF Coordination!Begin, Coordination!Bounds, CallStands
<1>1. \/ Coordination(v)!Store(c, record, "stage") \/ Coordination(v)!StoreUnheard(c, record, "threw")
      \/ row' = row /\ call' = [call EXCEPT ![c].at = "threw"]
  BY DEF Coordination!Begin, Coordination!At
<1>2. record = x
  <2> DEFINE z == [Coordination(v)!NoRow EXCEPT !.status = "coordinating"]
  <2>1. /\ z = [status |-> "coordinating", version |-> 0, by |-> 0, history |-> <<>>]
        /\ record = [z EXCEPT !.by = n]
    BY DEF Coordination!NoRow
  <2> HIDE DEF z, record, n
  <2> QED
    BY <2>1
<1>3. /\ x.status = "coordinating" /\ x.by = n /\ x.history = <<>> /\ Len(x.history) = 0
      /\ x \in CoordinatedRow /\ ExecutionStands(v, x) /\ Unfailed(x.history)
  <2>1. <<>> \in Seq(Ends3) /\ Len(<<>>) = 0 /\ DOMAIN <<>> = {}
    OBVIOUS
  <2>2. x.status = "coordinating" /\ x.by = n /\ x.history = <<>>
    OBVIOUS
  <2>3. x \in CoordinatedRow
    BY <1>0, <2>1 DEF CoordinatedRow
  <2> QED
    BY <1>0, <2>1, <2>2, <2>3 DEF ExecutionStands, Unfailed
<1> HIDE DEF record, x
<1>4. GoesOnFrom(v, "stage", x)
  <2>1. Len(v.stages) # 0
    BY DEF CoordinationAssumed, Coordination!CoordinatorAssumption
  <2> QED
    BY <1>0, <1>3, <2>1 DEF GoesOnFrom
<1>5. CASE \/ Coordination(v)!Store(c, x, "stage") \/ Coordination(v)!StoreUnheard(c, x, "threw")
  <2>1. x.by = call[c].number /\ x.status # "none"
    BY <1>3 DEF n
  <2> QED
    BY <1>0, <1>3, <1>4, <1>5, <2>1, CallStores
<1>6. CASE row' = row /\ call' = [call EXCEPT ![c].at = "threw"]
  BY <1>0, <1>6, CallLeaves
<1> QED
  BY <1>1, <1>2, <1>5, <1>6

\* The call may save: nobody has saved since it did.
LEMMA MaySave ==
  ASSUME NEW v, CoordinationAssumed(v), CoordinationInv(v), NEW c \in v.callers,
         call[c].at \in Working, Coordination(v)!CanSave(call[c].mine.version)
  PROVE  row.status # "none" /\ row.version = call[c].mine.version
BY CallKnown DEF Coordination!CanSave, CallStands

LEMMA CallTakesStage ==
  ASSUME NEW v, CoordinationAssumed(v), CoordinationInv(v), NEW c \in v.callers,
         Coordination(v)!Stage(c)
  PROVE  CoordinationInv(v)' /\ CoordinationActs(v)
<1>0. /\ call[c].at = "stage" /\ call[c].at \in Working
      /\ UNCHANGED <<fresh, calls, recoveries, moves, removed>>
      /\ call[c].mine \in CoordinatedRow /\ CallStands(v, call[c]) /\ Len(v.stages) \in Nat
  BY CallKnown DEF Coordination!Stage, Coordination!Bounds, Working
<1>1. CASE row' = row /\ call' = [call EXCEPT ![c].at = "failing"]
  BY <1>0, <1>1, CallLeaves
<1>2. ASSUME NEW outcome \in {"completed", "partial"},
             Coordination(v)!CanSave(call[c].mine.version),
             \/ Coordination(v)!Store(c, Coordination(v)!Reached(c, outcome),
                   IF Coordination(v)!Position(c) = Len(v.stages) THEN "finish" ELSE "stage")
             \/ Coordination(v)!StoreUnheard(c, Coordination(v)!Reached(c, outcome), "failing")
      PROVE  CoordinationInv(v)' /\ CoordinationActs(v)
  <2> DEFINE r == Coordination(v)!Reached(c, outcome)
             at == IF Coordination(v)!Position(c) = Len(v.stages) THEN "finish" ELSE "stage"
  <2>1. outcome \in Ends3 /\ outcome # "failed"
    BY DEF Ends3
  <2>2. /\ r \in CoordinatedRow /\ r.status = call[c].mine.status /\ r.by = call[c].mine.by
        /\ Len(r.history) = Len(call[c].mine.history) + 1 /\ Len(call[c].mine.history) \in Nat
        /\ Unfailed(call[c].mine.history) => Unfailed(r.history)
    BY <1>0, <2>1, StageReached
  <2>3. /\ call[c].mine.status = "coordinating" /\ call[c].mine.by = call[c].number
        /\ Len(call[c].mine.history) < Len(v.stages) /\ Unfailed(call[c].mine.history)
        /\ call[c].mine.by # 0
    BY <1>0 DEF CallStands, ExecutionStands
  <2>4. at \in {"stage", "finish"} /\ (at = "finish" <=> Len(call[c].mine.history) + 1 = Len(v.stages))
    BY DEF Coordination!Position
  <2>5. Coordination(v)!Store(c, r, at) \/ Coordination(v)!StoreUnheard(c, r, "failing")
    BY <1>2
  <2> HIDE DEF r, at
  <2>6. ExecutionStands(v, r) /\ GoesOnFrom(v, at, r)
    BY <1>0, <2>2, <2>3, <2>4 DEF ExecutionStands, GoesOnFrom
  <2>7. row.status # "none" /\ row.version = call[c].mine.version
    BY <1>0, <1>2, MaySave
  <2>8. r.status # "none" /\ r.by = call[c].number
    BY <2>2, <2>3
  <2> QED
    BY <1>0, <2>2, <2>5, <2>6, <2>7, <2>8, CallStores
<1> QED
  BY <1>1, <1>2, Zenon DEF Coordination!Stage, Coordination!At

LEMMA CallFinishes ==
  ASSUME NEW v, CoordinationAssumed(v), CoordinationInv(v), NEW c \in v.callers,
         Coordination(v)!Finish(c)
  PROVE  CoordinationInv(v)' /\ CoordinationActs(v)
<1> DEFINE mine == call[c].mine
           ended == IF \E i \in DOMAIN mine.history : mine.history[i] = "partial"
                    THEN "partial" ELSE "completed"
           r == [mine EXCEPT !.status = ended]
<1>0. /\ call[c].at = "finish" /\ call[c].at \in Working
      /\ UNCHANGED <<fresh, calls, recoveries, moves, removed>>
      /\ mine \in CoordinatedRow /\ CallStands(v, call[c]) /\ ExecutionStands(v, mine)
  BY CallKnown DEF Coordination!Finish, Coordination!Bounds, Working
<1>1. \/ row' = row /\ call' = [call EXCEPT ![c].at = "failing"]
      \/ /\ Coordination(v)!CanSave(mine.version)
         /\ Coordination(v)!Store(c, r, "answered") \/ Coordination(v)!StoreUnheard(c, r, "failing")
  BY DEF Coordination!Finish, Coordination!At, Coordination!Final
<1>2. CASE row' = row /\ call' = [call EXCEPT ![c].at = "failing"]
  BY <1>0, <1>2, CallLeaves
<1>3. CASE /\ Coordination(v)!CanSave(mine.version)
           /\ Coordination(v)!Store(c, r, "answered") \/ Coordination(v)!StoreUnheard(c, r, "failing")
  <2>1. /\ mine.by = call[c].number /\ Len(mine.history) = Len(v.stages) /\ Unfailed(mine.history)
        /\ mine.status = "coordinating"
    BY <1>0 DEF CallStands
  <2>2. row.status # "none" /\ row.version = mine.version
    BY <1>0, <1>3, MaySave
  <2>3. /\ ended \in {"partial", "completed"}
        /\ ended = "completed" => \A i \in DOMAIN mine.history : mine.history[i] # "partial"
    OBVIOUS
  <2> HIDE DEF ended
  <2>4. /\ r \in CoordinatedRow /\ r.status = ended /\ r.by = mine.by /\ r.history = mine.history
    BY <1>0, <2>3 DEF CoordinatedRow
  <2>5. \A i \in DOMAIN mine.history : mine.history[i] \in Ends3
    <3>1. mine.history \in Seq(Ends3)
      BY <1>0 DEF CoordinatedRow
    <3> QED
      BY <3>1, ElementOfSeq, LenProperties
  <2> HIDE DEF r
  <2>6. ExecutionStands(v, r)
    BY <1>0, <2>1, <2>3, <2>4, <2>5 DEF ExecutionStands, Ends3, Unfailed
  <2>7. GoesOnFrom(v, "answered", r)
    BY DEF GoesOnFrom
  <2>8. r.status # "none" /\ r.by = call[c].number
    BY <2>1, <2>3, <2>4
  <2> QED
    BY <1>0, <1>3, <2>2, <2>4, <2>6, <2>7, <2>8, CallStores
<1> QED
  BY <1>1, <1>2, <1>3

LEMMA CallFails ==
  ASSUME NEW v, CoordinationAssumed(v), CoordinationInv(v), NEW c \in v.callers,
         Coordination(v)!Fail(c)
  PROVE  CoordinationInv(v)' /\ CoordinationActs(v)
<1> DEFINE mine == call[c].mine
           told_ == Coordination(v)!Reached(c, "failed")
           given == [mine EXCEPT !.status = "failed"]
<1>0. /\ call[c].at = "failing" /\ call[c].at \in Working
      /\ UNCHANGED <<fresh, calls, recoveries, moves, removed>>
      /\ mine \in CoordinatedRow /\ CallStands(v, call[c]) /\ ExecutionStands(v, mine)
      /\ mine.status = "coordinating" /\ mine.by = call[c].number /\ mine.by # 0
      /\ Len(v.stages) \in Nat
  BY CallKnown DEF Coordination!Fail, Coordination!Bounds, Working, CallStands, ExecutionStands
<1>1. /\ told_ \in CoordinatedRow /\ told_.status = "coordinating" /\ told_.by = call[c].number
      /\ Len(told_.history) = Len(mine.history) + 1 /\ Len(mine.history) \in Nat
  BY <1>0, StageReached DEF Ends3
<1>2. /\ given \in CoordinatedRow /\ given.status = "failed" /\ given.by = call[c].number
      /\ given.history = mine.history
  BY <1>0 DEF CoordinatedRow
<1>3. PICK record \in {told_, given} :
        /\ record = told_ => Coordination(v)!Position(c) <= Len(v.stages)
        /\ \/ row' = row /\ call' = [call EXCEPT ![c].at = "threw"]
           \/ /\ Coordination(v)!CanSave(mine.version)
              /\ \/ Coordination(v)!Store(c, record,
                       IF record.status = "failed" THEN "answered" ELSE "failing")
                 \/ Coordination(v)!StoreUnheard(c, record, "threw")
  <2>1. told_ # given
    BY <1>1, <1>2
  <2> DEFINE both == /\ Coordination(v)!FailsStage(c)
                     /\ ~(mine.history # <<>> /\ mine.history[Len(mine.history)] = "failed")
             record == IF both THEN told_ ELSE given
  <2>2. \/ row' = row /\ call' = [call EXCEPT ![c].at = "threw"]
        \/ /\ Coordination(v)!CanSave(mine.version)
           /\ \/ Coordination(v)!Store(c, record,
                    IF record.status = "failed" THEN "answered" ELSE "failing")
              \/ Coordination(v)!StoreUnheard(c, record, "threw")
    BY DEF Coordination!Fail, Coordination!At
  <2>3. record \in {told_, given} /\ (record = told_ => both)
    BY <2>1
  <2>4. both => Coordination(v)!Position(c) <= Len(v.stages)
    BY DEF Coordination!FailsStage
  <2> HIDE DEF record, both
  <2> QED
    BY <2>2, <2>3, <2>4
<1> HIDE DEF told_, given
<1>4. /\ record \in CoordinatedRow /\ record.status \in {"coordinating", "failed"}
      /\ record.by = call[c].number /\ record.by # 0
      /\ ExecutionStands(v, record)
  BY <1>0, <1>1, <1>2, <1>3 DEF ExecutionStands, Coordination!Position
<1> DEFINE at == IF record.status = "failed" THEN "answered" ELSE "failing"
<1>5. GoesOnFrom(v, at, record)
  BY <1>4 DEF GoesOnFrom
<1>6. CASE row' = row /\ call' = [call EXCEPT ![c].at = "threw"]
  BY <1>0, <1>6, CallLeaves
<1>7. CASE /\ Coordination(v)!CanSave(mine.version)
           /\ Coordination(v)!Store(c, record, at) \/ Coordination(v)!StoreUnheard(c, record, "threw")
  <2>1. row.status # "none" /\ row.version = mine.version
    BY <1>0, <1>7, MaySave
  <2> HIDE DEF at
  <2> QED
    BY <1>0, <1>4, <1>5, <1>7, <2>1, CallStores
<1> QED
  BY <1>3, <1>6, <1>7

\* A call that starts is given a number of its own, and knows at most what is stored.
LEMMA CallStarts ==
  ASSUME NEW v, CoordinationAssumed(v), CoordinationInv(v), NEW c \in v.callers,
         Coordination(v)!Coordinate(c)
  PROVE  CoordinationInv(v)' /\ CoordinationActs(v)
<1> DEFINE hit == row.status = "completed"
           n == calls + 1
           at == IF hit THEN "hit" ELSE "begin"
           mine == IF hit THEN row ELSE NoExecution
           x == [at |-> at, number |-> n, mine |-> mine]
<1>0. /\ call \in [v.callers -> CoordinatedCall] /\ calls \in 0..MaxCalls /\ calls < MaxCalls
      /\ row \in CoordinatedRow /\ ExecutionStands(v, row) /\ row.by <= calls /\ row.by \in Nat
      /\ MaxCalls \in Nat /\ calls \in Nat /\ row.version \in Nat
      /\ calls' = n /\ UNCHANGED <<row, fresh, recoveries, moves, removed>>
  BY CoordinationNumbers DEF CoordinationInv, CoordinationKinds, Coordination!Coordinate, CoordinatedRow
<1>1. call' = [call EXCEPT ![c] = x]
  <2> DEFINE y1 == [Coordination(v)!Idle EXCEPT !.at = at]
             y2 == [y1 EXCEPT !.number = n]
             y3 == [y2 EXCEPT !.mine = mine]
  <2>1. call' = [call EXCEPT ![c] = y3]
    BY DEF Coordination!Coordinate, Coordination!NoRow, NoExecution
  <2> HIDE DEF at, n, mine
  <2>2. y1 = [at |-> at, number |-> 0, mine |-> NoExecution]
    BY DEF Coordination!Idle, Coordination!NoRow, NoExecution
  <2> HIDE DEF y1
  <2>3. y2 = [at |-> at, number |-> n, mine |-> NoExecution]
    BY <2>2
  <2> HIDE DEF y2
  <2>4. y3 = x
    BY <2>3
  <2> HIDE DEF y3
  <2> QED
    BY <2>1, <2>4
<1>2. /\ NoExecution \in CoordinatedRow /\ ExecutionStands(v, NoExecution)
      /\ NoExecution.status = "none" /\ NoExecution.by = 0
  BY NothingExecuted
<1>3. /\ mine \in CoordinatedRow /\ ExecutionStands(v, mine) /\ at \in {"hit", "begin"}
      /\ at = "hit" => mine = row /\ row.status = "completed"
      /\ at = "begin" => mine.status = "none" /\ mine.by = 0 /\ row.status # "completed"
      /\ n \in 1..MaxCalls /\ n = calls + 1 /\ n \notin 0..calls
  BY <1>0, <1>2
<1> HIDE DEF n, at, mine
<1>4. /\ x \in CoordinatedCall /\ x.at = at /\ x.number = n /\ x.mine = mine
  BY <1>3 DEF CoordinatedCall
<1> HIDE DEF x
<1>5. /\ call' \in [v.callers -> CoordinatedCall]
      /\ \A d \in v.callers : call'[d] = IF d = c THEN x ELSE call[d]
  BY <1>0, <1>1, <1>4
<1>6. CallStands(v, x) /\ RowFollows(v, x)
  BY <1>0, <1>3, <1>4 DEF CallStands, RowFollows, Working
<1>7. CoordinationKinds(v)'
  BY <1>0, <1>3, <1>5 DEF CoordinationKinds, CoordinationInv
<1>8. \A d \in v.callers : CallStands(v, call'[d]) /\ RowFollows(v, call[d])'
  <2>1. \A d \in v.callers : CallStands(v, call'[d]) /\ RowFollows(v, call'[d])
    BY <1>5, <1>6 DEF CoordinationInv
  <2> QED
    BY <1>0, <2>1 DEF RowFollows
<1>9. CallsApart(v)'
  <2>1. \A d \in v.callers : /\ call[d].number \in 0..calls /\ call[d].mine.by \in 0..calls
    BY <1>0 DEF CoordinationInv, CallsApart, CoordinatedCall, CoordinatedRow
  <2>2. x.mine.by \in 0..calls
    BY <1>0, <1>3, <1>4
  <2>3. \A d \in v.callers : call'[d].number \in 0..n /\ call'[d].mine.by \in 0..calls
    BY <1>0, <1>3, <1>4, <1>5, <2>1, <2>2
  <2>4. ASSUME NEW d \in v.callers, NEW e \in v.callers
        PROVE  /\ d # e => call'[d].number = 0 \/ call'[d].number # call'[e].number
               /\ call'[d].at = "begin" => call'[e].mine.by # call'[d].number
    <3>1. CASE d = c
      BY <1>0, <1>3, <1>4, <1>5, <2>1, <2>3, <3>1
    <3>2. CASE d # c /\ e = c
      <4>1. /\ call'[d] = call[d] /\ call'[e].number = n /\ call[d].number # n
            /\ x.mine.by = 0 \/ x.mine.by = row.by
        BY <1>0, <1>3, <1>4, <1>5, <2>1, <3>2
      <4>2. call[d].at = "begin" => call[d].number # 0 /\ row.by # call[d].number
        BY DEF CoordinationInv, CallStands, RowFollows
      <4> QED
        BY <1>5, <3>2, <4>1, <4>2
    <3>3. CASE d # c /\ e # c
      BY <1>5, <3>3 DEF CoordinationInv, CallsApart
    <3> QED
      BY <3>1, <3>2, <3>3
  <2> QED
    BY <1>0, <1>3, <2>3, <2>4 DEF CallsApart
<1>10. CoordinationInv(v)'
  BY <1>7, <1>8, <1>9 DEF CoordinationInv
<1> QED
  BY <1>0, <1>10, ExecutionRests

\* A starting backend gives the execution up; its version stays what it is.
LEMMA CoordinationRecovers ==
  ASSUME NEW v, CoordinationAssumed(v), CoordinationInv(v), Coordination(v)!Recover
  PROVE  CoordinationInv(v)' /\ CoordinationActs(v)
<1>0. /\ UNCHANGED <<fresh, call, calls, moves, removed>> /\ row.status # "none"
      /\ row \in CoordinatedRow /\ ExecutionStands(v, row) /\ MaxRecoveries \in Nat
      /\ recoveries' \in 0..MaxRecoveries
  BY CoordinationNumbers DEF Coordination!Recover, CoordinationInv, CoordinationKinds
<1>1. PICK over \in {"failed", "stale"} :
        \/ row' = row
        \/ row' = [row EXCEPT !.status = over] /\ (row.status = "completed" => ~fresh)
  BY DEF Coordination!Recover, Coordination!Recoverable
<1>2. /\ row' \in CoordinatedRow /\ row'.version = row.version /\ row'.by = row.by
      /\ row'.history = row.history /\ row'.status \in {row.status, "failed", "stale"}
      /\ row.status = "completed" /\ fresh => row'.status = "completed"
  BY <1>0, <1>1 DEF CoordinatedRow
<1>3. ExecutionStands(v, row')
  BY <1>0, <1>2 DEF ExecutionStands
<1>4. CoordinationKinds(v)'
  BY <1>0, <1>2, <1>3 DEF CoordinationKinds, CoordinationInv
<1>5. \A d \in v.callers : RowFollows(v, call[d])'
  BY <1>0, <1>2 DEF CoordinationInv, RowFollows
<1>6. \A d \in v.callers : CallStands(v, call[d])'
  BY <1>0 DEF CoordinationInv, CallStands, ExecutionStands
<1>7. CallsApart(v)'
  BY <1>0 DEF CoordinationInv, CallsApart
<1>8. CoordinationActs(v)
  BY <1>2 DEF CoordinationActs, Coordination!TakenOverAtStart, Coordination!StaysCompleted
<1> QED
  BY <1>4, <1>5, <1>6, <1>7, <1>8 DEF CoordinationInv

LEMMA CoordinationCollects ==
  ASSUME NEW v, CoordinationAssumed(v), CoordinationInv(v), Coordination(v)!Collect
  PROVE  CoordinationInv(v)' /\ CoordinationActs(v)
<1>0. /\ UNCHANGED <<fresh, call, calls, recoveries, moves>> /\ row' = NoExecution
      /\ row.status # "completed" /\ v.collections # 0
      /\ v.collections \in Nat /\ removed' \in 0..v.collections /\ calls \in Nat
  BY CoordinationNumbers DEF Coordination!Collect, Coordination!Collectable, Coordination!NoRow,
     NoExecution, CoordinationInv, CoordinationKinds
<1>1. /\ NoExecution \in CoordinatedRow /\ ExecutionStands(v, NoExecution)
      /\ NoExecution.status = "none" /\ NoExecution.by = 0
  BY NothingExecuted
<1>2. CoordinationKinds(v)'
  BY <1>0, <1>1 DEF CoordinationKinds, CoordinationInv
<1>3. \A d \in v.callers : RowFollows(v, call[d])'
  BY <1>0, <1>1 DEF CoordinationInv, CallStands, ExecutionStands, RowFollows
<1>4. \A d \in v.callers : CallStands(v, call[d])'
  BY <1>0 DEF CoordinationInv, CallStands, ExecutionStands
<1>5. CallsApart(v)'
  BY <1>0 DEF CoordinationInv, CallsApart
<1>6. CoordinationActs(v)
  BY <1>0, <1>1 DEF CoordinationActs, Coordination!TakenOverAtStart, Coordination!StaysCompleted
<1> QED
  BY <1>2, <1>3, <1>4, <1>5, <1>6 DEF CoordinationInv

LEMMA CoordinationMoves ==
  ASSUME NEW v, CoordinationAssumed(v), CoordinationInv(v), Coordination(v)!Move
  PROVE  CoordinationInv(v)' /\ CoordinationActs(v)
<1>0. /\ UNCHANGED <<row, call, calls, recoveries, removed>> /\ fresh' \in BOOLEAN
      /\ moves' \in 0..v.moves
  BY CoordinationNumbers DEF Coordination!Move, CoordinationInv, CoordinationKinds
<1>1. CoordinationInv(v)'
  BY <1>0 DEF CoordinationInv, CoordinationKinds, CallStands, ExecutionStands, RowFollows, CallsApart
<1> QED
  BY <1>0, <1>1, ExecutionRests

LEMMA CoordinationStep ==
  ASSUME NEW v, CoordinationAssumed(v), CoordinationInv(v), Coordination(v)!Next
  PROVE  CoordinationInv(v)' /\ CoordinationActs(v)
<1>1. ASSUME NEW c \in v.callers, Coordination(v)!Hit(c) \/ Coordination(v)!Crash(c)
      PROVE  CoordinationInv(v)' /\ CoordinationActs(v)
  <2>1. /\ UNCHANGED <<row, fresh, calls, recoveries, moves, removed>>
        /\ \/ call' = [call EXCEPT ![c].at = "threw"]
           \/ call[c].at = "hit" /\ call' = [call EXCEPT ![c].at = "answered"]
    BY <1>1 DEF Coordination!Hit, Coordination!Crash, Coordination!At, Coordination!Bounds
  <2>2. CASE call' = [call EXCEPT ![c].at = "threw"]
    BY <2>1, <2>2, CallLeaves
  <2>3. CASE call[c].at = "hit" /\ call' = [call EXCEPT ![c].at = "answered"]
    BY <2>1, <2>3, CallLeaves
  <2> QED
    BY <2>1, <2>2, <2>3
<1>2. ASSUME NEW c \in v.callers,
             \/ Coordination(v)!Coordinate(c) \/ Coordination(v)!Begin(c) \/ Coordination(v)!Stage(c)
             \/ Coordination(v)!Finish(c) \/ Coordination(v)!Fail(c)
      PROVE  CoordinationInv(v)' /\ CoordinationActs(v)
  BY <1>2, CallStarts, CallBegins, CallTakesStage, CallFinishes, CallFails
<1> QED
  BY <1>1, <1>2, CoordinationRecovers, CoordinationCollects, CoordinationMoves, Zenon
     DEF Coordination!Next

-----------------------------------------------------------------------------
(* Induction over the natural numbers, for a set of them.                   *)

\* A set of natural numbers that is not empty has a least element.
LEMMA LeastNatural ==
  ASSUME NEW T, T \subseteq Nat, T # {}
  PROVE  \E x \in T : \A y \in T : ~(y < x)
<1>1. IsWellFoundedOn(OpToRel(<, Nat), Nat)
  BY NatLessThanWellFounded
<1>2. \E x \in T : \A y \in T : ~(<<y, x>> \in OpToRel(<, Nat))
  BY <1>1, WFMin
<1> QED
  BY <1>2, Zenon DEF OpToRel

\* A set with 0 and the successor of every natural number in it holds them all.
LEMMA AllNaturals ==
  ASSUME NEW S, 0 \in S, \A n \in Nat : n \in S => n + 1 \in S
  PROVE  Nat \subseteq S
<1> DEFINE T == Nat \ S
<1>1. SUFFICES ASSUME T # {} PROVE FALSE
  OBVIOUS
<1>2. PICK x \in T : \A y \in T : ~(y < x)
  BY <1>1, LeastNatural
<1>3. x # 0 /\ x - 1 \in Nat /\ x - 1 < x
  BY <1>2
<1>4. x - 1 \in S
  BY <1>2, <1>3
<1> QED
  BY <1>2, <1>3, <1>4

-----------------------------------------------------------------------------
(* The cache of retrieved results.                                          *)

\* The entries that are left of a beginning of the cache.
Leaves(left, n, seq, keys) ==
  \A m \in 0..n :
    left[m] = IF m = 0 THEN <<>>
              ELSE IF seq[m].key \in keys THEN left[m - 1] ELSE Append(left[m - 1], seq[m])

LEMMA LeavesSome ==
  ASSUME NEW seq, NEW keys, NEW n \in Nat
  PROVE  \E left : left = [m \in 0..n |-> left[m]] /\ Leaves(left, n, seq, keys)
<1> DEFINE S == {n1 \in Nat :
                   \E left : left = [m \in 0..n1 |-> left[m]] /\ Leaves(left, n1, seq, keys)}
<1>1. 0 \in S
  <2> DEFINE left == [m \in 0..0 |-> <<>>]
  <2>1. left = [m \in 0..0 |-> left[m]] /\ Leaves(left, 0, seq, keys)
    BY DEF Leaves
  <2> QED
    BY <2>1
<1>2. ASSUME NEW n1 \in Nat, n1 \in S PROVE n1 + 1 \in S
  <2>1. PICK left : left = [m \in 0..n1 |-> left[m]] /\ Leaves(left, n1, seq, keys)
    BY <1>2
  <2> DEFINE last == IF seq[n1 + 1].key \in keys THEN left[n1] ELSE Append(left[n1], seq[n1 + 1])
             more == [m \in 0..n1 + 1 |-> IF m = n1 + 1 THEN last ELSE left[m]]
  <2>2. more[n1 + 1] = last /\ \A m \in 0..n1 : more[m] = left[m]
    OBVIOUS
  <2>3. more = [m \in 0..n1 + 1 |-> more[m]]
    OBVIOUS
  <2> HIDE DEF more
  <2>4. ASSUME NEW m \in 0..n1 + 1
        PROVE  more[m] = IF m = 0 THEN <<>>
                         ELSE IF seq[m].key \in keys THEN more[m - 1] ELSE Append(more[m - 1], seq[m])
    <3>1. CASE m = n1 + 1
      <4>1. m # 0 /\ m - 1 = n1 /\ n1 \in 0..n1
        BY <3>1
      <4> QED
        BY <2>2, <3>1, <4>1
    <3>2. CASE m = 0
      BY <2>1, <2>2, <3>2 DEF Leaves
    <3>3. CASE m # 0 /\ m # n1 + 1
      <4>1. m \in 0..n1 /\ m - 1 \in 0..n1
        BY <3>3
      <4>2. more[m] = left[m] /\ more[m - 1] = left[m - 1]
        BY <2>2, <4>1
      <4>3. left[m] = IF m = 0 THEN <<>>
                      ELSE IF seq[m].key \in keys THEN left[m - 1] ELSE Append(left[m - 1], seq[m])
        BY <2>1, <4>1 DEF Leaves
      <4> QED
        BY <4>2, <4>3
    <3> QED
      BY <3>1, <3>2, <3>3
  <2>5. Leaves(more, n1 + 1, seq, keys)
    BY <2>4 DEF Leaves
  <2> QED
    BY <2>3, <2>5
<1> HIDE DEF S
<1>3. Nat \subseteq S
  BY <1>1, <1>2, AllNaturals
<1> QED
  BY <1>3 DEF S

LEMMA WithoutLeaves ==
  ASSUME NEW seq, NEW keys, Len(seq) \in Nat
  PROVE  \E left : Leaves(left, Len(seq), seq, keys) /\ Cached!Without(seq, keys) = left[Len(seq)]
<1> DEFINE rest == CHOOSE left :
             left = [n \in 0..Len(seq) |->
                       IF n = 0 THEN <<>>
                       ELSE IF seq[n].key \in keys THEN left[n - 1] ELSE Append(left[n - 1], seq[n])]
<1>1. PICK some : some = [m \in 0..Len(seq) |-> some[m]] /\ Leaves(some, Len(seq), seq, keys)
  BY LeavesSome
<1>2. some = [n \in 0..Len(seq) |->
                IF n = 0 THEN <<>>
                ELSE IF seq[n].key \in keys THEN some[n - 1] ELSE Append(some[n - 1], seq[n])]
  BY <1>1 DEF Leaves
<1>3. rest = [n \in 0..Len(seq) |->
                IF n = 0 THEN <<>>
                ELSE IF seq[n].key \in keys THEN rest[n - 1] ELSE Append(rest[n - 1], seq[n])]
  BY <1>2, Zenon
<1>4. Cached!Without(seq, keys) = rest[Len(seq)]
  BY DEF Cached!Without
<1> HIDE DEF rest
<1>5. Leaves(rest, Len(seq), seq, keys)
  BY <1>3 DEF Leaves
<1> QED
  BY <1>4, <1>5

\* Some of the entries are left, all of the other keys, and fewer than there
\* were if one has such a key.
LEMMA WithoutIs ==
  ASSUME NEW E, NEW seq \in Seq(E), NEW keys
  PROVE  /\ Cached!Without(seq, keys) \in Seq(E)
         /\ Len(Cached!Without(seq, keys)) <= Len(seq)
         /\ (\E i \in 1..Len(seq) : seq[i].key \in keys)
              => Len(Cached!Without(seq, keys)) < Len(seq)
         /\ \A i \in 1..Len(Cached!Without(seq, keys)) :
              \E j \in 1..Len(seq) : Cached!Without(seq, keys)[i] = seq[j] /\ seq[j].key \notin keys
<1>1. Len(seq) \in Nat /\ \A i \in 1..Len(seq) : seq[i] \in E
  BY LenProperties
<1>2. PICK left : Leaves(left, Len(seq), seq, keys) /\ Cached!Without(seq, keys) = left[Len(seq)]
  BY <1>1, WithoutLeaves
<1> DEFINE Good(n) ==
      /\ left[n] \in Seq(E) /\ Len(left[n]) <= n
      /\ (\E i \in 1..n : seq[i].key \in keys) => Len(left[n]) < n
      /\ \A i \in 1..Len(left[n]) :
           \E j \in 1..n : left[n][i] = seq[j] /\ seq[j].key \notin keys
    S == {n \in Nat : n <= Len(seq) => Good(n)}
<1>3. 0 \in S
  <2>1. left[0] = <<>>
    BY <1>1, <1>2 DEF Leaves
  <2>2. Good(0)
    BY <2>1
  <2> QED
    BY <2>2
<1>4. ASSUME NEW n \in Nat, n \in S PROVE n + 1 \in S
  <2> SUFFICES ASSUME n + 1 <= Len(seq) PROVE Good(n + 1)
    OBVIOUS
  <2>1. Good(n)
    BY <1>1, <1>4
  <2>2. left[n + 1] = IF seq[n + 1].key \in keys THEN left[n] ELSE Append(left[n], seq[n + 1])
    <3>1. n + 1 \in 0..Len(seq) /\ n + 1 # 0 /\ (n + 1) - 1 = n
      BY <1>1
    <3> QED
      BY <1>2, <3>1 DEF Leaves
  <2>3. seq[n + 1] \in E /\ n + 1 \in 1..n + 1 /\ 1..n \subseteq 1..n + 1
    BY <1>1
  <2>4. CASE seq[n + 1].key \in keys
    <3>1. left[n + 1] = left[n] /\ Len(left[n]) \in Nat
      BY <2>1, <2>2, <2>4, LenProperties
    <3> QED
      BY <2>1, <2>3, <3>1
  <2>5. CASE seq[n + 1].key \notin keys
    <3>1. left[n + 1] = Append(left[n], seq[n + 1]) /\ left[n] \in Seq(E) /\ Len(left[n]) \in Nat
      BY <2>1, <2>2, <2>5, LenProperties
    <3>2. /\ left[n + 1] \in Seq(E) /\ Len(left[n + 1]) = Len(left[n]) + 1
          /\ left[n + 1][Len(left[n]) + 1] = seq[n + 1]
          /\ \A i \in 1..Len(left[n]) : left[n + 1][i] = left[n][i]
      BY <2>3, <3>1, AppendProperties
    <3>3. ASSUME NEW i \in 1..n + 1, seq[i].key \in keys PROVE Len(left[n + 1]) < n + 1
      <4>1. i \in 1..n
        BY <2>5, <3>3
      <4> QED
        BY <2>1, <3>1, <3>2, <3>3, <4>1
    <3>4. ASSUME NEW i \in 1..Len(left[n + 1])
          PROVE  \E j \in 1..n + 1 : left[n + 1][i] = seq[j] /\ seq[j].key \notin keys
      <4>1. CASE i = Len(left[n]) + 1
        BY <2>3, <2>5, <3>2, <4>1
      <4>2. CASE i # Len(left[n]) + 1
        <5>1. i \in 1..Len(left[n])
          BY <3>1, <3>2, <4>2
        <5> QED
          BY <2>1, <2>3, <3>2, <5>1
      <4> QED
        BY <4>1, <4>2
    <3>5. Len(left[n + 1]) <= n + 1
      BY <2>1, <3>1, <3>2
    <3> QED
      BY <3>2, <3>3, <3>4, <3>5
  <2> QED
    BY <2>4, <2>5
<1> HIDE DEF S
<1>5. Nat \subseteq S
  BY <1>3, <1>4, AllNaturals
<1>6. Good(Len(seq))
  BY <1>1, <1>5 DEF S
<1> QED
  BY <1>2, <1>6

\* What is cached is of the revisions in "seen"; and a load that has not been
\* told to stop is the one that requests for its key join, one that is not stale
\* is of the revision that was seen last, and who waits waits for one load.
EntriesFit(ents, seen) ==
  /\ ents \in Seq(Cached!Entry) /\ Len(ents) <= MaxEntries
  /\ \A i \in 1..Len(ents) : ents[i].key[2] = seen[ents[i].key[1]] /\ ~ents[i].stale

LoadsFit(flight, lds, seen) ==
  /\ flight \in [Cached!Keys -> Seconds \cup {None}]
  /\ lds \in [Seconds -> Cached!Load]
  /\ \A l \in Seconds : lds[l].key # None =>
       /\ ~lds[l].aborted => flight[lds[l].key] = l
       /\ ~lds[l].stale /\ lds[l].key[2] # None => seen[lds[l].key[1]] = lds[l].key[2]
       /\ lds[l].waiters = {} => lds[l].aborted
  /\ \A k \in Cached!Keys : flight[k] # None => lds[flight[k]].key = k

WaitersFit(lds, reqs) ==
  /\ reqs \in [Requests -> Cached!Request]
  /\ \A q \in Requests :
       /\ reqs[q].at # "idle" => reqs[q].repo \in Repositories
       /\ reqs[q].at = "waiting" => \E l \in Seconds : q \in lds[l].waiters
  /\ \A l \in Seconds : \A q \in lds[l].waiters :
       /\ lds[l].key # None /\ reqs[q].at = "waiting"
       /\ \A m \in Seconds : q \in lds[m].waiters => l = m

CacheInv ==
  /\ current \in [Repositories -> Revisions \cup {None}]
  /\ known \in [Repositories -> Revisions \cup {None}]
  /\ EntriesFit(entries, known)
  /\ LoadsFit(inFlight, loads, known)
  /\ WaitersFit(loads, requests)

LEMMA CacheAssumed ==
  /\ MaxEntries \in Nat /\ MaxEntries >= 1
  /\ None \notin Revisions /\ None \notin Seconds /\ None \notin Repositories
  /\ None \notin Cached!Keys
BY RecordsAssumption DEF Cached!EntriesAssumption, Cached!NoneAssumption

LEMMA CacheBegins == Cached!Init => CacheInv
<1> SUFFICES ASSUME Cached!Init PROVE CacheInv
  OBVIOUS
<1>1. /\ current = [p \in Repositories |-> None] /\ known = [p \in Repositories |-> None]
      /\ entries = <<>> /\ inFlight = [k \in Cached!Keys |-> None]
      /\ loads = [l \in Seconds |-> Cached!NoLoad] /\ requests = [q \in Requests |-> Cached!Idle]
  BY DEF Cached!Init
<1>2. /\ Cached!NoLoad \in Cached!Load /\ Cached!NoLoad.key = None /\ Cached!NoLoad.waiters = {}
      /\ Cached!Idle \in Cached!Request /\ Cached!Idle.at = "idle"
  BY DEF Cached!NoLoad, Cached!Load, Cached!Idle, Cached!Request
<1>3. EntriesFit(entries, known)
  BY <1>1, CacheAssumed DEF EntriesFit
<1>4. LoadsFit(inFlight, loads, known)
  BY <1>1, <1>2 DEF LoadsFit
<1>5. WaitersFit(loads, requests)
  BY <1>1, <1>2 DEF WaitersFit
<1> QED
  BY <1>1, <1>3, <1>4, <1>5 DEF CacheInv

LEMMA CacheSays ==
  CacheInv => /\ Cached!TypeOK /\ Cached!OneRevisionCached /\ Cached!NothingSurvivesInvalidation
              /\ Cached!SingleFlight /\ Cached!NoUnwantedWork /\ Cached!WaitersAreServed
<1> SUFFICES ASSUME CacheInv
             PROVE  /\ Cached!TypeOK /\ Cached!OneRevisionCached /\ Cached!NothingSurvivesInvalidation
                    /\ Cached!SingleFlight /\ Cached!NoUnwantedWork /\ Cached!WaitersAreServed
  OBVIOUS
<1>1. Cached!TypeOK
  BY DEF CacheInv, EntriesFit, LoadsFit, WaitersFit, Cached!TypeOK
<1>2. Cached!OneRevisionCached /\ Cached!NothingSurvivesInvalidation
  <2>1. entries \in Seq(Cached!Entry)
    BY DEF CacheInv, EntriesFit
  <2>2. Cached!ToSet(entries) = {entries[i] : i \in 1..Len(entries)}
    BY <2>1, LenProperties DEF Cached!ToSet
  <2> QED
    BY <2>2 DEF CacheInv, EntriesFit, Cached!OneRevisionCached, Cached!NothingSurvivesInvalidation
<1>3. Cached!SingleFlight
  BY DEF CacheInv, LoadsFit, Cached!SingleFlight, Cached!Running
<1>4. Cached!NoUnwantedWork
  BY DEF CacheInv, LoadsFit, Cached!NoUnwantedWork, Cached!Running
<1>5. Cached!WaitersAreServed
  <2> SUFFICES ASSUME NEW q \in Requests, requests[q].at = "waiting"
               PROVE  Cardinality({l \in Seconds : Cached!Running(l) /\ q \in loads[l].waiters}) = 1
    BY DEF Cached!WaitersAreServed, Cached!Cardinality, Cardinality
  <2>1. PICK l \in Seconds : q \in loads[l].waiters
    BY DEF CacheInv, WaitersFit
  <2>2. {m \in Seconds : Cached!Running(m) /\ q \in loads[m].waiters} = {l}
    BY <2>1 DEF CacheInv, WaitersFit, Cached!Running
  <2> QED
    BY <2>2, FS_Singleton
<1> QED
  BY <1>1, <1>2, <1>3, <1>4, <1>5

\* Entries that are taken away leave entries that fit, and another one fits
\* where there was one of its key, or where there is room.
LEMMA FewerFit ==
  ASSUME NEW ents, NEW seen, NEW keys, EntriesFit(ents, seen)
  PROVE  /\ EntriesFit(Cached!Without(ents, keys), seen)
         /\ \A i \in 1..Len(Cached!Without(ents, keys)) :
              Cached!Without(ents, keys)[i].key \notin keys
<1> DEFINE less == Cached!Without(ents, keys)
<1>1. /\ ents \in Seq(Cached!Entry) /\ Len(ents) <= MaxEntries /\ Len(ents) \in Nat
      /\ \A i \in 1..Len(ents) : ents[i].key[2] = seen[ents[i].key[1]] /\ ~ents[i].stale
  BY LenProperties DEF EntriesFit
<1>2. /\ less \in Seq(Cached!Entry) /\ Len(less) <= Len(ents)
      /\ \A i \in 1..Len(less) : \E j \in 1..Len(ents) : less[i] = ents[j] /\ ents[j].key \notin keys
  BY <1>1, WithoutIs
<1>3. Len(less) \in Nat
  BY <1>2, LenProperties
<1> HIDE DEF less
<1>4. EntriesFit(less, seen) /\ \A i \in 1..Len(less) : less[i].key \notin keys
  BY <1>1, <1>2, <1>3, CacheAssumed DEF EntriesFit
<1> QED
  BY <1>4 DEF less

\* What a change of a repository's revision leaves.
LEMMA InvalidatesFit ==
  ASSUME CacheInv, NEW repo \in Repositories,
         NEW seen \in [Repositories -> Revisions \cup {None}],
         \A p \in Repositories : p # repo => seen[p] = known[p]
  PROVE  /\ EntriesFit(Cached!EntriesWithout(repo), seen)
         /\ LoadsFit(Cached!InFlightWithout(repo), Cached!LoadsWithout(repo), seen)
         /\ WaitersFit(Cached!LoadsWithout(repo), requests)
<1> DEFINE less == Cached!EntriesWithout(repo)
           flight == Cached!InFlightWithout(repo)
           lds == Cached!LoadsWithout(repo)
<1>1. /\ EntriesFit(entries, known) /\ LoadsFit(inFlight, loads, known)
      /\ WaitersFit(loads, requests)
  BY DEF CacheInv
<1>2. EntriesFit(less, seen)
  <2>1. EntriesFit(less, known)
        /\ \A i \in 1..Len(less) : less[i].key \notin {k \in Cached!Keys : k[1] = repo}
    BY <1>1, FewerFit DEF Cached!EntriesWithout
  <2>2. \A i \in 1..Len(less) : less[i] \in Cached!Entry
    BY <2>1, LenProperties DEF EntriesFit
  <2> HIDE DEF less
  <2>3. ASSUME NEW i \in 1..Len(less) PROVE seen[less[i].key[1]] = known[less[i].key[1]]
    <3>1. less[i].key \in Cached!Keys /\ less[i].key[1] \in Repositories
      BY <2>2 DEF Cached!Entry, Cached!Keys
    <3> QED
      BY <2>1, <3>1
  <2> QED
    BY <2>1, <2>3 DEF EntriesFit
<1>3. /\ inFlight \in [Cached!Keys -> Seconds \cup {None}] /\ loads \in [Seconds -> Cached!Load]
      /\ flight \in [Cached!Keys -> Seconds \cup {None}]
      /\ \A k \in Cached!Keys : flight[k] = IF k[1] = repo THEN None ELSE inFlight[k]
  BY <1>1 DEF LoadsFit, Cached!InFlightWithout
<1>4. ASSUME NEW l \in Seconds
      PROVE  /\ lds[l] \in Cached!Load /\ lds[l].key = loads[l].key
             /\ lds[l].waiters = loads[l].waiters
             /\ loads[l].aborted => lds[l].aborted
             /\ loads[l].stale => lds[l].stale
             /\ lds[l].key # None => lds[l].key \in Cached!Keys /\ lds[l].key[1] \in Repositories
             /\ lds[l].key # None /\ lds[l].key[1] = repo =>
                  lds[l].stale /\ (inFlight[lds[l].key] = l => lds[l].aborted)
  <2>1. loads[l] \in Cached!Load
    BY <1>3
  <2>2. loads[l].key # None => loads[l].key \in Cached!Keys /\ loads[l].key[1] \in Repositories
    BY <2>1 DEF Cached!Load, Cached!Keys
  <2>3. CASE ~Cached!Running(l) \/ loads[l].key[1] # repo
    <3>1. lds[l] = loads[l]
      BY <2>3 DEF Cached!LoadsWithout
    <3> QED
      BY <2>1, <2>2, <2>3, <3>1 DEF Cached!Running
  <2>4. CASE ~(~Cached!Running(l) \/ loads[l].key[1] # repo)
    <3> DEFINE told1 == loads[l].aborted \/ inFlight[loads[l].key] = l
    <3>1. told1 \in BOOLEAN
      BY <2>1 DEF Cached!Load
    <3>2. lds[l] = [loads[l] EXCEPT !.stale = TRUE, !.aborted = told1]
      BY <2>4 DEF Cached!LoadsWithout
    <3>3. (loads[l].aborted => told1) /\ (inFlight[loads[l].key] = l => told1)
      OBVIOUS
    <3> HIDE DEF told1
    <3>4. /\ lds[l] \in Cached!Load /\ lds[l].key = loads[l].key
          /\ lds[l].waiters = loads[l].waiters /\ lds[l].stale /\ lds[l].aborted = told1
      BY <2>1, <3>1, <3>2 DEF Cached!Load
    <3> QED
      BY <2>2, <3>3, <3>4
  <2> QED
    BY <2>3, <2>4
<1>5. lds \in [Seconds -> Cached!Load]
  BY <1>4 DEF Cached!LoadsWithout
<1> HIDE DEF less, flight, lds
<1>6. LoadsFit(flight, lds, seen)
  <2>1. ASSUME NEW l \in Seconds, lds[l].key # None
        PROVE  /\ ~lds[l].aborted => flight[lds[l].key] = l
               /\ ~lds[l].stale /\ lds[l].key[2] # None => seen[lds[l].key[1]] = lds[l].key[2]
               /\ lds[l].waiters = {} => lds[l].aborted
    BY <1>1, <1>3, <1>4, <2>1 DEF LoadsFit
  <2>2. ASSUME NEW k \in Cached!Keys, flight[k] # None PROVE lds[flight[k]].key = k
    BY <1>1, <1>3, <1>4, <2>2 DEF LoadsFit
  <2> QED
    BY <1>3, <1>5, <2>1, <2>2 DEF LoadsFit
<1>7. WaitersFit(lds, requests)
  BY <1>1, <1>4 DEF WaitersFit
<1> QED
  BY <1>2, <1>6, <1>7 DEF less, flight, lds

\* The cache as a request with the answer about the revision finds it.
LEMMA ObservesFit ==
  ASSUME CacheInv, NEW q \in Requests, requests[q].at = "answered", Cached!Observe(q)
  PROVE  /\ known' \in [Repositories -> Revisions \cup {None}]
         /\ EntriesFit(Cached!AfterObserving(q).entries, known')
         /\ LoadsFit(Cached!AfterObserving(q).inFlight, Cached!AfterObserving(q).loads, known')
         /\ WaitersFit(Cached!AfterObserving(q).loads, requests)
         /\ Cached!KeyOf(q) \in Cached!Keys
         /\ Cached!KeyOf(q)[1] = requests[q].repo /\ Cached!KeyOf(q)[2] = requests[q].revision
         /\ requests[q].revision # None => known'[requests[q].repo] = requests[q].revision
<1>1. /\ EntriesFit(entries, known) /\ LoadsFit(inFlight, loads, known)
      /\ WaitersFit(loads, requests) /\ known \in [Repositories -> Revisions \cup {None}]
      /\ entries \in Seq(Cached!Entry) /\ inFlight \in [Cached!Keys -> Seconds \cup {None}]
      /\ loads \in [Seconds -> Cached!Load]
  BY DEF CacheInv, EntriesFit, LoadsFit
<1>2. /\ requests[q].repo \in Repositories /\ requests[q].revision \in Revisions \cup {None}
      /\ Cached!KeyOf(q) \in Cached!Keys
      /\ Cached!KeyOf(q)[1] = requests[q].repo /\ Cached!KeyOf(q)[2] = requests[q].revision
  BY <1>1 DEF WaitersFit, Cached!KeyOf, Cached!Request, Cached!Keys
<1>3. /\ known' \in [Repositories -> Revisions \cup {None}]
      /\ \A p \in Repositories : p # requests[q].repo => known'[p] = known[p]
      /\ requests[q].revision # None => known'[requests[q].repo] = requests[q].revision
      /\ requests[q].revision = None => known' = known
  BY <1>1, <1>2 DEF Cached!Observe
<1>4. CASE Cached!Changed(q)
  <2>1. /\ Cached!AfterObserving(q).entries = Cached!EntriesWithout(requests[q].repo)
        /\ Cached!AfterObserving(q).inFlight = Cached!InFlightWithout(requests[q].repo)
        /\ Cached!AfterObserving(q).loads = Cached!LoadsWithout(requests[q].repo)
    BY <1>4 DEF Cached!AfterObserving
  <2>2. /\ EntriesFit(Cached!EntriesWithout(requests[q].repo), known')
        /\ LoadsFit(Cached!InFlightWithout(requests[q].repo),
                    Cached!LoadsWithout(requests[q].repo), known')
        /\ WaitersFit(Cached!LoadsWithout(requests[q].repo), requests)
    BY <1>2, <1>3, InvalidatesFit
  <2> QED
    BY <1>2, <1>3, <2>1, <2>2
<1>5. CASE ~Cached!Changed(q)
  <2>1. /\ Cached!AfterObserving(q).entries = entries
        /\ Cached!AfterObserving(q).inFlight = inFlight
        /\ Cached!AfterObserving(q).loads = loads
    BY <1>5 DEF Cached!AfterObserving
  <2>2. \A p \in Repositories : known[p] # None => known'[p] = known[p]
    BY <1>2, <1>3, <1>5 DEF Cached!Changed
  <2>3. EntriesFit(entries, known')
    <3>1. \A i \in 1..Len(entries) : entries[i] \in Cached!Entry
      BY <1>1, LenProperties
    <3>2. \A i \in 1..Len(entries) : known'[entries[i].key[1]] = known[entries[i].key[1]]
      <4> TAKE i \in 1..Len(entries)
      <4>1. entries[i].key[1] \in Repositories /\ entries[i].key[2] \in Revisions
            /\ entries[i].key[2] = known[entries[i].key[1]]
        BY <1>1, <3>1 DEF EntriesFit, Cached!Entry
      <4> QED
        BY <2>2, <4>1, CacheAssumed
    <3> QED
      BY <1>1, <3>2 DEF EntriesFit
  <2>4. LoadsFit(inFlight, loads, known')
    <3>1. ASSUME NEW l \in Seconds, loads[l].key # None, ~loads[l].stale, loads[l].key[2] # None
          PROVE  known'[loads[l].key[1]] = loads[l].key[2]
      <4>1. loads[l].key[1] \in Repositories /\ known[loads[l].key[1]] = loads[l].key[2]
        BY <1>1, <3>1 DEF LoadsFit, Cached!Load, Cached!Keys
      <4> QED
        BY <2>2, <3>1, <4>1
    <3> QED
      BY <1>1, <3>1 DEF LoadsFit
  <2> QED
    BY <1>1, <1>2, <1>3, <2>1, <2>3, <2>4
<1> QED
  BY <1>4, <1>5

LEMMA OneMoreFits ==
  ASSUME NEW ents, NEW seen, EntriesFit(ents, seen), NEW e \in Cached!Entry,
         e.key[2] = seen[e.key[1]], ~e.stale
  PROVE  /\ Len(ents) < MaxEntries => EntriesFit(Append(ents, e), seen)
         /\ Len(Append(ents, e)) > MaxEntries => EntriesFit(Tail(Append(ents, e)), seen)
         /\ Len(Append(ents, e)) <= MaxEntries => EntriesFit(Append(ents, e), seen)
<1> DEFINE all == Append(ents, e)
<1>1. /\ ents \in Seq(Cached!Entry) /\ Len(ents) <= MaxEntries /\ Len(ents) \in Nat
      /\ \A i \in 1..Len(ents) : ents[i].key[2] = seen[ents[i].key[1]] /\ ~ents[i].stale
  BY LenProperties DEF EntriesFit
<1>2. /\ all \in Seq(Cached!Entry) /\ Len(all) = Len(ents) + 1 /\ all[Len(ents) + 1] = e
      /\ \A i \in 1..Len(ents) : all[i] = ents[i]
  BY <1>1, AppendProperties
<1> HIDE DEF all
<1>3. \A i \in 1..Len(all) : all[i].key[2] = seen[all[i].key[1]] /\ ~all[i].stale
  <2> TAKE i \in 1..Len(all)
  <2>1. CASE i = Len(ents) + 1
    BY <1>2, <2>1
  <2>2. CASE i # Len(ents) + 1
    <3>1. i \in 1..Len(ents)
      BY <1>1, <1>2, <2>2
    <3> QED
      BY <1>1, <1>2, <3>1
  <2> QED
    BY <2>1, <2>2
<1>4. /\ Tail(all) \in Seq(Cached!Entry) /\ Len(Tail(all)) = Len(all) - 1
      /\ \A i \in 1..Len(Tail(all)) : Tail(all)[i] = all[i + 1]
  <2>1. all # <<>>
    BY <1>1, <1>2
  <2> QED
    BY <1>2, <2>1, HeadTailProperties
<1>5. Len(all) <= MaxEntries => EntriesFit(all, seen)
  BY <1>2, <1>3 DEF EntriesFit
<1>6. EntriesFit(Tail(all), seen)
  <2>1. Len(Tail(all)) <= MaxEntries
    BY <1>1, <1>2, <1>4, CacheAssumed
  <2>2. \A i \in 1..Len(Tail(all)) : i + 1 \in 1..Len(all)
    BY <1>1, <1>2, <1>4
  <2> QED
    BY <1>3, <1>4, <2>1, <2>2 DEF EntriesFit
<1>7. Len(ents) < MaxEntries => Len(all) <= MaxEntries
  BY <1>1, <1>2, CacheAssumed
<1> QED
  BY <1>5, <1>6, <1>7 DEF all

\* A request that waits for no load becomes one that does not wait, or stays so.
LEMMA RequestFits ==
  ASSUME NEW lds, NEW q \in Requests, WaitersFit(lds, requests), requests[q].at # "waiting",
         lds \in [Seconds -> Cached!Load],
         NEW r \in Cached!Request, r.at # "waiting", r.at # "idle" => r.repo \in Repositories
  PROVE  WaitersFit(lds, [requests EXCEPT ![q] = r])
<1>1. requests \in [Requests -> Cached!Request]
  BY DEF WaitersFit
<1>2. [requests EXCEPT ![q] = r] \in [Requests -> Cached!Request]
  BY <1>1
<1>3. \A l \in Seconds : q \notin lds[l].waiters /\ lds[l].waiters \subseteq Requests
  BY DEF WaitersFit, Cached!Load
<1> QED
  BY <1>1, <1>2, <1>3 DEF WaitersFit

LEMMA CacheHit == ASSUME CacheInv, NEW q \in Requests, Cached!Hit(q) PROVE CacheInv'
<1> DEFINE cache == Cached!AfterObserving(q)
           nkey == Cached!KeyOf(q)
           less == Cached!Without(cache.entries, {nkey})
<1>1. /\ requests[q].at = "answered" /\ requests[q].revision # None /\ Cached!Observe(q)
      /\ \E e \in Cached!Cached(cache, nkey) : entries' = Append(less, e)
      /\ inFlight' = cache.inFlight /\ loads' = cache.loads
      /\ requests' = [requests EXCEPT ![q] = Cached!Idle] /\ current' = current
  BY DEF Cached!Hit, Cached!EntriesBut
<1>2. /\ known' \in [Repositories -> Revisions \cup {None}]
      /\ EntriesFit(cache.entries, known') /\ LoadsFit(cache.inFlight, cache.loads, known')
      /\ WaitersFit(cache.loads, requests)
  BY <1>1, ObservesFit
<1>3. EntriesFit(entries', known')
  <2>1. PICK e \in Cached!Cached(cache, nkey) : entries' = Append(less, e)
    BY <1>1
  <2>2. cache.entries \in Seq(Cached!Entry) /\ Len(cache.entries) <= MaxEntries
        /\ Len(cache.entries) \in Nat
    BY <1>2, LenProperties DEF EntriesFit
  <2>3. PICK i \in 1..Len(cache.entries) : e = cache.entries[i] /\ e.key = nkey
    BY <2>2, LenProperties DEF Cached!Cached, Cached!ToSet
  <2>4. e \in Cached!Entry /\ e.key[2] = known'[e.key[1]] /\ ~e.stale
    BY <1>2, <2>2, <2>3, LenProperties DEF EntriesFit
  <2>5. Len(less) < Len(cache.entries)
    BY <2>2, <2>3, WithoutIs
  <2>6. EntriesFit(less, known')
    BY <1>2, FewerFit
  <2>7. Len(less) < MaxEntries
    <3>1. Len(less) \in Nat
      BY <2>6, LenProperties DEF EntriesFit
    <3> HIDE DEF less, cache
    <3> QED
      BY <2>2, <2>5, <3>1, CacheAssumed
  <2> HIDE DEF less, cache
  <2> QED
    BY <2>1, <2>4, <2>6, <2>7, OneMoreFits
<1>4. WaitersFit(loads', requests')
  <2>1. Cached!Idle \in Cached!Request /\ Cached!Idle.at = "idle"
    BY DEF Cached!Idle, Cached!Request
  <2>2. cache.loads \in [Seconds -> Cached!Load]
    BY <1>2 DEF LoadsFit
  <2> HIDE DEF cache
  <2> QED
    BY <1>1, <1>2, <2>1, <2>2, RequestFits
<1> QED
  BY <1>1, <1>2, <1>3, <1>4 DEF CacheInv

\* A request waits for a load: one that it joins, or that it begins.
LEMMA WaitsFit ==
  ASSUME NEW flight, NEW lds, NEW seen, NEW q \in Requests, requests[q].at = "answered",
         LoadsFit(flight, lds, seen), WaitersFit(lds, requests),
         Cached!KeyOf(q) \in Cached!Keys,
         NEW l \in Seconds, NEW load \in Cached!Load, NEW flight2,
         load.key # None, load.waiters = lds[l].waiters \cup {q},
         load.key = Cached!KeyOf(q),
         ~load.aborted => flight2[Cached!KeyOf(q)] = l,
         ~load.stale /\ load.key[2] # None => seen[load.key[1]] = load.key[2],
         lds[l].key # None => lds[l].key = load.key,
         \/ flight2 = flight
         \/ flight2 = [flight EXCEPT ![Cached!KeyOf(q)] = l] /\ flight[Cached!KeyOf(q)] = None,
         flight2[Cached!KeyOf(q)] # None => flight2[Cached!KeyOf(q)] = l
  PROVE  /\ LoadsFit(flight2, [lds EXCEPT ![l] = load], seen)
         /\ Cached!Waits(q) => WaitersFit([lds EXCEPT ![l] = load], requests')
<1>1. /\ flight \in [Cached!Keys -> Seconds \cup {None}] /\ lds \in [Seconds -> Cached!Load]
      /\ requests \in [Requests -> Cached!Request] /\ requests[q].repo \in Repositories
  BY DEF LoadsFit, WaitersFit
<1> DEFINE lds2 == [lds EXCEPT ![l] = load]
<1>2. /\ lds2 \in [Seconds -> Cached!Load] /\ lds2[l] = load
      /\ \A m \in Seconds : m # l => lds2[m] = lds[m]
  BY <1>1
<1>3. /\ flight2 \in [Cached!Keys -> Seconds \cup {None}]
      /\ \A k \in Cached!Keys : k # Cached!KeyOf(q) => flight2[k] = flight[k]
      /\ flight[Cached!KeyOf(q)] # None => flight2[Cached!KeyOf(q)] = flight[Cached!KeyOf(q)]
  BY <1>1
<1> HIDE DEF lds2
<1>4. LoadsFit(flight2, lds2, seen)
  <2>1. ASSUME NEW m \in Seconds, lds2[m].key # None
        PROVE  /\ ~lds2[m].aborted => flight2[lds2[m].key] = m
               /\ ~lds2[m].stale /\ lds2[m].key[2] # None => seen[lds2[m].key[1]] = lds2[m].key[2]
               /\ lds2[m].waiters = {} => lds2[m].aborted
    <3>1. CASE m = l
      BY <1>2, <3>1
    <3>2. CASE m # l
      <4>1. lds2[m] = lds[m] /\ lds[m].key \in Cached!Keys
        BY <1>1, <1>2, <2>1, <3>2 DEF Cached!Load
      <4>2. ~lds[m].aborted => flight[lds[m].key] = m /\ m # None
        BY <2>1, <4>1, CacheAssumed DEF LoadsFit
      <4> QED
        BY <1>3, <2>1, <4>1, <4>2 DEF LoadsFit
    <3> QED
      BY <3>1, <3>2
  <2>2. ASSUME NEW k \in Cached!Keys, flight2[k] # None PROVE lds2[flight2[k]].key = k
    <3>1. CASE k = Cached!KeyOf(q)
      BY <1>2, <2>2, <3>1
    <3>2. CASE k # Cached!KeyOf(q)
      <4>1. flight[k] = flight2[k] /\ flight[k] \in Seconds /\ lds[flight[k]].key = k
        BY <1>1, <1>3, <2>2, <3>2 DEF LoadsFit
      <4>2. flight[k] # l
        BY <3>2, <4>1, CacheAssumed
      <4> QED
        BY <1>2, <4>1, <4>2
    <3> QED
      BY <3>1, <3>2
  <2> QED
    BY <1>2, <1>3, <2>1, <2>2 DEF LoadsFit
<1>5. ASSUME Cached!Waits(q) PROVE WaitersFit(lds2, requests')
  <2>1. requests' = [requests EXCEPT ![q] = [requests[q] EXCEPT !.at = "waiting"]]
    BY <1>5 DEF Cached!Waits
  <2>2. /\ requests' \in [Requests -> Cached!Request] /\ requests'[q].at = "waiting"
        /\ requests'[q].repo \in Repositories
        /\ \A p \in Requests : p # q => requests'[p] = requests[p]
    BY <1>1, <2>1 DEF Cached!Request
  <2>3. \A m \in Seconds : q \notin lds[m].waiters /\ lds[m].waiters \subseteq Requests
    BY <1>1 DEF WaitersFit, Cached!Load
  <2>4. /\ \A m \in Seconds, p \in Requests : p # q => (p \in lds2[m].waiters <=> p \in lds[m].waiters)
        /\ \A m \in Seconds : q \in lds2[m].waiters <=> m = l
        /\ \A m \in Seconds : lds2[m].waiters \subseteq Requests
        /\ \A m \in Seconds : lds[m].key # None => lds2[m].key # None
    BY <1>2, <2>3
  <2>5. ASSUME NEW p \in Requests
        PROVE  /\ requests'[p].at # "idle" => requests'[p].repo \in Repositories
               /\ requests'[p].at = "waiting" => \E m \in Seconds : p \in lds2[m].waiters
    BY <2>2, <2>4 DEF WaitersFit
  <2>6. ASSUME NEW m \in Seconds, NEW p \in lds2[m].waiters
        PROVE  /\ lds2[m].key # None /\ requests'[p].at = "waiting"
               /\ \A n \in Seconds : p \in lds2[n].waiters => m = n
    <3>1. CASE p = q
      BY <1>2, <2>2, <2>4, <3>1
    <3>2. CASE p # q
      BY <2>2, <2>4, <3>2 DEF WaitersFit
    <3> QED
      BY <3>1, <3>2
  <2> QED
    BY <2>2, <2>5, <2>6 DEF WaitersFit
<1> QED
  BY <1>4, <1>5 DEF lds2

LEMMA CacheJoin == ASSUME CacheInv, NEW q \in Requests, Cached!Join(q) PROVE CacheInv'
<1> DEFINE cache == Cached!AfterObserving(q)
           nkey == Cached!KeyOf(q)
           l == cache.inFlight[nkey]
           load == [cache.loads[l] EXCEPT !.waiters = cache.loads[l].waiters \cup {q}]
<1>1. /\ requests[q].at = "answered" /\ l # None /\ Cached!Observe(q)
      /\ entries' = Cached!Without(cache.entries, {nkey})
      /\ inFlight' = cache.inFlight /\ loads' = [cache.loads EXCEPT ![l] = load]
      /\ Cached!Waits(q) /\ current' = current
  BY DEF Cached!Join, Cached!EntriesBut
<1>2. /\ known' \in [Repositories -> Revisions \cup {None}]
      /\ EntriesFit(cache.entries, known') /\ LoadsFit(cache.inFlight, cache.loads, known')
      /\ WaitersFit(cache.loads, requests) /\ nkey \in Cached!Keys
  BY <1>1, ObservesFit
<1>3. EntriesFit(entries', known')
  BY <1>1, <1>2, FewerFit
<1>4. /\ l \in Seconds /\ cache.loads[l] \in Cached!Load /\ cache.loads[l].key = nkey
      /\ ~cache.loads[l].stale /\ nkey[2] # None => known'[nkey[1]] = nkey[2]
  <2>1. l \in Seconds /\ cache.loads \in [Seconds -> Cached!Load] /\ cache.loads[l].key = nkey
    BY <1>1, <1>2 DEF LoadsFit
  <2> HIDE DEF cache, nkey, l
  <2> QED
    BY <1>2, <2>1, CacheAssumed DEF LoadsFit
<1>5. /\ load \in Cached!Load /\ load.key = nkey /\ load.waiters = cache.loads[l].waiters \cup {q}
      /\ load.stale = cache.loads[l].stale
  <2> HIDE DEF cache, nkey, l
  <2> QED
    BY <1>4 DEF Cached!Load
<1> HIDE DEF load
<1>6. /\ LoadsFit(cache.inFlight, [cache.loads EXCEPT ![l] = load], known')
      /\ WaitersFit([cache.loads EXCEPT ![l] = load], requests')
  <2>1. /\ load.key # None /\ (~load.aborted => cache.inFlight[nkey] = l)
        /\ (~load.stale /\ load.key[2] # None => known'[load.key[1]] = load.key[2])
        /\ (cache.loads[l].key # None => cache.loads[l].key = load.key)
        /\ (cache.inFlight[nkey] # None => cache.inFlight[nkey] = l)
    BY <1>2, <1>4, <1>5, CacheAssumed
  <2> HIDE DEF cache, l
  <2> QED
    BY <1>1, <1>2, <1>4, <1>5, <2>1, WaitsFit
<1> QED
  BY <1>1, <1>2, <1>3, <1>6 DEF CacheInv

LEMMA CacheBeginLoad ==
  ASSUME CacheInv, NEW q \in Requests, NEW l \in Seconds, Cached!BeginLoad(q, l)
  PROVE  CacheInv'
<1> DEFINE cache == Cached!AfterObserving(q)
           nkey == Cached!KeyOf(q)
           load == [key |-> nkey, aborted |-> FALSE, stale |-> FALSE, waiters |-> {q}]
<1>1. /\ requests[q].at = "answered" /\ cache.inFlight[nkey] = None /\ ~Cached!Running(l)
      /\ Cached!Observe(q) /\ entries' = Cached!Without(cache.entries, {nkey})
      /\ inFlight' = [cache.inFlight EXCEPT ![nkey] = l]
      /\ loads' = [cache.loads EXCEPT ![l] = load]
      /\ Cached!Waits(q) /\ current' = current
  BY DEF Cached!BeginLoad, Cached!EntriesBut
<1>2. /\ known' \in [Repositories -> Revisions \cup {None}]
      /\ EntriesFit(cache.entries, known') /\ LoadsFit(cache.inFlight, cache.loads, known')
      /\ WaitersFit(cache.loads, requests) /\ nkey \in Cached!Keys
      /\ nkey[1] = requests[q].repo /\ nkey[2] = requests[q].revision
      /\ requests[q].revision # None => known'[requests[q].repo] = requests[q].revision
  BY <1>1, ObservesFit
<1>3. EntriesFit(entries', known')
  BY <1>1, <1>2, FewerFit
<1>4. cache.loads[l].key = None
  <2>1. loads[l].key = None
    BY <1>1 DEF Cached!Running
  <2>2. CASE Cached!Changed(q)
    <3>1. cache.loads = Cached!LoadsWithout(requests[q].repo)
      BY <2>2 DEF Cached!AfterObserving
    <3>2. cache.loads[l] = loads[l]
      BY <1>1, <3>1 DEF Cached!LoadsWithout
    <3> QED
      BY <2>1, <3>2
  <2>3. CASE ~Cached!Changed(q)
    <3>1. cache.loads = loads
      BY <2>3 DEF Cached!AfterObserving
    <3> QED
      BY <2>1, <3>1
  <2> QED
    BY <2>2, <2>3
<1>5. cache.loads[l].waiters = {}
  BY <1>2, <1>4 DEF WaitersFit
<1>6. load \in Cached!Load /\ load.key = nkey /\ load.waiters = {q} /\ nkey # None
  BY <1>2, CacheAssumed DEF Cached!Load
<1>7. /\ LoadsFit([cache.inFlight EXCEPT ![nkey] = l], [cache.loads EXCEPT ![l] = load], known')
      /\ WaitersFit([cache.loads EXCEPT ![l] = load], requests')
  <2> DEFINE flight2 == [cache.inFlight EXCEPT ![nkey] = l]
  <2>1. flight2[nkey] = l
    BY <1>2 DEF LoadsFit
  <2>2. /\ load.key # None /\ load.waiters = cache.loads[l].waiters \cup {q}
        /\ load.key = nkey /\ nkey \in Cached!Keys /\ (~load.aborted => flight2[nkey] = l)
        /\ (~load.stale /\ load.key[2] # None => known'[load.key[1]] = load.key[2])
        /\ (cache.loads[l].key # None => cache.loads[l].key = load.key)
        /\ flight2[nkey] = l
    BY <1>2, <1>4, <1>5, <1>6, <2>1
  <2>3. flight2 = [cache.inFlight EXCEPT ![nkey] = l] /\ cache.inFlight[nkey] = None
    BY <1>1
  <2>5. /\ LoadsFit(cache.inFlight, cache.loads, known') /\ WaitersFit(cache.loads, requests)
        /\ load \in Cached!Load /\ Cached!Waits(q)
    BY <1>1, <1>2, <1>6
  <2> HIDE DEF cache, load, flight2
  <2>4. /\ LoadsFit(flight2, [cache.loads EXCEPT ![l] = load], known')
        /\ WaitersFit([cache.loads EXCEPT ![l] = load], requests')
    <3> DEFINE lds == cache.loads
               flight == cache.inFlight
    <3>1. /\ LoadsFit(flight, lds, known') /\ WaitersFit(lds, requests) /\ nkey \in Cached!Keys
          /\ load \in Cached!Load /\ Cached!Waits(q) /\ requests[q].at = "answered"
          /\ load.key # None /\ load.waiters = lds[l].waiters \cup {q} /\ load.key = nkey
          /\ (~load.aborted => flight2[nkey] = l)
          /\ (~load.stale /\ load.key[2] # None => known'[load.key[1]] = load.key[2])
          /\ (lds[l].key # None => lds[l].key = load.key)
          /\ flight2 = [flight EXCEPT ![nkey] = l] /\ flight[nkey] = None
          /\ (flight2[nkey] # None => flight2[nkey] = l)
      BY <1>1, <2>2, <2>3, <2>5
    <3> HIDE DEF lds, flight
    <3>2. LoadsFit(flight2, [lds EXCEPT ![l] = load], known')
      BY <3>1, WaitsFit
    <3>3. WaitersFit([lds EXCEPT ![l] = load], requests')
      BY <3>1, WaitsFit
    <3> QED
      BY <3>2, <3>3 DEF lds
  <2> QED
    BY <2>4 DEF flight2
<1> QED
  BY <1>1, <1>2, <1>3, <1>7 DEF CacheInv

LEMMA CacheSettle ==
  ASSUME CacheInv, NEW l \in Seconds, NEW succeeds \in BOOLEAN, Cached!Settle(l, succeeds)
  PROVE  CacheInv'
<1>1. /\ EntriesFit(entries, known) /\ LoadsFit(inFlight, loads, known)
      /\ WaitersFit(loads, requests) /\ known \in [Repositories -> Revisions \cup {None}]
      /\ inFlight \in [Cached!Keys -> Seconds \cup {None}] /\ loads \in [Seconds -> Cached!Load]
      /\ requests \in [Requests -> Cached!Request]
  BY DEF CacheInv, LoadsFit, WaitersFit
<1>2. /\ Cached!Running(l) /\ loads[l].key \in Cached!Keys /\ loads[l] \in Cached!Load
      /\ inFlight' = IF inFlight[loads[l].key] = l
                     THEN [inFlight EXCEPT ![loads[l].key] = None] ELSE inFlight
      /\ loads' = [loads EXCEPT ![l] = Cached!NoLoad]
      /\ requests' = [q \in Requests |-> IF q \in loads[l].waiters THEN Cached!Idle ELSE requests[q]]
      /\ current' = current /\ known' = known
  BY <1>1 DEF Cached!Settle, Cached!Running, Cached!Load
<1>3. EntriesFit(entries', known)
  <2>1. CASE ~(succeeds /\ Cached!MayPut(l))
    BY <1>1, <2>1 DEF Cached!Settle
  <2>2. CASE succeeds /\ Cached!MayPut(l)
    <3> DEFINE e == [key |-> loads[l].key, stale |-> loads[l].stale]
               less == Cached!Without(entries, {loads[l].key})
    <3>1. entries' = IF Len(Append(less, e)) > MaxEntries THEN Tail(Append(less, e))
                     ELSE Append(less, e)
      BY <2>2 DEF Cached!Settle, Cached!Put
    <3>2. e \in Cached!Entry /\ ~e.stale /\ e.key[2] = known[e.key[1]]
      <4>1. ~loads[l].stale /\ loads[l].key[2] # None
        BY <2>2 DEF Cached!MayPut
      <4>2. loads[l].stale \in BOOLEAN /\ loads[l].key \in Repositories \X Revisions
        BY <1>2, <4>1 DEF Cached!Load, Cached!Keys
      <4>3. known[loads[l].key[1]] = loads[l].key[2]
        BY <1>1, <1>2, <4>1 DEF LoadsFit, Cached!Running
      <4> QED
        BY <4>1, <4>2, <4>3 DEF Cached!Entry
    <3>3. EntriesFit(less, known)
      BY <1>1, FewerFit
    <3>4. Len(Append(less, e)) \in Nat
      <4>1. less \in Seq(Cached!Entry)
        BY <3>3 DEF EntriesFit
      <4> HIDE DEF less, e
      <4> QED
        BY <3>2, <4>1, AppendProperties, LenProperties
    <3> HIDE DEF less, e
    <3> QED
      BY <3>1, <3>2, <3>3, <3>4, OneMoreFits, CacheAssumed
  <2> QED
    BY <2>1, <2>2
<1>4. /\ Cached!NoLoad \in Cached!Load /\ Cached!NoLoad.key = None /\ Cached!NoLoad.waiters = {}
      /\ Cached!Idle \in Cached!Request /\ Cached!Idle.at = "idle"
  BY DEF Cached!NoLoad, Cached!Load, Cached!Idle, Cached!Request
<1>5. /\ loads' \in [Seconds -> Cached!Load] /\ loads'[l] = Cached!NoLoad
      /\ \A m \in Seconds : m # l => loads'[m] = loads[m]
  BY <1>1, <1>2, <1>4
<1>6. /\ inFlight' \in [Cached!Keys -> Seconds \cup {None}]
      /\ inFlight'[loads[l].key] # l
      /\ \A k \in Cached!Keys : inFlight[k] # l => inFlight'[k] = inFlight[k]
      /\ \A k \in Cached!Keys : inFlight'[k] # None => inFlight'[k] = inFlight[k]
  BY <1>1, <1>2, CacheAssumed
<1>7. LoadsFit(inFlight', loads', known)
  <2>1. ASSUME NEW m \in Seconds, loads'[m].key # None
        PROVE  /\ ~loads'[m].aborted => inFlight'[loads'[m].key] = m
               /\ ~loads'[m].stale /\ loads'[m].key[2] # None =>
                    known[loads'[m].key[1]] = loads'[m].key[2]
               /\ loads'[m].waiters = {} => loads'[m].aborted
    <3>1. m # l /\ loads'[m] = loads[m] /\ loads[m].key \in Cached!Keys
      BY <1>1, <1>4, <1>5, <2>1 DEF Cached!Load
    <3> QED
      BY <1>1, <1>6, <2>1, <3>1 DEF LoadsFit
  <2>2. ASSUME NEW k \in Cached!Keys, inFlight'[k] # None PROVE loads'[inFlight'[k]].key = k
    <3>1. inFlight'[k] = inFlight[k] /\ inFlight[k] \in Seconds /\ loads[inFlight[k]].key = k
      BY <1>1, <1>6, <2>2 DEF LoadsFit
    <3>2. inFlight[k] # l
      BY <1>6, <3>1
    <3> QED
      BY <1>5, <3>1, <3>2
  <2> QED
    BY <1>5, <1>6, <2>1, <2>2 DEF LoadsFit
<1>8. WaitersFit(loads', requests')
  <2>1. /\ requests' \in [Requests -> Cached!Request]
        /\ \A q \in Requests : requests'[q] =
             IF q \in loads[l].waiters THEN Cached!Idle ELSE requests[q]
    BY <1>1, <1>2, <1>4
  <2>2. ASSUME NEW q \in Requests
        PROVE  /\ requests'[q].at # "idle" => requests'[q].repo \in Repositories
               /\ requests'[q].at = "waiting" => \E m \in Seconds : q \in loads'[m].waiters
    <3>1. CASE q \in loads[l].waiters
      BY <1>4, <2>1, <3>1
    <3>2. CASE q \notin loads[l].waiters
      BY <1>1, <1>5, <2>1, <3>2 DEF WaitersFit
    <3> QED
      BY <3>1, <3>2
  <2>3. ASSUME NEW m \in Seconds, NEW q \in loads'[m].waiters
        PROVE  /\ loads'[m].key # None /\ requests'[q].at = "waiting"
               /\ \A n \in Seconds : q \in loads'[n].waiters => m = n
    <3>1. m # l /\ loads'[m] = loads[m] /\ q \in loads[m].waiters /\ q \in Requests
      BY <1>1, <1>4, <1>5, <2>3 DEF Cached!Load
    <3>2. q \notin loads[l].waiters
      BY <1>1, <3>1 DEF WaitersFit
    <3>3. \A n \in Seconds : q \in loads'[n].waiters => q \in loads[n].waiters
      BY <1>4, <1>5
    <3> QED
      BY <1>1, <2>1, <3>1, <3>2, <3>3 DEF WaitersFit
  <2> QED
    BY <2>1, <2>2, <2>3 DEF WaitersFit
<1> QED
  BY <1>1, <1>2, <1>3, <1>7, <1>8 DEF CacheInv

LEMMA CacheCancel == ASSUME CacheInv, NEW q \in Requests, Cached!Cancel(q) PROVE CacheInv'
<1>1. /\ EntriesFit(entries, known) /\ LoadsFit(inFlight, loads, known)
      /\ WaitersFit(loads, requests) /\ known \in [Repositories -> Revisions \cup {None}]
      /\ loads \in [Seconds -> Cached!Load] /\ requests \in [Requests -> Cached!Request]
  BY DEF CacheInv, LoadsFit, WaitersFit
<1>2. /\ requests' = [requests EXCEPT ![q] = Cached!Idle]
      /\ loads' = [l \in Seconds |->
           IF q \notin loads[l].waiters THEN loads[l]
           ELSE [loads[l] EXCEPT !.waiters = loads[l].waiters \ {q},
                                 !.aborted = loads[l].aborted \/ loads[l].waiters = {q}]]
      /\ current' = current /\ known' = known /\ entries' = entries /\ inFlight' = inFlight
  BY DEF Cached!Cancel
<1>3. Cached!Idle \in Cached!Request /\ Cached!Idle.at = "idle"
  BY DEF Cached!Idle, Cached!Request
<1>4. ASSUME NEW l \in Seconds
      PROVE  /\ loads'[l] \in Cached!Load /\ loads'[l].key = loads[l].key
             /\ loads'[l].stale = loads[l].stale /\ loads'[l].waiters = loads[l].waiters \ {q}
             /\ loads[l].aborted => loads'[l].aborted
             /\ loads'[l].waiters = {} => loads[l].waiters = {} \/ loads'[l].aborted
  <2>1. loads[l] \in Cached!Load
    BY <1>1
  <2>2. CASE q \notin loads[l].waiters
    BY <1>2, <2>1, <2>2
  <2>3. CASE q \in loads[l].waiters
    <3> DEFINE told1 == loads[l].aborted \/ loads[l].waiters = {q}
    <3>1. told1 \in BOOLEAN /\ loads'[l] = [loads[l] EXCEPT !.waiters = loads[l].waiters \ {q},
                                                             !.aborted = told1]
      BY <1>2, <2>1, <2>3 DEF Cached!Load
    <3>2. (loads[l].aborted => told1) /\ (loads[l].waiters \ {q} = {} => told1)
      BY <2>3
    <3> HIDE DEF told1
    <3>3. /\ loads'[l] \in Cached!Load /\ loads'[l].key = loads[l].key
          /\ loads'[l].stale = loads[l].stale /\ loads'[l].waiters = loads[l].waiters \ {q}
          /\ loads'[l].aborted = told1
      BY <2>1, <3>1 DEF Cached!Load
    <3> QED
      BY <3>2, <3>3
  <2> QED
    BY <2>2, <2>3
<1>5. loads' \in [Seconds -> Cached!Load]
  BY <1>2, <1>4
<1>6. LoadsFit(inFlight, loads', known)
  <2>1. ASSUME NEW l \in Seconds, loads'[l].key # None
        PROVE  /\ ~loads'[l].aborted => inFlight[loads'[l].key] = l
               /\ ~loads'[l].stale /\ loads'[l].key[2] # None =>
                    known[loads'[l].key[1]] = loads'[l].key[2]
               /\ loads'[l].waiters = {} => loads'[l].aborted
    BY <1>1, <1>4, <2>1 DEF LoadsFit
  <2>2. ASSUME NEW k \in Cached!Keys, inFlight[k] # None PROVE loads'[inFlight[k]].key = k
    BY <1>1, <1>4, <2>2 DEF LoadsFit
  <2> QED
    BY <1>1, <1>5, <2>1, <2>2 DEF LoadsFit
<1>7. WaitersFit(loads', requests')
  <2>1. /\ requests' \in [Requests -> Cached!Request] /\ requests'[q].at = "idle"
        /\ \A p \in Requests : p # q => requests'[p] = requests[p]
    BY <1>1, <1>2, <1>3
  <2>2. \A l \in Seconds : loads[l].waiters \subseteq Requests
    BY <1>1 DEF Cached!Load
  <2>3. ASSUME NEW p \in Requests
        PROVE  /\ requests'[p].at # "idle" => requests'[p].repo \in Repositories
               /\ requests'[p].at = "waiting" => \E m \in Seconds : p \in loads'[m].waiters
    <3>1. CASE p = q
      BY <2>1, <3>1
    <3>2. CASE p # q
      <4>1. \A m \in Seconds : p \in loads'[m].waiters <=> p \in loads[m].waiters
        BY <1>4, <3>2
      <4> QED
        BY <1>1, <2>1, <3>2, <4>1 DEF WaitersFit
    <3> QED
      BY <3>1, <3>2
  <2>4. ASSUME NEW m \in Seconds, NEW p \in loads'[m].waiters
        PROVE  /\ loads'[m].key # None /\ requests'[p].at = "waiting"
               /\ \A n \in Seconds : p \in loads'[n].waiters => m = n
    <3>1. p # q /\ p \in loads[m].waiters /\ p \in Requests
      BY <1>4, <2>2, <2>4
    <3>2. \A n \in Seconds : p \in loads'[n].waiters => p \in loads[n].waiters
      BY <1>4
    <3> QED
      BY <1>1, <1>4, <2>1, <3>1, <3>2 DEF WaitersFit
  <2> QED
    BY <2>1, <2>3, <2>4 DEF WaitersFit
<1> QED
  BY <1>1, <1>2, <1>6, <1>7 DEF CacheInv

LEMMA CacheStep == CacheInv /\ Cached!Next => CacheInv'
<1> SUFFICES ASSUME CacheInv, Cached!Next PROVE CacheInv'
  OBVIOUS
<1>0. /\ LoadsFit(inFlight, loads, known) /\ WaitersFit(loads, requests)
      /\ loads \in [Seconds -> Cached!Load] /\ requests \in [Requests -> Cached!Request]
      /\ known \in [Repositories -> Revisions \cup {None}]
      /\ current \in [Repositories -> Revisions \cup {None}]
  BY DEF CacheInv, LoadsFit, WaitersFit
<1>1. ASSUME NEW repo \in Repositories, Cached!Invalidate(repo) PROVE CacheInv'
  <2>1. /\ EntriesFit(Cached!EntriesWithout(repo), known)
        /\ LoadsFit(Cached!InFlightWithout(repo), Cached!LoadsWithout(repo), known)
        /\ WaitersFit(Cached!LoadsWithout(repo), requests)
    BY <1>0, InvalidatesFit
  <2> QED
    BY <1>0, <1>1, <2>1 DEF Cached!Invalidate, CacheInv
<1>2. ASSUME NEW repo \in Repositories, NEW rev \in Revisions \cup {None},
             Cached!ChangeRevision(repo, rev)
      PROVE  CacheInv'
  BY <1>2 DEF CacheInv, Cached!ChangeRevision
<1>3. ASSUME NEW repo \in Repositories, NEW q \in Requests, Cached!Ask(q, repo) PROVE CacheInv'
  <2> DEFINE r == [at |-> "asked", repo |-> repo, revision |-> None]
  <2>1. r \in Cached!Request /\ r.at = "asked" /\ r.repo \in Repositories
    BY DEF Cached!Request
  <2>2. requests' = [requests EXCEPT ![q] = r] /\ requests[q].at = "idle"
        /\ current' = current /\ known' = known /\ entries' = entries
        /\ inFlight' = inFlight /\ loads' = loads
    BY <1>3 DEF Cached!Ask
  <2> HIDE DEF r
  <2>3. WaitersFit(loads', requests')
    BY <1>0, <2>1, <2>2, RequestFits
  <2> QED
    BY <2>2, <2>3 DEF CacheInv
<1>4. ASSUME NEW q \in Requests, Cached!ReadRevision(q) PROVE CacheInv'
  <2>1. PICK rev \in {current[requests[q].repo], None} :
          requests' = [requests EXCEPT ![q].at = "answered", ![q].revision = rev]
    BY <1>4 DEF Cached!ReadRevision
  <2> DEFINE r == [requests[q] EXCEPT !.at = "answered", !.revision = rev]
  <2>2. requests[q].at = "asked" /\ requests[q].repo \in Repositories
    BY <1>0, <1>4 DEF Cached!ReadRevision, WaitersFit
  <2>3. r \in Cached!Request /\ r.at = "answered" /\ r.repo = requests[q].repo
    BY <1>0, <2>2 DEF Cached!Request
  <2>4. requests' = [requests EXCEPT ![q] = r]
        /\ current' = current /\ known' = known /\ entries' = entries
        /\ inFlight' = inFlight /\ loads' = loads
    BY <1>0, <1>4, <2>1 DEF Cached!ReadRevision
  <2> HIDE DEF r
  <2>5. WaitersFit(loads', requests')
    BY <1>0, <2>2, <2>3, <2>4, RequestFits
  <2> QED
    BY <2>4, <2>5 DEF CacheInv
<1> QED
  BY <1>1, <1>2, <1>3, <1>4, CacheHit, CacheJoin, CacheBeginLoad, CacheSettle, CacheCancel
  DEF Cached!Next

-----------------------------------------------------------------------------
(* The rate limiter.                                                        *)

Transaction ==
  [at: {"idle", "counting", "counted", "collecting"}, key: Seconds \union {None}, now: Nat,
   new: Limited!Row, expired: SUBSET Seconds, next: Seconds \union {None}, locked: SUBSET Seconds]

\* What a transaction is and has locked.
TransactionOK(r, transaction, counts, locks, upto) ==
  /\ transaction \in Transaction
  /\ transaction.now \in 0..upto
  /\ transaction.at # "idle" => transaction.key \in Seconds
  /\ transaction.at # "collecting" => transaction.expired = {} /\ transaction.locked = {}
  /\ transaction.expired # {} => transaction.next \in transaction.expired
  /\ transaction.key \notin transaction.expired \union transaction.locked
  /\ {k \in Seconds : locks[k] = r} =
       transaction.locked \union (IF transaction.at \in {"counted", "collecting"}
                                  THEN {transaction.key} ELSE {})
  /\ Cardinality(transaction.expired \union transaction.locked) <= Batch
  /\ transaction.at \in {"counted", "collecting"} =>
       transaction.new = Limited!Counted(counts[transaction.key], transaction.now)

\* What the row counted were let through, as far as the limit.
ThroughAsCounted ==
  \A k \in Seconds : passed[k] <= count[k].count /\ passed[k] <= Limit

LimiterKinds ==
  /\ count \in [Seconds -> Limited!Row]
  /\ locked \in [Seconds -> Firsts \union {None}]
  /\ tries \in [Firsts -> 0..MaxTries]
  /\ passed \in [Seconds -> Nat]
  /\ now \in 0..MaxClock
  /\ DOMAIN request = Firsts
  /\ request = [r \in Firsts |-> request[r]]

LimiterInv ==
  LimiterKinds /\ ThroughAsCounted /\ \A r \in Firsts : TransactionOK(r, request[r], count, locked, now)

LEMMA LimiterSays == LimiterInv => Limited!TypeOK
BY DEF LimiterInv, LimiterKinds, TransactionOK, Transaction, Limited!TypeOK, Limited!Row,
       Limited!Cardinality, Cardinality

LEMMA LimiterAssumed ==
  /\ Limit \in Nat \ {0} /\ Window \in Nat \ {0} /\ Batch \in Nat \ {0}
  /\ MaxClock \in Nat /\ MaxTries \in Nat /\ None \notin Firsts /\ IsFiniteSet(Seconds)
BY RecordsAssumption DEF Limited!RateLimitAssumption, Limited!IsFiniteSet, IsFiniteSet

\* A transaction that has ended, or not begun.
LEMMA IdleOK ==
  ASSUME NEW r \in Firsts, NEW counts, NEW locks, NEW upto \in Nat, {k \in Seconds : locks[k] = r} = {}
  PROVE  TransactionOK(r, Limited!Idle, counts, locks, upto)
<1>1. /\ Limited!Idle.at = "idle" /\ Limited!Idle.now = 0
      /\ Limited!Idle.expired = {} /\ Limited!Idle.locked = {}
      /\ Limited!Idle \in Transaction
  BY DEF Limited!Idle, Transaction, Limited!NoRow, Limited!Row
<1>2. Cardinality({} \union {}) <= Batch
  <2>1. Cardinality({}) = 0
    BY FS_EmptySet
  <2> QED
    BY <2>1, LimiterAssumed
<1> QED
  BY <1>1, <1>2 DEF TransactionOK

LEMMA LimiterBegins == Limited!Init => LimiterInv
<1> SUFFICES ASSUME Limited!Init PROVE LimiterInv
  OBVIOUS
<1>1. LimiterKinds
  BY LimiterAssumed DEF Limited!Init, LimiterKinds, Limited!NoRow, Limited!Row
<1>2. ASSUME NEW r \in Firsts PROVE TransactionOK(r, request[r], count, locked, now)
  <2>1. {k \in Seconds : locked[k] = r} = {} /\ now \in Nat /\ request[r] = Limited!Idle
    BY LimiterAssumed DEF Limited!Init
  <2> QED
    BY <2>1, IdleOK
<1>3. ThroughAsCounted
  BY LimiterAssumed DEF Limited!Init, ThroughAsCounted, Limited!NoRow
<1> QED
  BY <1>1, <1>2, <1>3 DEF LimiterInv

\* One transaction goes on: it may lock what nobody has locked, or give up its own.
LEMMA OneGoesOn ==
  ASSUME LimiterInv, NEW r \in Firsts, NEW transaction,
         request' = [request EXCEPT ![r] = transaction],
         TransactionOK(r, transaction, count', locked', now),
         locked' \in [Seconds -> Firsts \union {None}],
         \A k \in Seconds : locked'[k] = locked[k] \/ (locked[k] = None /\ locked'[k] = r)
                         \/ (locked[k] = r /\ locked'[k] = None),
         count' \in [Seconds -> Limited!Row], tries' \in [Firsts -> 0..MaxTries],
         passed' \in [Seconds -> Nat], now' = now, ThroughAsCounted',
         \A k \in Seconds : count'[k] = count[k] \/ locked[k] = r
  PROVE  LimiterInv'
<1>1. ASSUME NEW s \in Firsts PROVE TransactionOK(s, request'[s], count', locked', now')
  <2>1. CASE s = r
    BY <2>1 DEF LimiterInv, LimiterKinds
  <2>2. CASE s # r
    <3>1. request'[s] = request[s]
      BY <2>2 DEF LimiterInv, LimiterKinds
    <3>2. {k \in Seconds : locked'[k] = s} = {k \in Seconds : locked[k] = s}
      BY <2>2, LimiterAssumed
    <3>3. /\ TransactionOK(s, request[s], count, locked, now)
          /\ request[s].at \in {"counted", "collecting"} => count'[request[s].key] = count[request[s].key]
      BY <2>2 DEF LimiterInv, TransactionOK
    <3> QED
      BY <3>1, <3>2, <3>3 DEF TransactionOK
  <2> QED
    BY <2>1, <2>2
<1>2. LimiterKinds'
  BY DEF LimiterInv, LimiterKinds
<1> QED
  BY <1>1, <1>2 DEF LimiterInv

LEMMA UnlockStep ==
  ASSUME LimiterInv, NEW r \in Firsts, locked' = Limited!Unlocked(r),
         request' = [request EXCEPT ![r] = Limited!Idle],
         count' \in [Seconds -> Limited!Row], passed' \in [Seconds -> Nat],
         tries' = tries, now' = now, ThroughAsCounted',
         \A k \in Seconds : count'[k] = count[k] \/ locked[k] = r
  PROVE  LimiterInv'
<1>1. /\ locked' \in [Seconds -> Firsts \union {None}]
      /\ \A k \in Seconds : locked'[k] = locked[k] \/ (locked[k] = r /\ locked'[k] = None)
      /\ {k \in Seconds : locked'[k] = r} = {}
  BY LimiterAssumed DEF LimiterInv, LimiterKinds, Limited!Unlocked
<1>2. now \in Nat /\ tries' \in [Firsts -> 0..MaxTries]
  BY LimiterAssumed DEF LimiterInv, LimiterKinds
<1>3. TransactionOK(r, Limited!Idle, count', locked', now)
  BY <1>1, <1>2, IdleOK
<1> QED
  BY <1>1, <1>2, <1>3, OneGoesOn

\* What a commit makes of a row, and of who was let through in its window.
LEMMA CommitEach ==
  ASSUME LimiterInv, NEW r \in Firsts, Limited!Commit(r), NEW k \in Seconds
  PROVE  /\ count'[k] \in Limited!Row /\ passed'[k] \in Nat
         /\ passed'[k] <= count'[k].count /\ passed'[k] <= Limit
         /\ count'[k] = count[k] \/ locked[k] = r
         /\ \/ count'[k] \in {count[k], Limited!NoRow}
            \/ count'[k] = Limited!Counted(count[k], request[r].now)
<1> DEFINE mine == request[r].key
           new == request[r].new
           gone == request[r].locked
<1>1. /\ count' = [j \in Seconds |-> CASE j = mine -> new
                                   [] j \in gone -> Limited!NoRow
                                   [] OTHER -> count[j]]
      /\ passed' = [j \in Seconds |->
                      CASE j = mine -> (IF count[j].reset = new.reset THEN passed[j] ELSE 0) +
                                      (IF new.count <= Limit THEN 1 ELSE 0)
                        [] j \in gone -> 0
                        [] OTHER -> passed[j]]
      /\ request[r].at = "collecting"
  BY DEF Limited!Commit
<1>2. /\ count \in [Seconds -> Limited!Row] /\ passed \in [Seconds -> Nat]
      /\ passed[k] <= count[k].count /\ passed[k] <= Limit
      /\ TransactionOK(r, request[r], count, locked, now) /\ now \in Nat
  BY LimiterAssumed DEF LimiterInv, LimiterKinds, ThroughAsCounted
<1>3. /\ new \in Limited!Row /\ mine \notin gone /\ mine \in Seconds
      /\ {j \in Seconds : locked[j] = r} = gone \union {mine}
      /\ new = Limited!Counted(count[mine], request[r].now) /\ request[r].now \in Nat
  BY <1>1, <1>2 DEF TransactionOK, Transaction
<1> HIDE DEF mine, new, gone
<1>4. /\ count'[k] = (CASE k = mine -> new [] k \in gone -> Limited!NoRow
                      [] OTHER -> count[k])
      /\ passed'[k] = (CASE k = mine -> (IF count[k].reset = new.reset THEN passed[k] ELSE 0) +
                                       (IF new.count <= Limit THEN 1 ELSE 0)
                         [] k \in gone -> 0
                         [] OTHER -> passed[k])
  BY <1>1, Zenon
<1>5. CASE k = mine
  <2>1. /\ count'[k] = new
        /\ passed'[k] = (IF count[k].reset = new.reset THEN passed[k] ELSE 0) +
                        (IF new.count <= Limit THEN 1 ELSE 0)
    BY <1>3, <1>4, <1>5, Zenon
  <2>2. count[k] \in Limited!Row /\ passed[k] \in Nat
    BY <1>2
  <2>3. count[k].reset = new.reset => new.count = count[k].count + 1 \/ count[k] = Limited!NoRow
    BY <1>3, <1>5, <2>2, LimiterAssumed, SMTT(20) DEF Limited!Counted, Limited!Row
  <2>4. new.count >= 1 /\ new.reset >= 0
    BY <1>3, <1>5, <2>2, LimiterAssumed DEF Limited!Counted, Limited!Row
  <2>5. count[k] = Limited!NoRow => new.reset = request[r].now + Window /\ count[k].reset = 0
    BY <1>3, <1>5, <2>2, LimiterAssumed DEF Limited!Counted, Limited!Row, Limited!NoRow
  <2>6. new.count \in Nat /\ count[k].count \in Nat
    BY <1>3, <2>2 DEF Limited!Row
  <2>7. passed'[k] \in Nat /\ passed'[k] <= new.count /\ passed'[k] <= Limit
    <3>1. CASE count[k].reset = new.reset
      <4>1. new.count = count[k].count + 1
        BY <1>3, <2>3, <2>5, <3>1, LimiterAssumed
      <4>2. CASE new.count <= Limit
        BY <1>2, <2>1, <2>2, <2>6, <3>1, <4>1, <4>2, LimiterAssumed
      <4>3. CASE ~(new.count <= Limit)
        BY <1>2, <2>1, <2>2, <2>6, <3>1, <4>1, <4>3, LimiterAssumed
      <4> QED
        BY <4>2, <4>3
    <3>2. CASE count[k].reset # new.reset
      BY <2>1, <2>4, <2>6, <3>2, LimiterAssumed
    <3> QED
      BY <3>1, <3>2
  <2> QED
    BY <1>3, <1>5, <2>1, <2>7
<1>6. CASE k # mine /\ k \in gone
  <2>1. count'[k] = Limited!NoRow /\ passed'[k] = 0
    BY <1>4, <1>6, Zenon
  <2>2. Limited!NoRow \in Limited!Row /\ Limited!NoRow.count = 0
    BY DEF Limited!NoRow, Limited!Row
  <2> QED
    BY <1>3, <1>6, <2>1, <2>2, LimiterAssumed
<1>7. CASE k # mine /\ k \notin gone
  BY <1>2, <1>4, <1>7
<1> QED
  BY <1>5, <1>6, <1>7

LEMMA LimiterStep == LimiterInv /\ Limited!Next => LimiterInv'
<1> SUFFICES ASSUME LimiterInv, Limited!Next PROVE LimiterInv'
  OBVIOUS
<1>0. /\ count \in [Seconds -> Limited!Row] /\ locked \in [Seconds -> Firsts \union {None}]
      /\ tries \in [Firsts -> 0..MaxTries] /\ passed \in [Seconds -> Nat]
      /\ now \in 0..MaxClock /\ now \in Nat
      /\ \A r \in Firsts : TransactionOK(r, request[r], count, locked, now)
  BY LimiterAssumed DEF LimiterInv, LimiterKinds
<1>u. UNCHANGED <<count, passed>> => ThroughAsCounted' /\ \A k \in Seconds : count'[k] = count[k]
  BY DEF LimiterInv, ThroughAsCounted
<1>1. ASSUME NEW r \in Firsts, Limited!Arrive(r) PROVE LimiterInv'
  <2>1. PICK k \in Seconds : request' = [request EXCEPT ![r] =
          [Limited!Idle EXCEPT !.at = "counting", !.key = k, !.now = now]]
    BY <1>1 DEF Limited!Arrive
  <2>2. /\ request[r] = Limited!Idle /\ UNCHANGED <<count, locked, passed, now>>
        /\ tries' \in [Firsts -> 0..MaxTries]
    BY <1>0, <1>1, LimiterAssumed DEF Limited!Arrive
  <2> DEFINE begun == [Limited!Idle EXCEPT !.at = "counting", !.key = k, !.now = now]
  <2>3. TransactionOK(r, Limited!Idle, count, locked, now)
    BY <1>0, <2>2
  <2>4. /\ begun.at = "counting" /\ begun.key = k /\ begun.now = now
        /\ begun.expired = {} /\ begun.locked = {} /\ begun \in Transaction
    BY <1>0 DEF Limited!Idle, Transaction, Limited!NoRow, Limited!Row
  <2>5. {l \in Seconds : locked[l] = r} = {} /\ Cardinality({} \union {}) <= Batch
    BY <2>3 DEF TransactionOK, Limited!Idle
  <2> HIDE DEF begun
  <2>6. TransactionOK(r, begun, count', locked', now)
    BY <1>0, <2>2, <2>4, <2>5 DEF TransactionOK
  <2>7. request' = [request EXCEPT ![r] = begun]
    BY <2>1 DEF begun
  <2> QED
    BY <1>0, <1>u, <2>2, <2>6, <2>7, OneGoesOn
<1>2. ASSUME NEW r \in Firsts, Limited!Count(r) PROVE LimiterInv'
  <2> DEFINE k == request[r].key
             counted == [request[r] EXCEPT !.at = "counted",
                                            !.new = Limited!Counted(count[k], request[r].now)]
  <2>1. /\ request[r].at = "counting" /\ locked[k] = None /\ locked' = [locked EXCEPT ![k] = r]
        /\ request' = [request EXCEPT ![r] = counted]
        /\ UNCHANGED <<count, tries, passed, now>>
    BY <1>2 DEF Limited!Count
  <2>2. /\ request[r] \in Transaction /\ k \in Seconds /\ request[r].now \in 0..now
        /\ request[r].expired = {} /\ request[r].locked = {}
        /\ {l \in Seconds : locked[l] = r} = {}
        /\ Cardinality({} \union {}) <= Batch
    BY <1>0, <2>1 DEF TransactionOK
  <2>3. count[k] \in Limited!Row /\ request[r].now \in Nat
    BY <1>0, <2>2
  <2>4. Limited!Counted(count[k], request[r].now) \in Limited!Row
    BY <2>3, LimiterAssumed DEF Limited!Counted, Limited!Row
  <2>5. /\ counted \in Transaction /\ counted.at = "counted" /\ counted.key = k
        /\ counted.now = request[r].now /\ counted.expired = {} /\ counted.locked = {}
        /\ counted.new = Limited!Counted(count[k], request[r].now)
    BY <2>2, <2>4 DEF Transaction
  <2>6. {l \in Seconds : locked'[l] = r} = {k}
    BY <1>0, <2>1, <2>2
  <2> HIDE DEF counted, k
  <2>7. TransactionOK(r, counted, count', locked', now)
    BY <2>1, <2>2, <2>5, <2>6 DEF TransactionOK
  <2>8. locked' \in [Seconds -> Firsts \union {None}]
        /\ \A l \in Seconds : locked'[l] = locked[l] \/ (locked[l] = None /\ locked'[l] = r)
    BY <1>0, <2>1
  <2> QED
    BY <1>0, <1>u, <2>1, <2>7, <2>8, OneGoesOn
<1>3. ASSUME NEW r \in Firsts, Limited!Choose(r) PROVE LimiterInv'
  <2>1. request[r].at = "counted" /\ UNCHANGED <<count, locked, tries, passed, now>>
    BY <1>3 DEF Limited!Choose
  <2>2. PICK chosen \in SUBSET Seconds :
          /\ request[r].key \notin chosen
          /\ Cardinality(chosen) = Batch \/ Cardinality(chosen) < Batch
          /\ \E k \in Limited!Nexts(chosen) :
               request' = [request EXCEPT ![r].at = "collecting", ![r].expired = chosen,
                                            ![r].next = k]
    BY <1>3 DEF Limited!Choose, Limited!Cardinality, Cardinality
  <2>0. PICK k \in Limited!Nexts(chosen) :
          request' = [request EXCEPT ![r].at = "collecting", ![r].expired = chosen,
                                       ![r].next = k]
    BY <2>2
  <2> DEFINE collecting == [request[r] EXCEPT !.at = "collecting", !.expired = chosen, !.next = k]
  <2>3. /\ request[r] \in Transaction /\ request[r].key \in Seconds
        /\ request[r].now \in 0..now /\ request[r].locked = {}
        /\ {l \in Seconds : locked[l] = r} = {request[r].key}
        /\ request[r].new = Limited!Counted(count[request[r].key], request[r].now)
    BY <1>0, <2>1 DEF TransactionOK
  <2>4. (chosen # {} => k \in chosen) /\ k \in Seconds \union {None}
    BY <2>0, <2>2 DEF Limited!Nexts
  <2>5. Cardinality(chosen) <= Batch
    <3>1. Cardinality(chosen) \in Nat
      BY LimiterAssumed, FS_Subset, FS_CardinalityType
    <3> QED
      BY <2>2, <3>1, LimiterAssumed
  <2>6. /\ collecting \in Transaction /\ collecting.at = "collecting"
        /\ collecting.key = request[r].key /\ collecting.now = request[r].now
        /\ collecting.expired = chosen /\ collecting.next = k /\ collecting.locked = {}
        /\ collecting.new = request[r].new
    BY <2>3, <2>4 DEF Transaction
  <2>7. request' = [request EXCEPT ![r] = collecting]
    BY <2>0
  <2> HIDE DEF collecting
  <2>8. chosen \union {} = chosen
    OBVIOUS
  <2>9. TransactionOK(r, collecting, count', locked', now)
    BY <2>1, <2>2, <2>3, <2>4, <2>5, <2>6, <2>8 DEF TransactionOK
  <2> QED
    BY <1>0, <1>u, <2>1, <2>7, <2>9, OneGoesOn
<1>4. ASSUME NEW r \in Firsts, Limited!Remove(r) PROVE LimiterInv'
  <2> DEFINE k == request[r].next
             rest == request[r].expired \ {k}
             has == IF count[k] = Limited!NoRow THEN request[r].locked
                    ELSE request[r].locked \union {k}
  <2>1. /\ request[r].at = "collecting" /\ request[r].expired # {}
        /\ locked[k] = None /\ UNCHANGED <<count, tries, passed, now>>
        /\ locked' = IF count[k] = Limited!NoRow THEN locked ELSE [locked EXCEPT ![k] = r]
    BY <1>4 DEF Limited!Remove
  <2>2. PICK l \in Limited!Nexts(rest) :
          request' = [request EXCEPT ![r].expired = rest, ![r].next = l, ![r].locked = has]
    BY <1>4 DEF Limited!Remove
  <2> DEFINE goes == [request[r] EXCEPT !.expired = rest, !.next = l, !.locked = has]
  <2>3. /\ request[r] \in Transaction /\ request[r].key \in Seconds /\ k \in request[r].expired
        /\ request[r].key \notin request[r].expired \union request[r].locked
        /\ request[r].now \in 0..now
        /\ {x \in Seconds : locked[x] = r} = request[r].locked \union {request[r].key}
        /\ Cardinality(request[r].expired \union request[r].locked) <= Batch
        /\ request[r].new = Limited!Counted(count[request[r].key], request[r].now)
    BY <1>0, <2>1 DEF TransactionOK
  <2>4. k \in Seconds /\ rest \in SUBSET Seconds /\ has \in SUBSET Seconds
        /\ request[r].expired \in SUBSET Seconds /\ request[r].locked \in SUBSET Seconds
    BY <2>3 DEF Transaction
  <2>5. /\ rest # {} => l \in rest
        /\ l \in Seconds \union {None} /\ request[r].key \notin rest \union has
    BY <2>2, <2>3, <2>4 DEF Limited!Nexts
  <2>6. {x \in Seconds : locked'[x] = r} = has \union {request[r].key}
    BY <1>0, <2>1, <2>3, <2>4
  <2>7. Cardinality(rest \union has) <= Batch
    <3> DEFINE before == request[r].expired \union request[r].locked
               after == rest \union has
    <3>1. after \in SUBSET before /\ before \in SUBSET Seconds
      BY <2>3, <2>4
    <3> HIDE DEF before, after
    <3>2. IsFiniteSet(before)
      BY <3>1, LimiterAssumed, FS_Subset
    <3>3. Cardinality(after) <= Cardinality(before) /\ Cardinality(before) \in Nat
          /\ Cardinality(after) \in Nat
      BY <3>1, <3>2, FS_Subset, FS_CardinalityType
    <3>4. Cardinality(before) <= Batch
      BY <2>3 DEF before
    <3> QED
      BY <3>3, <3>4, LimiterAssumed DEF after
  <2>8. /\ goes \in Transaction /\ goes.at = "collecting" /\ goes.key = request[r].key
        /\ goes.now = request[r].now /\ goes.expired = rest /\ goes.next = l /\ goes.locked = has
        /\ goes.new = request[r].new
    <3> HIDE DEF rest, has
    <3> QED
      BY <2>1, <2>3, <2>4, <2>5 DEF Transaction
  <2>9. locked' \in [Seconds -> Firsts \union {None}]
        /\ \A x \in Seconds : locked'[x] = locked[x] \/ (locked[x] = None /\ locked'[x] = r)
    BY <1>0, <2>1
  <2>10. request' = [request EXCEPT ![r] = goes]
    BY <2>2
  <2> HIDE DEF goes, rest, has, k
  <2>11. TransactionOK(r, goes, count', locked', now)
    BY <2>1, <2>3, <2>5, <2>6, <2>7, <2>8 DEF TransactionOK
  <2> QED
    BY <1>0, <1>u, <2>1, <2>9, <2>10, <2>11, OneGoesOn
<1>5. ASSUME NEW r \in Firsts, Limited!Commit(r) PROVE LimiterInv'
  <2>1. count' = [k \in Seconds |-> count'[k]] /\ passed' = [k \in Seconds |-> passed'[k]]
    BY <1>5 DEF Limited!Commit
  <2>2. /\ \A k \in Seconds : count'[k] \in Limited!Row /\ passed'[k] \in Nat
        /\ \A k \in Seconds : count'[k] = count[k] \/ locked[k] = r
        /\ ThroughAsCounted'
    BY <1>5, CommitEach DEF ThroughAsCounted
  <2>3. count' \in [Seconds -> Limited!Row] /\ passed' \in [Seconds -> Nat]
    BY <2>1, <2>2
  <2> QED
    BY <1>5, <2>2, <2>3, UnlockStep DEF Limited!Commit
<1>6. ASSUME NEW r \in Firsts, Limited!Abort(r) PROVE LimiterInv'
  <2>1. /\ locked' = Limited!Unlocked(r) /\ request' = [request EXCEPT ![r] = Limited!Idle]
        /\ UNCHANGED <<count, tries, passed, now>>
    BY <1>6, Zenon DEF Limited!Abort
  <2> QED
    BY <1>0, <1>u, <2>1, UnlockStep
<1>7. ASSUME Limited!Tick PROVE LimiterInv'
  <2>1. /\ now' = now + 1 /\ now' \in 0..MaxClock
        /\ UNCHANGED <<count, locked, request, tries, passed>>
    BY <1>0, <1>7, LimiterAssumed DEF Limited!Tick
  <2>2. ASSUME NEW r \in Firsts PROVE TransactionOK(r, request[r], count, locked, now + 1)
    <3>1. request[r].now \in 0..now => request[r].now \in 0..(now + 1)
      BY <1>0
    <3> QED
      BY <1>0, <3>1 DEF TransactionOK
  <2> QED
    BY <1>u, <2>1, <2>2 DEF LimiterInv, LimiterKinds
<1> QED
  BY <1>1, <1>2, <1>3, <1>4, <1>5, <1>6, <1>7 DEF Limited!Next, Limited!Works

\* A row that changes and stays of its window has counted one more.
LEMMA EachCounted == LimiterInv /\ Limited!Next => Limited!CountsEach
<1> SUFFICES ASSUME LimiterInv, Limited!Next PROVE Limited!CountsEach
  OBVIOUS
<1>1. CASE UNCHANGED count
  BY <1>1 DEF Limited!CountsEach
<1>2. ASSUME NEW r \in Firsts, Limited!Commit(r) PROVE Limited!CountsEach
  <2> SUFFICES ASSUME NEW k \in Seconds, count[k] # Limited!NoRow, count'[k] # Limited!NoRow,
                      count'[k] # count[k], count'[k].reset = count[k].reset
               PROVE  count'[k].count = count[k].count + 1
    BY DEF Limited!CountsEach
  <2>1. count'[k] = Limited!Counted(count[k], request[r].now)
    BY <1>2, CommitEach
  <2>2. count[k] \in Limited!Row /\ request[r].now \in Nat
    BY DEF LimiterInv, LimiterKinds, TransactionOK, Transaction
  <2> QED
    BY <2>1, <2>2, LimiterAssumed DEF Limited!Counted, Limited!Row
<1>3. UNCHANGED count \/ \E r \in Firsts : Limited!Commit(r)
  BY DEF Limited!Next, Limited!Works, Limited!Arrive, Limited!Count, Limited!Choose,
         Limited!Remove, Limited!Abort, Limited!Tick
<1> QED
  BY <1>1, <1>2, <1>3

-----------------------------------------------------------------------------
(* The stream of a dashboard.                                               *)

Subscription ==
  [by: Firsts, at: {"fetching", "open", "waiting", "terminal", "gave up", "stopped"},
   attempt: 0..MaxAttempts, aborted: BOOLEAN]
Shown ==
  [mounted : BOOLEAN, progress : {"none", "going", "terminal"}, connected : BOOLEAN,
   disconnected : BOOLEAN, reconnecting : BOOLEAN, error : BOOLEAN]

StreamKinds ==
  /\ subs \in Seq(Subscription) /\ Len(subs) <= MaxSubs /\ active \in 0..Len(subs)
  /\ view \in [Firsts -> Shown]

\* The one that is live is the active one, and the last of its view.
LiveIsActive == \A i \in Stream!Ids : Stream!Live(i) => active = i /\ Stream!Current(subs[i].by, i)

StreamInv == StreamKinds /\ LiveIsActive /\ Stream!EndShown

LEMMA StreamAssumed == MaxAttempts \in Nat /\ MaxSubs \in Nat
BY RecordsAssumption DEF Stream!StreamAssumption

LEMMA StreamKept ==
  StreamInv =>
    /\ subs \in Seq(Subscription) /\ Len(subs) <= MaxSubs /\ active \in 0..Len(subs)
    /\ view \in [Firsts -> Shown] /\ LiveIsActive /\ Stream!EndShown
    /\ Len(subs) \in Nat /\ subs \in [1..Len(subs) -> Subscription]
    /\ DOMAIN subs = 1..Len(subs) /\ Stream!Ids = 1..Len(subs)
<1> SUFFICES ASSUME StreamInv
             PROVE  /\ Len(subs) \in Nat /\ subs \in [1..Len(subs) -> Subscription]
                    /\ DOMAIN subs = 1..Len(subs)
  BY DEF StreamInv, StreamKinds, Stream!Ids
<1> QED
  BY LenProperties DEF StreamInv, StreamKinds

\* Sequences of as many subscriptions.
LEMMA AsMany ==
  ASSUME NEW n \in Nat, NEW f \in [1..n -> Subscription]
  PROVE  f \in Seq(Subscription) /\ Len(f) = n
BY SeqDef

LEMMA StreamSays == StreamInv => Stream!TypeOK /\ Stream!OneStream /\ Stream!EndShown
<1> SUFFICES ASSUME StreamInv PROVE Stream!TypeOK /\ Stream!OneStream
  BY DEF StreamInv
<1>1. Stream!TypeOK
  BY StreamKept DEF Stream!TypeOK, Subscription, Shown
<1>2. Stream!OneStream
  BY DEF StreamInv, LiveIsActive, Stream!OneStream
<1> QED
  BY <1>1, <1>2

LEMMA StreamBegins == Stream!Init => StreamInv
BY StreamAssumed
DEF Stream!Init, StreamInv, StreamKinds, LiveIsActive, Stream!EndShown, Stream!Blank, Shown, Stream!Ids

EndIsShown(shown) ==
  shown.mounted => shown.progress = "terminal" /\ ~shown.error /\ ~shown.disconnected

KeepsEnd(was, shown) ==
  /\ shown.mounted = was.mounted /\ shown.progress = was.progress
  /\ shown.error = was.error /\ shown.disconnected = was.disconnected
OrForgets(i, sub) ==
  \/ active' = active
  \/ active' = (IF active = i THEN 0 ELSE active) /\ sub.at \in {"terminal", "gave up", "stopped"}

\* One subscription moves, and its view shows it; one that was aborted leaves
\* what its view shows of another's end.
LEMMA OneMoves ==
  ASSUME StreamInv, NEW i \in Stream!Ids, ~Stream!Ended(i), NEW sub \in Subscription,
         sub.by = subs[i].by, sub.aborted = subs[i].aborted, subs' = [subs EXCEPT ![i] = sub],
         OrForgets(i, sub),
         NEW shown \in Shown, view' = [view EXCEPT ![subs[i].by] = shown],
         sub.at = "terminal" => EndIsShown(shown),
         Stream!Live(i) \/ KeepsEnd(view[subs[i].by], shown)
  PROVE  StreamInv'
<1>0. /\ subs \in Seq(Subscription) /\ Len(subs) <= MaxSubs /\ active \in 0..Len(subs)
      /\ view \in [Firsts -> Shown] /\ LiveIsActive /\ Stream!EndShown
      /\ Len(subs) \in Nat /\ subs \in [1..Len(subs) -> Subscription]
      /\ DOMAIN subs = 1..Len(subs) /\ Stream!Ids = 1..Len(subs)
  BY StreamKept
<1>1. /\ subs' \in Seq(Subscription) /\ Len(subs') = Len(subs) /\ DOMAIN subs' = DOMAIN subs
      /\ i \in 1..Len(subs) /\ i \in DOMAIN subs
      /\ subs'[i] = sub /\ \A j \in DOMAIN subs : j # i => subs'[j] = subs[j]
  <2>1. i \in 1..Len(subs)
    BY <1>0
  <2>2. [subs EXCEPT ![i] = sub] \in Seq(Subscription)
        /\ Len([subs EXCEPT ![i] = sub]) = Len(subs)
    <3>1. [subs EXCEPT ![i] = sub] \in [1..Len(subs) -> Subscription] /\ Len(subs) \in Nat
      BY <1>0, <2>1
    <3> QED
      BY <3>1, AsMany
  <2> QED
    BY <1>0, <2>1, <2>2
<1>2. /\ subs[i].by \in Firsts /\ view' \in [Firsts -> Shown]
      /\ view'[subs[i].by] = shown /\ \A v \in Firsts : v # subs[i].by => view'[v] = view[v]
  BY <1>0, <1>1 DEF Subscription
<1>3. StreamKinds'
  <2>1. active' = active \/ active' = 0
    BY Zenon DEF OrForgets
  <2>2. active' \in 0..Len(subs)
    BY <1>0, <2>1
  <2> QED
    BY <1>0, <1>1, <1>2, <2>2 DEF StreamKinds
<1>4. \A v \in Firsts, j \in DOMAIN subs : Stream!Current(v, j)' <=> Stream!Current(v, j)
  BY <1>1 DEF Stream!Current, Stream!Ids
<1>5. LiveIsActive'
  <2> SUFFICES ASSUME NEW j \in DOMAIN subs, Stream!Live(j)'
               PROVE  active' = j /\ Stream!Current(subs[j].by, j)'
    BY <1>1 DEF LiveIsActive, Stream!Ids
  <2>1. Stream!Live(j)
    BY <1>1 DEF Stream!Live, Stream!Ended
  <2>2. active = j /\ Stream!Current(subs[j].by, j) /\ subs'[j].by = subs[j].by
        /\ subs[j].by \in Firsts
    BY <1>0, <1>1, <2>1 DEF LiveIsActive, Stream!Ids, Subscription
  <2>3. active' = j
    BY <1>1, <2>2 DEF Stream!Live, Stream!Ended, OrForgets
  <2> QED
    BY <1>4, <2>2, <2>3
<1>6. Stream!EndShown'
  <2> SUFFICES ASSUME NEW v \in Firsts, NEW j \in DOMAIN subs, view'[v].mounted,
                      Stream!Current(v, j)', subs'[j].at = "terminal"
               PROVE  view'[v].progress = "terminal" /\ ~view'[v].error /\ ~view'[v].disconnected
    BY <1>1 DEF Stream!EndShown, Stream!Ids
  <2>1. Stream!Current(v, j) /\ subs[j].by = v
    BY <1>4 DEF Stream!Current
  <2>2. CASE j = i
    BY <1>1, <1>2, <2>1, <2>2 DEF EndIsShown
  <2>3. CASE j # i /\ v = subs[i].by
    <3>1. ~Stream!Live(i)
      <4> SUFFICES ASSUME Stream!Live(i) PROVE FALSE
        OBVIOUS
      <4>1. Stream!Current(v, i)
        BY <1>0, <1>1, <2>3 DEF LiveIsActive, Stream!Ids
      <4>2. i <= j /\ j <= i
        BY <1>1, <2>1, <2>3, <4>1 DEF Stream!Current, Stream!Ids
      <4>3. i \in Nat /\ j \in Nat
        <5>1. i \in 1..Len(subs) /\ j \in 1..Len(subs) /\ Len(subs) \in Nat
          BY <1>0
        <5> QED
          BY <5>1
      <4> QED
        BY <2>3, <4>2, <4>3
    <3>2. subs[j].at = "terminal" /\ view[v].mounted
      BY <1>1, <1>2, <2>3, <3>1 DEF KeepsEnd
    <3>3. view[v].progress = "terminal" /\ ~view[v].error /\ ~view[v].disconnected
      BY <1>0, <2>1, <3>2 DEF Stream!EndShown, Stream!Ids
    <3> QED
      BY <1>2, <2>3, <3>1, <3>3 DEF KeepsEnd
  <2>4. CASE j # i /\ v # subs[i].by
    BY <1>0, <1>1, <1>2, <2>1, <2>4 DEF Stream!EndShown, Stream!Ids
  <2> QED
    BY <2>2, <2>3, <2>4
<1> QED
  BY <1>3, <1>5, <1>6 DEF StreamInv

\* A view begins another subscription.
LEMMA Subscribes ==
  ASSUME StreamInv, NEW v \in Firsts, NEW shown \in Shown, Stream!Subscribe(v, shown)
  PROVE  StreamInv'
<1>0. /\ subs \in Seq(Subscription) /\ Len(subs) <= MaxSubs /\ active \in 0..Len(subs)
      /\ view \in [Firsts -> Shown] /\ LiveIsActive /\ Stream!EndShown
      /\ Len(subs) \in Nat /\ subs \in [1..Len(subs) -> Subscription]
      /\ DOMAIN subs = 1..Len(subs) /\ Stream!Ids = 1..Len(subs)
  BY StreamKept
<1> DEFINE fresh1 == [by |-> v, at |-> "fetching", attempt |-> 0, aborted |-> FALSE]
           n == Len(subs) + 1
<1>1. /\ Len(subs) < MaxSubs /\ subs' = Append(Stream!Aborting(v), fresh1) /\ active' = n
      /\ view' = [view EXCEPT ![v] = shown]
  BY DEF Stream!Subscribe
<1>2. /\ Stream!Aborting(v) \in Seq(Subscription) /\ Len(Stream!Aborting(v)) = Len(subs)
      /\ \A i \in 1..Len(subs) :
           /\ Stream!Aborting(v)[i].by = subs[i].by /\ Stream!Aborting(v)[i].at = subs[i].at
           /\ Stream!Aborting(v)[i].aborted =
                (subs[i].aborted \/ (~Stream!Ended(i) /\ (subs[i].by = v \/ i = active)))
  <2>1. Stream!Aborting(v) =
          [i \in 1..Len(subs) |-> [subs[i] EXCEPT !.aborted =
             subs[i].aborted \/ (~Stream!Ended(i) /\ (subs[i].by = v \/ i = active))]]
    BY <1>0 DEF Stream!Aborting, Subscription
  <2>2. \A i \in 1..Len(subs) : subs[i] \in Subscription
    BY <1>0
  <2>3. ASSUME NEW i \in 1..Len(subs) PROVE Stream!Aborting(v)[i] \in Subscription
    <3> DEFINE told1 == subs[i].aborted \/ (~Stream!Ended(i) /\ (subs[i].by = v \/ i = active))
    <3>1. subs[i] \in Subscription /\ told1 \in BOOLEAN
      BY <2>2 DEF Subscription, Stream!Ended
    <3>2. Stream!Aborting(v)[i] = [subs[i] EXCEPT !.aborted = told1]
      BY <2>1
    <3> HIDE DEF told1
    <3> QED
      BY <3>1, <3>2 DEF Subscription
  <2>4. Len(subs) \in Nat
    BY <1>0
  <2>5. Stream!Aborting(v) \in [1..Len(subs) -> Subscription]
    BY <2>1, <2>3
  <2>6. Stream!Aborting(v) \in Seq(Subscription) /\ Len(Stream!Aborting(v)) = Len(subs)
    BY <2>4, <2>5, AsMany
  <2>7. ASSUME NEW i \in 1..Len(subs)
        PROVE  /\ Stream!Aborting(v)[i].by = subs[i].by /\ Stream!Aborting(v)[i].at = subs[i].at
               /\ Stream!Aborting(v)[i].aborted =
                    (subs[i].aborted \/ (~Stream!Ended(i) /\ (subs[i].by = v \/ i = active)))
    <3>1. subs[i] \in Subscription
      BY <2>2
    <3>2. Stream!Aborting(v)[i] = [subs[i] EXCEPT !.aborted =
             subs[i].aborted \/ (~Stream!Ended(i) /\ (subs[i].by = v \/ i = active))]
      BY <2>1
    <3> QED
      BY <3>1, <3>2, Zenon DEF Subscription
  <2> QED
    BY <2>6, <2>7
<1>3. fresh1 \in Subscription
  BY StreamAssumed DEF Subscription
<1> HIDE DEF fresh1
<1>4. /\ subs' \in Seq(Subscription) /\ Len(subs') = n /\ DOMAIN subs' = 1..n
      /\ subs'[n] = fresh1
      /\ \A i \in 1..Len(subs) :
           /\ subs'[i].by = subs[i].by /\ subs'[i].at = subs[i].at
           /\ subs'[i].aborted =
                (subs[i].aborted \/ (~Stream!Ended(i) /\ (subs[i].by = v \/ i = active)))
  BY <1>1, <1>2, <1>3
<1>5. StreamKinds'
  BY <1>0, <1>1, <1>4, StreamAssumed DEF StreamKinds
<1>6. LiveIsActive'
  <2> SUFFICES ASSUME NEW j \in 1..n, Stream!Live(j)'
               PROVE  active' = j /\ Stream!Current(subs[j].by, j)'
    BY <1>4 DEF LiveIsActive, Stream!Ids
  <2>1. CASE j = n
    BY <1>0, <1>1, <1>4, <2>1 DEF Stream!Current, Stream!Ids
  <2>2. CASE j # n
    <3>1. j \in 1..Len(subs)
      BY <1>0, <2>2
    <3>2. subs'[j].at = subs[j].at /\ ~subs'[j].aborted
      BY <1>4, <3>1 DEF Stream!Live
    <3>3. ~Stream!Ended(j)
      BY <3>2 DEF Stream!Live, Stream!Ended
    <3>4. ~subs[j].aborted /\ j # active
      BY <1>4, <3>1, <3>2, <3>3
    <3>5. Stream!Live(j)
      BY <3>3, <3>4 DEF Stream!Live
    <3> QED
      BY <1>0, <3>1, <3>4, <3>5 DEF LiveIsActive, Stream!Ids
  <2> QED
    BY <2>1, <2>2
<1>7. Stream!EndShown'
  <2> SUFFICES ASSUME NEW w \in Firsts, NEW j \in 1..n, view'[w].mounted,
                      Stream!Current(w, j)', subs'[j].at = "terminal"
               PROVE  view'[w].progress = "terminal" /\ ~view'[w].error /\ ~view'[w].disconnected
    BY <1>4 DEF Stream!EndShown, Stream!Ids
  <2>1. j # n /\ j \in 1..Len(subs)
    BY <1>0, <1>4 DEF fresh1
  <2>2. w # v
    <3> SUFFICES ASSUME w = v PROVE FALSE
      OBVIOUS
    <3>1. n \in 1..n /\ subs'[n].by = v
      BY <1>0, <1>4 DEF fresh1
    <3>2. n <= j
      BY <1>4, <3>1 DEF Stream!Current, Stream!Ids
    <3> QED
      BY <1>0, <2>1, <3>2
  <2>3. subs[j].at = "terminal" /\ view'[w] = view[w]
    BY <1>0, <1>1, <1>4, <2>1, <2>2
  <2>4. Stream!Current(w, j)
    <3>1. subs[j].by = w
      BY <1>4, <2>1 DEF Stream!Current
    <3>2. \A i \in 1..Len(subs) : subs[i].by = w => i <= j
      BY <1>0, <1>4 DEF Stream!Current, Stream!Ids
    <3> QED
      BY <1>0, <3>1, <3>2 DEF Stream!Current, Stream!Ids
  <2> QED
    BY <1>0, <2>1, <2>3, <2>4 DEF Stream!EndShown, Stream!Ids
<1> QED
  BY <1>5, <1>6, <1>7 DEF StreamInv

LEMMA StreamStep == StreamInv /\ Stream!Next => StreamInv'
<1> SUFFICES ASSUME StreamInv, Stream!Next PROVE StreamInv'
  OBVIOUS
<1>0. /\ subs \in Seq(Subscription) /\ Len(subs) <= MaxSubs /\ active \in 0..Len(subs)
      /\ view \in [Firsts -> Shown] /\ LiveIsActive /\ Stream!EndShown
      /\ Len(subs) \in Nat /\ subs \in [1..Len(subs) -> Subscription]
      /\ DOMAIN subs = 1..Len(subs) /\ Stream!Ids = 1..Len(subs)
      /\ \A i \in Stream!Ids : subs[i] \in Subscription
  BY StreamKept
<1>1. ASSUME NEW v \in Firsts, Stream!Mount(v) \/ Stream!NewToken(v) \/ Stream!Retry(v)
      PROVE  StreamInv'
  <2>1. view[v] \in Shown /\ Stream!Blank \in Shown
    BY <1>0 DEF Shown, Stream!Blank
  <2>2. /\ [Stream!Blank EXCEPT !.mounted = TRUE] \in Shown
        /\ [view[v] EXCEPT !.error = FALSE, !.disconnected = FALSE] \in Shown
    BY <2>1 DEF Shown
  <2>3. \E shown \in Shown : Stream!Subscribe(v, shown)
    BY <1>1, <2>1, <2>2 DEF Stream!Mount, Stream!NewToken, Stream!Retry
  <2> QED
    BY <2>3, Subscribes
<1>2. ASSUME NEW v \in Firsts, Stream!Unmount(v) PROVE StreamInv'
  <2>1. /\ subs' = [i \in 1..Len(subs) |-> [subs[i] EXCEPT !.aborted =
                     subs[i].aborted \/ (~Stream!Ended(i) /\ subs[i].by = v)]]
        /\ view' = [view EXCEPT ![v] = Stream!Blank] /\ active' = active
    BY <1>0, <1>2 DEF Stream!Unmount, Stream!Ids
  <2>2. \A i \in 1..Len(subs) : subs[i] \in Subscription
    BY <1>0
  <2>3. \A i \in 1..Len(subs) :
          /\ subs'[i] \in Subscription /\ subs'[i].by = subs[i].by /\ subs'[i].at = subs[i].at
          /\ subs[i].aborted => subs'[i].aborted
    BY <2>1, <2>2 DEF Subscription
  <2>4. subs' \in Seq(Subscription) /\ Len(subs') = Len(subs) /\ DOMAIN subs' = 1..Len(subs)
    <3>1. subs' \in [1..Len(subs) -> Subscription] /\ Len(subs) \in Nat
      BY <1>0, <2>1, <2>3
    <3> QED
      BY <3>1, AsMany
  <2>5. Stream!Blank \in Shown /\ ~Stream!Blank.mounted
    BY DEF Stream!Blank, Shown
  <2>6. StreamKinds'
    BY <1>0, <2>1, <2>4, <2>5 DEF StreamKinds
  <2>7. \A w \in Firsts, i \in 1..Len(subs) : Stream!Current(w, i)' <=> Stream!Current(w, i)
    BY <1>0, <2>3, <2>4 DEF Stream!Current, Stream!Ids
  <2>8. \A i \in 1..Len(subs) : Stream!Live(i)' => Stream!Live(i)
    BY <2>3 DEF Stream!Live, Stream!Ended
  <2>9. LiveIsActive'
    <3> SUFFICES ASSUME NEW i \in 1..Len(subs), Stream!Live(i)'
                 PROVE  active' = i /\ Stream!Current(subs[i].by, i)'
      BY <2>4 DEF LiveIsActive, Stream!Ids
    <3>1. active = i /\ Stream!Current(subs[i].by, i) /\ subs[i].by \in Firsts
      BY <1>0, <2>2, <2>8 DEF LiveIsActive, Stream!Ids, Subscription
    <3> QED
      BY <2>1, <2>3, <2>7, <3>1
  <2>10. Stream!EndShown'
    <3> SUFFICES ASSUME NEW w \in Firsts, NEW i \in 1..Len(subs), view'[w].mounted,
                        Stream!Current(w, i)', subs'[i].at = "terminal"
                 PROVE  view'[w].progress = "terminal" /\ ~view'[w].error /\ ~view'[w].disconnected
      BY <2>4 DEF Stream!EndShown, Stream!Ids
    <3>1. w # v /\ view'[w] = view[w]
      BY <1>0, <2>1, <2>5
    <3> QED
      BY <1>0, <2>3, <2>7, <3>1 DEF Stream!EndShown, Stream!Ids
  <2> QED
    BY <2>6, <2>9, <2>10 DEF StreamInv
<1>3. ASSUME NEW i \in Stream!Ids, Stream!Settled, ~Stream!Ended(i)
      PROVE  Stream!Live(i)
  BY <1>3 DEF Stream!Settled, Stream!Live
<1>4. \A i \in Stream!Ids : subs[i].by \in Firsts /\ view[subs[i].by] \in Shown
  BY <1>0 DEF Subscription
<1>5. ASSUME NEW i \in Stream!Ids, Stream!Respond(i) PROVE StreamInv'
  <2> DEFINE sub == [subs[i] EXCEPT !.at = "open"]
             was == view[subs[i].by]
             shown == IF was.mounted THEN [was EXCEPT !.connected = TRUE, !.reconnecting = FALSE] ELSE was
  <2>1. sub \in Subscription /\ sub.by = subs[i].by /\ sub.aborted = subs[i].aborted /\ sub.at = "open"
    BY <1>0 DEF Subscription
  <2>2. shown \in Shown
    BY <1>4 DEF Shown
  <2>3. subs' = [subs EXCEPT ![i] = sub] /\ view' = [view EXCEPT ![subs[i].by] = shown]
        /\ active' = active
    BY <1>5 DEF Stream!Respond, Stream!Shows, Stream!Seen
  <2>4. ~Stream!Ended(i) /\ Stream!Live(i)
    BY <1>3, <1>5 DEF Stream!Respond, Stream!Ended
  <2> HIDE DEF sub, shown
  <2> QED
    BY <2>1, <2>2, <2>3, <2>4, OneMoves DEF OrForgets, KeepsEnd
<1>6. ASSUME NEW i \in Stream!Ids, Stream!Event(i) PROVE StreamInv'
  <2> DEFINE was == view[subs[i].by]
             going == Stream!ShownEvent(was, "going")
             ended == [Stream!ShownEvent(was, "terminal") EXCEPT !.connected = FALSE]
             sub == [subs[i] EXCEPT !.at = "terminal"]
  <2>1. ~Stream!Ended(i) /\ Stream!Live(i) /\ subs[i].at = "open"
    BY <1>3, <1>6 DEF Stream!Event, Stream!Ended
  <2>2. going \in Shown /\ ended \in Shown /\ EndIsShown(ended)
    BY <1>4 DEF Shown, Stream!ShownEvent, EndIsShown
  <2>3. sub \in Subscription /\ sub.by = subs[i].by /\ sub.aborted = subs[i].aborted
        /\ sub.at = "terminal"
    BY <1>0 DEF Subscription
  <2>4. \/ /\ view' = [view EXCEPT ![subs[i].by] = IF was.mounted THEN going ELSE was]
           /\ subs' = subs /\ active' = active
        \/ /\ view' = [view EXCEPT ![subs[i].by] = IF was.mounted THEN ended ELSE was]
           /\ subs' = [subs EXCEPT ![i] = sub] /\ active' = IF active = i THEN 0 ELSE active
    BY <1>6 DEF Stream!Event, Stream!Shows, Stream!Seen, Stream!Forget
  <2> HIDE DEF going, ended, sub
  <2>5. CASE /\ view' = [view EXCEPT ![subs[i].by] = IF was.mounted THEN going ELSE was]
             /\ subs' = subs /\ active' = active
    <3>1. subs' = [subs EXCEPT ![i] = subs[i]]
      BY <1>0, <2>5 DEF Stream!Ids
    <3>2. (IF was.mounted THEN going ELSE was) \in Shown
      BY <1>4, <2>2
    <3> QED
      BY <1>0, <2>1, <2>5, <3>1, <3>2, OneMoves DEF OrForgets, KeepsEnd
  <2>6. CASE /\ view' = [view EXCEPT ![subs[i].by] = IF was.mounted THEN ended ELSE was]
             /\ subs' = [subs EXCEPT ![i] = sub] /\ active' = IF active = i THEN 0 ELSE active
    <3>1. /\ (IF was.mounted THEN ended ELSE was) \in Shown
          /\ EndIsShown(IF was.mounted THEN ended ELSE was)
      BY <1>4, <2>2 DEF EndIsShown
    <3> QED
      BY <2>1, <2>3, <2>6, <3>1, OneMoves DEF OrForgets, KeepsEnd
  <2> QED
    BY <2>4, <2>5, <2>6
<1>7. ASSUME NEW i \in Stream!Ids, Stream!Fail(i) PROVE StreamInv'
  <2> DEFINE was == view[subs[i].by]
             shown == [was EXCEPT !.connected = FALSE, !.error = TRUE, !.disconnected = TRUE]
             retried == [shown EXCEPT !.reconnecting = TRUE]
             waiting == [subs[i] EXCEPT !.at = "waiting", !.attempt = subs[i].attempt + 1]
             ended == [subs[i] EXCEPT !.at = "gave up"]
  <2>1. ~Stream!Ended(i) /\ Stream!Live(i)
    BY <1>3, <1>7 DEF Stream!Fail, Stream!Ended
  <2>2. shown \in Shown /\ retried \in Shown
    BY <1>4 DEF Shown
  <2>3. ended \in Subscription /\ ended.by = subs[i].by /\ ended.aborted = subs[i].aborted
        /\ ended.at = "gave up"
    BY <1>0 DEF Subscription
  <2>4. Stream!Retries(i) => waiting \in Subscription
    <3>1. subs[i] \in Subscription /\ subs[i].attempt \in 0..MaxAttempts
      BY <1>0 DEF Subscription
    <3>2. Stream!Retries(i) => subs[i].attempt + 1 \in 0..MaxAttempts
      BY <3>1, StreamAssumed DEF Stream!Retries
    <3> QED
      BY <3>1, <3>2 DEF Subscription
  <2>5. waiting.by = subs[i].by /\ waiting.aborted = subs[i].aborted /\ waiting.at = "waiting"
    BY <1>0 DEF Subscription
  <2>6. \/ /\ Stream!Retries(i) /\ subs' = [subs EXCEPT ![i] = waiting] /\ active' = active
           /\ view' = [view EXCEPT ![subs[i].by] = IF was.mounted THEN retried ELSE was]
        \/ /\ view' = [view EXCEPT ![subs[i].by] = IF was.mounted THEN shown ELSE was]
           /\ subs' = [subs EXCEPT ![i] = ended] /\ active' = IF active = i THEN 0 ELSE active
    BY <1>7 DEF Stream!Fail, Stream!Shows, Stream!Seen, Stream!Forget
  <2> HIDE DEF shown, retried, waiting, ended
  <2>7. (IF was.mounted THEN retried ELSE was) \in Shown /\ (IF was.mounted THEN shown ELSE was) \in Shown
    BY <1>4, <2>2
  <2>8. CASE /\ Stream!Retries(i) /\ subs' = [subs EXCEPT ![i] = waiting] /\ active' = active
             /\ view' = [view EXCEPT ![subs[i].by] = IF was.mounted THEN retried ELSE was]
    BY <2>1, <2>4, <2>5, <2>7, <2>8, OneMoves DEF OrForgets, KeepsEnd
  <2>9. CASE /\ view' = [view EXCEPT ![subs[i].by] = IF was.mounted THEN shown ELSE was]
             /\ subs' = [subs EXCEPT ![i] = ended] /\ active' = IF active = i THEN 0 ELSE active
    BY <2>1, <2>3, <2>7, <2>9, OneMoves DEF OrForgets, KeepsEnd
  <2> QED
    BY <2>6, <2>8, <2>9
<1>8. ASSUME NEW i \in Stream!Ids, Stream!Wake(i) PROVE StreamInv'
  <2> DEFINE sub == [subs[i] EXCEPT !.at = "fetching"]
  <2>1. sub \in Subscription /\ sub.by = subs[i].by /\ sub.aborted = subs[i].aborted
        /\ sub.at = "fetching"
    BY <1>0 DEF Subscription
  <2>2. subs' = [subs EXCEPT ![i] = sub] /\ active' = active
        /\ view' = [view EXCEPT ![subs[i].by] = view[subs[i].by]]
    BY <1>0, <1>8 DEF Stream!Wake
  <2>3. ~Stream!Ended(i) /\ Stream!Live(i)
    BY <1>3, <1>8 DEF Stream!Wake, Stream!Ended
  <2> HIDE DEF sub
  <2> QED
    BY <1>4, <2>1, <2>2, <2>3, OneMoves DEF OrForgets, KeepsEnd
<1>9. ASSUME NEW i \in Stream!Ids, Stream!Stop(i) PROVE StreamInv'
  <2> DEFINE sub == [subs[i] EXCEPT !.at = "stopped"]
             was == view[subs[i].by]
             shown == IF subs[i].at = "open" /\ was.mounted THEN [was EXCEPT !.connected = FALSE] ELSE was
  <2>1. sub \in Subscription /\ sub.by = subs[i].by /\ sub.aborted = subs[i].aborted
        /\ sub.at = "stopped"
    BY <1>0 DEF Subscription
  <2>2. /\ shown \in Shown /\ shown.mounted = was.mounted /\ shown.progress = was.progress
        /\ shown.error = was.error /\ shown.disconnected = was.disconnected
    BY <1>4 DEF Shown
  <2>3. /\ subs' = [subs EXCEPT ![i] = sub] /\ ~Stream!Ended(i)
        /\ active' = IF active = i THEN 0 ELSE active
    BY <1>9 DEF Stream!Stop, Stream!Forget
  <2>4. view' = [view EXCEPT ![subs[i].by] = shown]
    <3>1. CASE subs[i].at = "open"
      BY <1>9, <3>1 DEF Stream!Stop, Stream!Shows, Stream!Seen
    <3>2. CASE subs[i].at # "open"
      BY <1>0, <1>9, <3>2 DEF Stream!Stop
    <3> QED
      BY <3>1, <3>2
  <2> HIDE DEF sub, shown
  <2> QED
    BY <2>1, <2>2, <2>3, <2>4, OneMoves DEF OrForgets, KeepsEnd
<1> QED
  BY <1>1, <1>2, <1>5, <1>6, <1>7, <1>8, <1>9 DEF Stream!Next

-----------------------------------------------------------------------------
(* The chats.                                                               *)

TwoKeysProofs == INSTANCE ChatSessionsProofs WITH
  Asks <- {"a", "b", "c"}, Notes <- {}, MaxExpiries <- 1,
  Key <- [x \in {"a", "b", "c"} |-> IF x = "c" THEN "l" ELSE "k"],
  Question <- [x \in {"a", "b", "c"} |-> IF x = "c" THEN "other" ELSE "one"]
OneKeyProofs == INSTANCE ChatSessionsProofs WITH
  Asks <- {"a", "b", "c"}, Notes <- {"n"}, MaxExpiries <- 1,
  Key <- [x \in {"a", "b", "c"} |-> "k"],
  Question <- [x \in {"a", "b", "c"} |-> IF x = "c" THEN "other" ELSE "one"]

\* The chats of the run are those of the proofs.
LEMMA TwoKeysSame ==
  /\ TwoKeys!ChatAssumption <=> TwoKeysProofs!ChatAssumption
  /\ TwoKeys!Init <=> TwoKeysProofs!Init
  /\ TwoKeys!StoredOncePerKey <=> TwoKeysProofs!StoredOncePerKey
  /\ TwoKeys!SameAnswer <=> TwoKeysProofs!SameAnswer
  /\ TwoKeys!TurnsDoNotInterleave <=> TwoKeysProofs!TurnsDoNotInterleave
<1>1. TwoKeys!ChatAssumption <=> TwoKeysProofs!ChatAssumption
  BY DEF TwoKeys!ChatAssumption, TwoKeysProofs!ChatAssumption,
         TwoKeys!Refusals, TwoKeysProofs!Refusals
<1>2. TwoKeys!Init <=> TwoKeysProofs!Init
  BY DEF TwoKeys!Init, TwoKeysProofs!Init, TwoKeys!Keys, TwoKeysProofs!Keys,
         TwoKeys!Clients, TwoKeysProofs!Clients
<1>3. TwoKeys!StoredTurns = TwoKeysProofs!StoredTurns /\ TwoKeys!Keys = TwoKeysProofs!Keys
  BY DEF TwoKeys!StoredTurns, TwoKeysProofs!StoredTurns, TwoKeys!Spoken, TwoKeysProofs!Spoken,
         TwoKeys!Keys, TwoKeysProofs!Keys
<1>4. TwoKeys!StoredOncePerKey <=> TwoKeysProofs!StoredOncePerKey
  BY DEF TwoKeys!StoredOncePerKey, TwoKeysProofs!StoredOncePerKey, TwoKeys!Keys,
         TwoKeysProofs!Keys, TwoKeys!StoredTurns, TwoKeysProofs!StoredTurns,
         TwoKeys!Spoken, TwoKeysProofs!Spoken, TwoKeys!Cardinality, TwoKeysProofs!Cardinality
<1>5. TwoKeys!SameAnswer <=> TwoKeysProofs!SameAnswer
  BY DEF TwoKeys!SameAnswer, TwoKeysProofs!SameAnswer, TwoKeys!Answers, TwoKeysProofs!Answers
<1>6. TwoKeys!TurnsDoNotInterleave <=> TwoKeysProofs!TurnsDoNotInterleave
  BY <1>3 DEF TwoKeys!TurnsDoNotInterleave, TwoKeysProofs!TurnsDoNotInterleave,
         TwoKeys!Spoken, TwoKeysProofs!Spoken
<1> QED
  BY <1>1, <1>2, <1>4, <1>5, <1>6

LEMMA TwoKeysNext == TwoKeys!Next => TwoKeysProofs!Next
BY DEF TwoKeys!Next, TwoKeysProofs!Next, TwoKeys!Receive, TwoKeysProofs!Receive,
 TwoKeys!Lookup, TwoKeysProofs!Lookup, TwoKeys!Generate, TwoKeysProofs!Generate,
 TwoKeys!Begin, TwoKeysProofs!Begin, TwoKeys!FindStored, TwoKeysProofs!FindStored,
 TwoKeys!FindDeleted, TwoKeysProofs!FindDeleted, TwoKeys!Answer, TwoKeysProofs!Answer,
 TwoKeys!Commit, TwoKeysProofs!Commit, TwoKeys!RollBack, TwoKeysProofs!RollBack,
 TwoKeys!Expire, TwoKeysProofs!Expire, TwoKeys!Post, TwoKeysProofs!Post,
 TwoKeys!StoreNote, TwoKeysProofs!StoreNote, TwoKeys!Delete, TwoKeysProofs!Delete,
 TwoKeys!CleanUp, TwoKeysProofs!CleanUp, TwoKeys!Lapse, TwoKeysProofs!Lapse,
 TwoKeys!Keys, TwoKeysProofs!Keys, TwoKeys!Reply, TwoKeysProofs!Reply,
 TwoKeys!Proceed, TwoKeysProofs!Proceed, TwoKeys!stored, TwoKeysProofs!stored,
 TwoKeys!Aborted, TwoKeysProofs!Aborted, TwoKeys!Current, TwoKeysProofs!Current,
 TwoKeys!Replay, TwoKeysProofs!Replay, TwoKeys!LockSession, TwoKeysProofs!LockSession,
 TwoKeys!Turn, TwoKeysProofs!Turn

LEMMA OneKeySame ==
  /\ OneKey!ChatAssumption <=> OneKeyProofs!ChatAssumption
  /\ OneKey!Init <=> OneKeyProofs!Init
  /\ OneKey!StoredOncePerKey <=> OneKeyProofs!StoredOncePerKey
  /\ OneKey!SameAnswer <=> OneKeyProofs!SameAnswer
  /\ OneKey!AnswersAreStored <=> OneKeyProofs!AnswersAreStored
<1>1. OneKey!ChatAssumption <=> OneKeyProofs!ChatAssumption
  BY DEF OneKey!ChatAssumption, OneKeyProofs!ChatAssumption,
         OneKey!Refusals, OneKeyProofs!Refusals
<1>2. OneKey!Init <=> OneKeyProofs!Init
  BY DEF OneKey!Init, OneKeyProofs!Init, OneKey!Keys, OneKeyProofs!Keys,
         OneKey!Clients, OneKeyProofs!Clients
<1>3. OneKey!StoredTurns = OneKeyProofs!StoredTurns /\ OneKey!Keys = OneKeyProofs!Keys
  BY DEF OneKey!StoredTurns, OneKeyProofs!StoredTurns, OneKey!Spoken, OneKeyProofs!Spoken,
         OneKey!Keys, OneKeyProofs!Keys
<1>4. OneKey!StoredOncePerKey <=> OneKeyProofs!StoredOncePerKey
  BY DEF OneKey!StoredOncePerKey, OneKeyProofs!StoredOncePerKey, OneKey!Keys,
         OneKeyProofs!Keys, OneKey!StoredTurns, OneKeyProofs!StoredTurns,
         OneKey!Spoken, OneKeyProofs!Spoken, OneKey!Cardinality, OneKeyProofs!Cardinality
<1>5. OneKey!SameAnswer <=> OneKeyProofs!SameAnswer
  BY DEF OneKey!SameAnswer, OneKeyProofs!SameAnswer, OneKey!Answers, OneKeyProofs!Answers
<1>6. OneKey!AnswersAreStored <=> OneKeyProofs!AnswersAreStored
  BY DEF OneKey!AnswersAreStored, OneKeyProofs!AnswersAreStored,
         OneKey!Spoken, OneKeyProofs!Spoken, OneKey!Answers, OneKeyProofs!Answers
<1> QED
  BY <1>1, <1>2, <1>4, <1>5, <1>6

LEMMA OneKeyNext == OneKey!Next => OneKeyProofs!Next
BY DEF OneKey!Next, OneKeyProofs!Next, OneKey!Receive, OneKeyProofs!Receive,
 OneKey!Lookup, OneKeyProofs!Lookup, OneKey!Generate, OneKeyProofs!Generate,
 OneKey!Begin, OneKeyProofs!Begin, OneKey!FindStored, OneKeyProofs!FindStored,
 OneKey!FindDeleted, OneKeyProofs!FindDeleted, OneKey!Answer, OneKeyProofs!Answer,
 OneKey!Commit, OneKeyProofs!Commit, OneKey!RollBack, OneKeyProofs!RollBack,
 OneKey!Expire, OneKeyProofs!Expire, OneKey!Post, OneKeyProofs!Post,
 OneKey!StoreNote, OneKeyProofs!StoreNote, OneKey!Delete, OneKeyProofs!Delete,
 OneKey!CleanUp, OneKeyProofs!CleanUp, OneKey!Lapse, OneKeyProofs!Lapse,
 OneKey!Keys, OneKeyProofs!Keys, OneKey!Reply, OneKeyProofs!Reply,
 OneKey!Proceed, OneKeyProofs!Proceed, OneKey!stored, OneKeyProofs!stored,
 OneKey!Aborted, OneKeyProofs!Aborted, OneKey!Current, OneKeyProofs!Current,
 OneKey!Replay, OneKeyProofs!Replay, OneKey!LockSession, OneKeyProofs!LockSession,
 OneKey!Turn, OneKeyProofs!Turn

-----------------------------------------------------------------------------
(* What holds of them.                                                      *)

ChatsInv ==
  /\ part = "two keys" => TwoKeysProofs!Inv
  /\ part = "one key" => OneKeyProofs!Inv

LEMMA ChatsBegin == Init => ChatsInv
<1>1. TwoKeysProofs!ChatAssumption /\ OneKeyProofs!ChatAssumption
  BY RecordsAssumption, TwoKeysSame, OneKeySame
<1>2. ASSUME Init, part = "two keys" PROVE TwoKeysProofs!Inv
  <2>1. TwoKeys!Init
    BY <1>2 DEF Init
  <2> QED
    BY <1>1, <2>1, TwoKeysSame, TwoKeysProofs!InitInv
<1>3. ASSUME Init, part = "one key" PROVE OneKeyProofs!Inv
  <2>1. OneKey!Init
    BY <1>3 DEF Init
  <2> QED
    BY <1>1, <2>1, OneKeySame, OneKeyProofs!InitInv
<1> QED
  BY <1>2, <1>3 DEF ChatsInv

LEMMA ChatsStep == ChatsInv /\ [Next]_vars => ChatsInv'
<1> SUFFICES ASSUME ChatsInv, [Next]_vars PROVE ChatsInv'
  OBVIOUS
<1>1. TwoKeysProofs!ChatAssumption /\ OneKeyProofs!ChatAssumption
  BY RecordsAssumption, TwoKeysSame, OneKeySame
<1>2. \/ part = "two keys" /\ TwoKeys!Next /\ part' = part
      \/ part = "one key" /\ OneKey!Next /\ part' = part
      \/ UNCHANGED <<part, chatVars>>
  BY DEF Next, vars, Chatting, Living, Knowing, Leasing, Opening, Coordinating, Caching,
         Limiting, Streaming
<1>3. \/ part = "two keys" /\ TwoKeysProofs!Next /\ part' = part
      \/ part = "one key" /\ OneKeyProofs!Next /\ part' = part
      \/ UNCHANGED <<part, TwoKeysProofs!vars, OneKeyProofs!vars>>
  BY <1>2, TwoKeysNext, OneKeyNext DEF chatVars, TwoKeysProofs!vars, OneKeyProofs!vars
<1>4. part' = part
  BY <1>3
<1>5. ASSUME part = "two keys" PROVE TwoKeysProofs!Inv'
  BY <1>1, <1>3, <1>5, TwoKeysProofs!InvStep DEF ChatsInv
<1>6. ASSUME part = "one key" PROVE OneKeyProofs!Inv'
  BY <1>1, <1>3, <1>6, OneKeyProofs!InvStep DEF ChatsInv
<1> QED
  BY <1>4, <1>5, <1>6 DEF ChatsInv

LEMMA ChatsSay == ChatsInv => TurnsAreStoredOnce
<1> SUFFICES ASSUME ChatsInv PROVE TurnsAreStoredOnce
  OBVIOUS
<1>1. TwoKeysProofs!ChatAssumption /\ OneKeyProofs!ChatAssumption
  BY RecordsAssumption, TwoKeysSame, OneKeySame
<1>2. ASSUME part = "two keys"
      PROVE  TwoKeys!StoredOncePerKey /\ TwoKeys!SameAnswer /\ TwoKeys!TurnsDoNotInterleave
  <2>1. TwoKeysProofs!Inv
    BY <1>2 DEF ChatsInv
  <2>2. TwoKeysProofs!SameAnswer /\ TwoKeysProofs!TurnsDoNotInterleave
    BY <2>1 DEF TwoKeysProofs!Inv
  <2> QED
    BY <1>1, <2>1, <2>2, TwoKeysSame, TwoKeysProofs!CountBounds
<1>3. ASSUME part = "one key"
      PROVE  OneKey!StoredOncePerKey /\ OneKey!SameAnswer /\ OneKey!AnswersAreStored
  <2>1. OneKeyProofs!Inv
    BY <1>3 DEF ChatsInv
  <2>2. OneKeyProofs!SameAnswer /\ OneKeyProofs!AnswersAreStored
    BY <2>1 DEF OneKeyProofs!Inv
  <2> QED
    BY <1>1, <2>1, <2>2, OneKeySame, OneKeyProofs!CountBounds
<1> QED
  BY <1>2, <1>3 DEF TurnsAreStoredOnce

-----------------------------------------------------------------------------
(* All parts together.                                                      *)

RecordsInv ==
  /\ ChatsInv
  /\ part = "deleted" => LifecycleInv(Twice, Retention, 0) /\ KeptInv
  /\ part = "crashed" => LifecycleInv(Deletions, 1, Crashes) /\ KeptInv
  /\ part = "kept" => KnowledgeInv(Kept)
  /\ part = "remembered" => KnowledgeInv(Remembered)
  /\ part = "leased" => LendingInv(Leased)
  /\ part = "collected" => LendingInv(Collected)
  /\ part = "contended" => LendingInv(Contended)
  /\ part = "opened" => SessionInv
  /\ part = "overlapping" => CoordinationInv(Overlapping)
  /\ part = "alone" => CoordinationInv(Alone)
  /\ part = "cached" => CacheInv
  /\ part = "limited" => LimiterInv
  /\ part = "stream" => StreamInv

LEMMA PartsAssumed ==
  /\ Lifecycle(Twice, Retention, 0)!LifecycleAssumption
  /\ Lifecycle(Deletions, 1, Crashes)!LifecycleAssumption
  /\ Knowledge(Kept)!KnowledgeAssumption /\ Knowledge(Remembered)!KnowledgeAssumption
  /\ Remembered.collections = 0
  /\ Lending(Leased)!SandboxAssumption /\ Lending(Collected)!SandboxAssumption
  /\ Lending(Contended)!SandboxAssumption
  /\ CoordinationAssumed(Overlapping) /\ CoordinationAssumed(Alone)
<1>1. Remembered.collections = 0 /\ OneCaller(Alone)
  BY DEF Remembered, OneCaller, Alone
<1>2. Overlapping.collections = 0 \/ OneCaller(Overlapping)
  BY RecordsAssumption DEF Overlapping, OneCaller
<1> QED
  BY <1>1, <1>2, RecordsAssumption DEF CoordinationAssumed

LEMMA RecordsBegin == Init => RecordsInv
<1> SUFFICES ASSUME Init PROVE RecordsInv
  OBVIOUS
<1>1. /\ part = "deleted" => Lifecycle(Twice, Retention, 0)!Init
      /\ part = "crashed" => Lifecycle(Deletions, 1, Crashes)!Init
  BY DEF Init
<1>2. /\ part = "kept" => Knowledge(Kept)!Init
      /\ part = "remembered" => Knowledge(Remembered)!Init
  BY DEF Init
<1>3. /\ part = "leased" => Lending(Leased)!Init
      /\ part = "collected" => Lending(Collected)!Init
      /\ part = "contended" => Lending(Contended)!Init
  BY DEF Init
<1>4. /\ part = "overlapping" => Coordination(Overlapping)!Init
      /\ part = "alone" => Coordination(Alone)!Init
  BY DEF Init
<1>5. /\ part = "opened" => Opened!Init
      /\ part = "cached" => Cached!Init
      /\ part = "limited" => Limited!Init
      /\ part = "stream" => Stream!Init
  BY DEF Init
<1>6. /\ part = "deleted" => LifecycleInv(Twice, Retention, 0) /\ KeptInv
      /\ part = "crashed" => LifecycleInv(Deletions, 1, Crashes) /\ KeptInv
  BY <1>1, PartsAssumed, LifecycleBegins, KeptBegins
<1>7. /\ part = "kept" => KnowledgeInv(Kept)
      /\ part = "remembered" => KnowledgeInv(Remembered)
  BY <1>2, PartsAssumed, KnowledgeBegins
<1>8. /\ part = "leased" => LendingInv(Leased)
      /\ part = "collected" => LendingInv(Collected)
      /\ part = "contended" => LendingInv(Contended)
  BY <1>3, PartsAssumed, LendingBegins
<1>9. /\ part = "overlapping" => CoordinationInv(Overlapping)
      /\ part = "alone" => CoordinationInv(Alone)
  BY <1>4, PartsAssumed, CoordinationBegins
<1> QED
  BY <1>5, <1>6, <1>7, <1>8, <1>9, ChatsBegin, SessionBegins, CacheBegins, LimiterBegins, StreamBegins
  DEF RecordsInv

\* A part that nothing happens to.
LEMMA PartsStay ==
  /\ UNCHANGED lifecycleVars =>
       (KeptInv => KeptInv') /\ \A Q, k, n : LifecycleInv(Q, k, n) => LifecycleInv(Q, k, n)'
  /\ UNCHANGED knowledgeVars => \A v : KnowledgeInv(v) => KnowledgeInv(v)'
  /\ UNCHANGED sandboxVars => \A v : LendingInv(v) => LendingInv(v)'
  /\ UNCHANGED sessionVars => (SessionInv => SessionInv')
  /\ UNCHANGED coordinatorVars => \A v : CoordinationInv(v) => CoordinationInv(v)'
  /\ UNCHANGED cacheVars => (CacheInv => CacheInv')
  /\ UNCHANGED limiterVars => (LimiterInv => LimiterInv')
  /\ UNCHANGED streamVars => (StreamInv => StreamInv')
<1>1. UNCHANGED lifecycleVars =>
        (KeptInv => KeptInv') /\ \A Q, k, n : LifecycleInv(Q, k, n) => LifecycleInv(Q, k, n)'
  BY DEF lifecycleVars, LifecycleInv, LifecycleKinds, LivesInv, ClaimsInv, SeenInv, CheckoutsInv,
         KeptInv, ClaimedBy
<1>2. UNCHANGED knowledgeVars => \A v : KnowledgeInv(v) => KnowledgeInv(v)'
  BY DEF knowledgeVars, KnowledgeInv, KnowledgeKinds, EntryInHand, MemoryInHand, MemoriesInv, SaysOf
<1>3. UNCHANGED sandboxVars => \A v : LendingInv(v) => LendingInv(v)'
  <2> SUFFICES ASSUME UNCHANGED sandboxVars, NEW v, LendingInv(v) PROVE LendingInv(v)'
    OBVIOUS
  <2>0. UNCHANGED <<sandbox, leaseRows, standing, clock, leasing, claim, starting, starts, sandboxes>>
    BY DEF sandboxVars
  <2>1. LendingKinds(v)'
    BY <2>0 DEF LendingInv, LendingKinds
  <2>2. RowsInv(v)' /\ GoneInv(v)' /\ QuotaInv(v)' /\ ListedInv(v)'
    BY <2>0 DEF LendingInv, RowsInv, GoneInv, QuotaInv, LeasedNow, Acquiring, ListedInv
  <2>3. ASSUME NEW w \in v.workers PROVE PendingInv(v, w)' /\ ClaimFits(w, claim[w])'
    BY <2>0 DEF LendingInv, PendingInv, SaveFits, MadeFrom, ClaimFits, IsOpenLease
  <2> QED
    BY <2>0, <2>1, <2>2, <2>3 DEF LendingInv
<1>4. UNCHANGED sessionVars => (SessionInv => SessionInv')
  BY DEF sessionVars, SessionInv, SessionKinds, FromItsRow
<1>5. UNCHANGED coordinatorVars => \A v : CoordinationInv(v) => CoordinationInv(v)'
  BY DEF coordinatorVars, CoordinationInv, CoordinationKinds, CallsApart, RowFollows
<1>6. UNCHANGED cacheVars => (CacheInv => CacheInv')
  BY DEF cacheVars, CacheInv
<1>7. UNCHANGED limiterVars => (LimiterInv => LimiterInv')
  BY DEF limiterVars, LimiterInv, LimiterKinds, ThroughAsCounted
<1>8. UNCHANGED streamVars => (StreamInv => StreamInv')
  <2> SUFFICES ASSUME subs' = subs, active' = active, view' = view, StreamInv PROVE StreamInv'
    BY DEF streamVars
  <2>1. StreamKinds'
    BY DEF StreamInv, StreamKinds
  <2>2. LiveIsActive'
    BY DEF StreamInv, LiveIsActive, Stream!Ids, Stream!Live, Stream!Ended, Stream!Current
  <2>3. Stream!EndShown'
    BY DEF StreamInv, Stream!EndShown, Stream!Ids, Stream!Current
  <2> QED
    BY <2>1, <2>2, <2>3 DEF StreamInv
<1> QED
  BY <1>1, <1>2, <1>3, <1>4, <1>5, <1>6, <1>7, <1>8

\* What the part at work promises of its step.
Steps ==
  /\ part = "deleted" => /\ Lifecycle(Twice, Retention, 0)!PublishesIntoItsLife
                         /\ Lifecycle(Twice, Retention, 0)!DeletesWhatItSaw
                         /\ Lifecycle(Twice, Retention, 0)!KeepsPublished
  /\ part = "crashed" => /\ Lifecycle(Deletions, 1, Crashes)!PublishesIntoItsLife
                         /\ Lifecycle(Deletions, 1, Crashes)!DeletesWhatItSaw
                         /\ Lifecycle(Deletions, 1, Crashes)!KeepsPublished
  /\ part = "kept" => KnowledgeActs(Kept)
  /\ part = "remembered" => KnowledgeActs(Remembered)
  /\ part = "leased" => LendingActs(Leased)
  /\ part = "collected" => LendingActs(Collected)
  /\ part = "contended" => LendingActs(Contended)
  /\ part = "opened" => Opened!CompletesOwn /\ Opened!HistoryGrows /\ Opened!ArchivedStays
  /\ part = "overlapping" => CoordinationActs(Overlapping)
  /\ part = "alone" => CoordinationActs(Alone)
  /\ part = "limited" => Limited!CountsEach

LEMMA RecordsStep == RecordsInv /\ [Next]_vars => RecordsInv' /\ [Steps]_vars
<1> SUFFICES ASSUME RecordsInv, [Next]_vars PROVE RecordsInv' /\ [Steps]_vars
  OBVIOUS
<1>0. ChatsInv'
  BY ChatsStep DEF RecordsInv
<1>1. CASE Chatting
  <2>1. part' = part /\ part \in {"two keys", "one key"}
    BY <1>1 DEF Chatting
  <2> QED
    BY <1>0, <2>1 DEF RecordsInv, Steps
<1>2. CASE Living
  <2>1. /\ part' = part
        /\ \/ part = "deleted" /\ Lifecycle(Twice, Retention, 0)!Next
           \/ part = "crashed" /\ Lifecycle(Deletions, 1, Crashes)!Next
    BY <1>2 DEF Living
  <2>2. part = "deleted" => LifecycleInv(Twice, Retention, 0)' /\ KeptInv'
                            /\ Lifecycle(Twice, Retention, 0)!PublishesIntoItsLife
                            /\ Lifecycle(Twice, Retention, 0)!DeletesWhatItSaw
                            /\ Lifecycle(Twice, Retention, 0)!KeepsPublished
    BY <2>1, PartsAssumed, LifecycleStep, KeptStep, LifecycleActs, CheckoutsKept DEF RecordsInv
  <2>3. part = "crashed" => LifecycleInv(Deletions, 1, Crashes)' /\ KeptInv'
                            /\ Lifecycle(Deletions, 1, Crashes)!PublishesIntoItsLife
                            /\ Lifecycle(Deletions, 1, Crashes)!DeletesWhatItSaw
                            /\ Lifecycle(Deletions, 1, Crashes)!KeepsPublished
    BY <2>1, PartsAssumed, LifecycleStep, KeptStep, LifecycleActs, CheckoutsKept DEF RecordsInv
  <2> QED
    BY <1>0, <2>1, <2>2, <2>3 DEF RecordsInv, Steps
<1>3. CASE Knowing
  <2>1. /\ part' = part
        /\ \/ part = "kept" /\ Knowledge(Kept)!Next
           \/ part = "remembered" /\ Knowledge(Remembered)!Next
    BY <1>3 DEF Knowing
  <2>2. /\ part = "kept" => KnowledgeInv(Kept)' /\ KnowledgeActs(Kept)
        /\ part = "remembered" => KnowledgeInv(Remembered)' /\ KnowledgeActs(Remembered)
    BY <2>1, PartsAssumed, KnowledgeStep DEF RecordsInv
  <2> QED
    BY <1>0, <2>1, <2>2 DEF RecordsInv, Steps
<1>4. CASE Leasing
  <2>1. /\ part' = part
        /\ \/ part = "leased" /\ Lending(Leased)!Next
           \/ part = "collected" /\ Lending(Collected)!Next
           \/ part = "contended" /\ Lending(Contended)!Next
    BY <1>4 DEF Leasing
  <2>2. /\ part = "leased" => LendingInv(Leased)' /\ LendingActs(Leased)
        /\ part = "collected" => LendingInv(Collected)' /\ LendingActs(Collected)
        /\ part = "contended" => LendingInv(Contended)' /\ LendingActs(Contended)
    BY <2>1, PartsAssumed, LendingStep DEF RecordsInv
  <2> QED
    BY <1>0, <2>1, <2>2 DEF RecordsInv, Steps
<1>5. CASE Opening
  <2>1. part' = part /\ part = "opened" /\ Opened!Next
    BY <1>5 DEF Opening
  <2> QED
    BY <1>0, <2>1, SessionStep, SessionActs DEF RecordsInv, Steps
<1>6. CASE Coordinating
  <2>1. /\ part' = part
        /\ \/ part = "overlapping" /\ Coordination(Overlapping)!Next
           \/ part = "alone" /\ Coordination(Alone)!Next
    BY <1>6 DEF Coordinating
  <2>2. /\ part = "overlapping" => CoordinationInv(Overlapping)' /\ CoordinationActs(Overlapping)
        /\ part = "alone" => CoordinationInv(Alone)' /\ CoordinationActs(Alone)
    BY <2>1, PartsAssumed, CoordinationStep DEF RecordsInv
  <2> QED
    BY <1>0, <2>1, <2>2 DEF RecordsInv, Steps
<1>7. CASE Caching
  <2>1. part' = part /\ part = "cached" /\ Cached!Next
    BY <1>7 DEF Caching
  <2> QED
    BY <1>0, <2>1, CacheStep DEF RecordsInv, Steps
<1>8. CASE Limiting
  <2>1. part' = part /\ part = "limited" /\ Limited!Next
    BY <1>8 DEF Limiting
  <2> QED
    BY <1>0, <2>1, LimiterStep, EachCounted DEF RecordsInv, Steps
<1>9. CASE Streaming
  <2>1. part' = part /\ part = "stream" /\ Stream!Next
    BY <1>9 DEF Streaming
  <2> QED
    BY <1>0, <2>1, StreamStep DEF RecordsInv, Steps
<1>10. CASE UNCHANGED vars
  <2>1. /\ part' = part
        /\ UNCHANGED <<lifecycleVars, knowledgeVars, sandboxVars, sessionVars, coordinatorVars,
                       cacheVars, limiterVars, streamVars>>
    BY <1>10 DEF vars
  <2>2. /\ KeptInv => KeptInv'
        /\ LifecycleInv(Twice, Retention, 0) => LifecycleInv(Twice, Retention, 0)'
        /\ LifecycleInv(Deletions, 1, Crashes) => LifecycleInv(Deletions, 1, Crashes)'
        /\ KnowledgeInv(Kept) => KnowledgeInv(Kept)'
        /\ KnowledgeInv(Remembered) => KnowledgeInv(Remembered)'
    BY <2>1, PartsStay
  <2>3. /\ LendingInv(Leased) => LendingInv(Leased)'
        /\ LendingInv(Collected) => LendingInv(Collected)'
        /\ LendingInv(Contended) => LendingInv(Contended)'
        /\ CoordinationInv(Overlapping) => CoordinationInv(Overlapping)'
        /\ CoordinationInv(Alone) => CoordinationInv(Alone)'
    BY <2>1, PartsStay
  <2>4. /\ SessionInv => SessionInv'
        /\ CacheInv => CacheInv'
        /\ LimiterInv => LimiterInv'
        /\ StreamInv => StreamInv'
    BY <2>1, PartsStay
  <2> QED
    BY <1>0, <1>10, <2>1, <2>2, <2>3, <2>4 DEF RecordsInv
<1> QED
  BY <1>1, <1>2, <1>3, <1>4, <1>5, <1>6, <1>7, <1>8, <1>9, <1>10 DEF Next

LEMMA RecordsAlways == Spec => []RecordsInv
BY RecordsBegin, RecordsStep, PTL DEF Spec

\* What the parts say of their states.
LEMMA PartsSay == ASSUME RecordsInv PROVE TypesKept /\ NothingOutlivesItsCause /\ WhatWasToldHolds
<1>1. /\ part = "deleted" => /\ Lifecycle(Twice, Retention, 0)!TypeOK
                             /\ Lifecycle(Twice, Retention, 0)!AnsweredAgainIsConnected
                             /\ Lifecycle(Twice, Retention, 0)!PublishedStays
      /\ part = "crashed" => /\ Lifecycle(Deletions, 1, Crashes)!TypeOK
                             /\ Lifecycle(Deletions, 1, Crashes)!AnsweredAgainIsConnected
  BY LifecycleSays DEF RecordsInv
<1>2. /\ part = "kept" => Knowledge(Kept)!TypeOK
      /\ part = "remembered" => Knowledge(Remembered)!TypeOK
  BY KnowledgeSays DEF RecordsInv
<1>3. /\ part = "leased" => /\ Lending(Leased)!TypeOK /\ Lending(Leased)!HeldIsLeased
                            /\ Lending(Leased)!NoneOfADeleted /\ Lending(Leased)!LeaseQuota
      /\ part = "collected" => /\ Lending(Collected)!TypeOK /\ Lending(Collected)!HeldIsLeased
                               /\ Lending(Collected)!NoneOfADeleted /\ Lending(Collected)!LeaseQuota
      /\ part = "contended" => /\ Lending(Contended)!TypeOK /\ Lending(Contended)!HeldIsLeased
                               /\ Lending(Contended)!NoneOfADeleted /\ Lending(Contended)!LeaseQuota
  BY PartsAssumed, LendingSays DEF RecordsInv
<1>4. /\ part = "overlapping" => /\ Coordination(Overlapping)!TypeOK
                                 /\ Coordination(Overlapping)!AnswersStand
      /\ part = "alone" => Coordination(Alone)!TypeOK /\ Coordination(Alone)!AnswersStand
  BY PartsAssumed, CoordinationSays DEF RecordsInv
<1>5. LimiterInv => Limited!LimitPerWindow
  BY DEF LimiterInv, ThroughAsCounted, Limited!LimitPerWindow
<1>6. part = "two keys" => TwoKeys!TypeOK
  BY DEF RecordsInv, ChatsInv, TwoKeysProofs!Inv, TwoKeysProofs!TypeOK, TwoKeys!TypeOK,
    TwoKeys!Message, TwoKeysProofs!Message, TwoKeys!Keys, TwoKeysProofs!Keys, TwoKeys!Clients,
    TwoKeysProofs!Clients, TwoKeys!Answers, TwoKeysProofs!Answers, TwoKeys!Refusals,
    TwoKeysProofs!Refusals
<1>7. part = "one key" => OneKey!TypeOK
  BY DEF RecordsInv, ChatsInv, OneKeyProofs!Inv, OneKeyProofs!TypeOK, OneKey!TypeOK,
    OneKey!Message, OneKeyProofs!Message, OneKey!Keys, OneKeyProofs!Keys, OneKey!Clients,
    OneKeyProofs!Clients, OneKey!Answers, OneKeyProofs!Answers, OneKey!Refusals,
    OneKeyProofs!Refusals
<1>8. TypesKept
  BY <1>1, <1>2, <1>3, <1>4, <1>6, <1>7, SessionSays, CacheSays, LimiterSays, StreamSays
  DEF RecordsInv, TypesKept
<1>9. NothingOutlivesItsCause
  BY <1>1, <1>3, <1>5, CacheSays, StreamSays DEF RecordsInv, NothingOutlivesItsCause
<1>10. WhatWasToldHolds
  BY <1>3, <1>4, CacheSays DEF RecordsInv, WhatWasToldHolds
<1> QED
  BY <1>8, <1>9, <1>10

\* Every part keeps the kinds of its state and the bounds its fields stand for:
\* versions of an entry, one open lease of a sandbox, recoveries and histories
\* that are cut, entries of a cache, rows locked by one request.
THEOREM TypesHold == Spec => []TypesKept
BY RecordsAlways, PartsSay, PTL

\* In every behaviour the turns of a chat are stored whole and once for their
\* key, answered as they are stored, and apart from each other.
THEOREM TurnsStoredOnce == Spec => []TurnsAreStoredOnce
<1>1. RecordsInv => TurnsAreStoredOnce
  BY ChatsSay DEF RecordsInv
<1> QED
  BY <1>1, RecordsAlways, PTL

\* A connection is answered again only for the repository that is connected, a
\* deleted repository's sandboxes are lent to nobody, one revision is cached and
\* none of those invalidated, a row lets through no more than the limit in its
\* window, and the one stream that is open is the one shown; for any number of
\* workers, requests, revisions and crashes.  That the published checkout is in
\* its place is said only where nothing has been deleted and all checkouts are
\* retained; LivesApart says what may take it away elsewhere.
THEOREM CausesStand == Spec => []NothingOutlivesItsCause
BY RecordsAlways, PartsSay, PTL

\* A worker whose lease has not expired has it in the database unless its
\* repository was deleted, the leases of an owner pass the quota by less than
\* the number of its workers (each counts before it leases, and nothing is
\* locked), a request waits for one load that serves it, and a caller was
\* answered with an execution that is stored as it was.
THEOREM ToldHolds == Spec => []WhatWasToldHolds
BY RecordsAlways, PartsSay, PTL

\* A step of one life changes nothing of another: publication, deletion, the
\* removal of a failed build's checkout, recovery at a start, completion of a
\* session's operation and the take-over of an execution.  A published checkout
\* disappears only by a deletion's cleanup, a worker of an earlier life, or a
\* collector that chose it before it was published.
THEOREM LivesApart == Spec => StepsOfTheirOwnLife
<1>1. Steps =>
        /\ part = "deleted" => /\ Lifecycle(Twice, Retention, 0)!PublishesIntoItsLife
                               /\ Lifecycle(Twice, Retention, 0)!DeletesWhatItSaw
                               /\ Lifecycle(Twice, Retention, 0)!KeepsPublished
        /\ part = "crashed" => /\ Lifecycle(Deletions, 1, Crashes)!PublishesIntoItsLife
                               /\ Lifecycle(Deletions, 1, Crashes)!DeletesWhatItSaw
                               /\ Lifecycle(Deletions, 1, Crashes)!KeepsPublished
        /\ part = "leased" => Lending(Leased)!RecoversOrStops
        /\ part = "collected" => Lending(Collected)!RecoversOrStops
        /\ part = "contended" => Lending(Contended)!RecoversOrStops
        /\ part = "opened" => Opened!CompletesOwn
        /\ part = "overlapping" => Coordination(Overlapping)!TakenOverAtStart
        /\ part = "alone" => Coordination(Alone)!TakenOverAtStart
  BY DEF Steps, LendingActs, CoordinationActs
<1> QED
  BY <1>1, RecordsAlways, RecordsStep, PTL DEF Spec, StepsOfTheirOwnLife

MemoriesKept == part = "remembered" => Knowledge(Remembered)!MemoriesMatch

\* Records are only added to and ends are final: an entry's versions, memories
\* that say what their versions say, histories, archived and released records,
\* and the count of a window.  A completed execution of the current revision is
\* lost only to the start of a call that had looked for it before it was
\* completed: by any number of callers while none is collected, by one caller at
\* a time otherwise.
THEOREM RecordsFinal == Spec => RecordsStand
<1>1. RecordsInv => MemoriesKept
  BY PartsAssumed, KnowledgeSays DEF RecordsInv, MemoriesKept
<1>2. [Next]_vars => part' = part
  BY DEF Next, vars, Chatting, Living, Knowing, Leasing, Opening, Coordinating, Caching,
         Limiting, Streaming
<1>3. Steps /\ part' = part /\ MemoriesKept' =>
        /\ part = "kept" => Knowledge(Kept)!AddsVersions /\ Knowledge(Kept)!KeepsArchived
                            /\ Knowledge(Kept)!ReplacesNoMemory
        /\ part = "remembered" =>
             /\ Knowledge(Remembered)!AddsVersions /\ Knowledge(Remembered)!KeepsArchived
             /\ Knowledge(Remembered)!ReplacesNoMemory /\ Knowledge(Remembered)!MemoriesMatch'
        /\ part = "leased" => Lending(Leased)!RevivesNone
        /\ part = "collected" => Lending(Collected)!RevivesNone
        /\ part = "contended" => Lending(Contended)!RevivesNone
        /\ part = "opened" => Opened!HistoryGrows /\ Opened!ArchivedStays
        /\ part = "overlapping" => Coordination(Overlapping)!StaysCompleted
        /\ part = "alone" => Coordination(Alone)!StaysCompleted
        /\ part = "limited" => Limited!CountsEach
  <2> SUFFICES ASSUME Steps, part' = part, MemoriesKept'
               PROVE  /\ part = "kept" => KnowledgeActs(Kept)
                      /\ part = "remembered" =>
                           KnowledgeActs(Remembered) /\ Knowledge(Remembered)!MemoriesMatch'
                      /\ part = "leased" => LendingActs(Leased)
                      /\ part = "collected" => LendingActs(Collected)
                      /\ part = "contended" => LendingActs(Contended)
                      /\ part = "opened" => Opened!HistoryGrows /\ Opened!ArchivedStays
                      /\ part = "overlapping" => CoordinationActs(Overlapping)
                      /\ part = "alone" => CoordinationActs(Alone)
                      /\ part = "limited" => Limited!CountsEach
    BY PartsAssumed DEF KnowledgeActs, LendingActs, CoordinationActs
  <2> QED
    BY DEF Steps, MemoriesKept
<1> QED
  BY <1>1, <1>2, <1>3, RecordsAlways, RecordsStep, PTL DEF Spec, RecordsStand
=============================================================================
