------------------------------ MODULE JobLedger ------------------------------
(***************************************************************************)
(* What the indexing queue promises, with the workers, leases, clocks,     *)
(* crashes and lost answers left out: a job waits or is held under one     *)
(* number, a holding ends in exactly one outcome, every attempt is a       *)
(* holding of its own, and the revision a repository shows is the one of   *)
(* its latest successful holding.                                          *)
(***************************************************************************)
EXTENDS Integers

CONSTANTS Repos, Jobs, MaxAttempts, None

VARIABLES
  ledger,   \* the phase, repository, attempt and holding number of each job
  visible,  \* the holding whose revision each repository shows, 0 for none
  taken     \* holding numbers given out

vars == <<ledger, visible, taken>>

Phases == {"absent", "waiting", "held", "succeeded", "failed", "dead", "withdrawn"}

Entry(phase, r, attempt, holding) ==
  [phase |-> phase, repo |-> r, attempt |-> attempt, holding |-> holding]

Open(r) == {j \in Jobs : ledger[j].phase \in {"waiting", "held"} /\ ledger[j].repo = r}

Init ==
  /\ ledger = [j \in Jobs |-> Entry("absent", None, 0, 0)]
  /\ visible = [r \in Repos |-> 0]
  /\ taken = 0

\* A repository is given a job when it has none open.
Submit(j, r) ==
  /\ ledger[j].phase = "absent"
  /\ Open(r) = {}
  /\ ledger' = [ledger EXCEPT ![j] = Entry("waiting", r, 1, 0)]
  /\ UNCHANGED <<visible, taken>>

Take(j) ==
  /\ ledger[j].phase = "waiting"
  /\ taken' = taken + 1
  /\ ledger' = [ledger EXCEPT ![j] = Entry("held", @.repo, @.attempt, taken')]
  /\ UNCHANGED visible

\* Success and the change of the visible revision are one step.
Succeed(j) ==
  /\ ledger[j].phase = "held"
  /\ ledger' = [ledger EXCEPT ![j].phase = "succeeded"]
  /\ visible' = [visible EXCEPT ![ledger[j].repo] = ledger[j].holding]
  /\ UNCHANGED taken

Fail(j, phase) ==
  /\ ledger[j].phase = "held"
  /\ ledger' = [ledger EXCEPT ![j].phase = phase]
  /\ UNCHANGED <<visible, taken>>

NextAttempt(entry) == Entry("waiting", entry.repo, entry.attempt + 1, 0)

\* A failed job is tried again, unless its repository has been given another one.
Retry(j) ==
  /\ ledger[j].phase = "failed"
  /\ ledger[j].attempt < MaxAttempts
  /\ Open(ledger[j].repo) = {}
  /\ ledger' = [ledger EXCEPT ![j] = NextAttempt(ledger[j])]
  /\ UNCHANGED <<visible, taken>>

\* Abandoned holdings are taken back: a next attempt, or the end after the last one.
TakeBack(abandoned) ==
  /\ \A j \in abandoned : ledger[j].phase = "held"
  /\ ledger' = [j \in Jobs |->
                 IF j \notin abandoned THEN ledger[j]
                 ELSE IF ledger[j].attempt < MaxAttempts THEN NextAttempt(ledger[j])
                 ELSE [ledger[j] EXCEPT !.phase = "dead"]]
  /\ UNCHANGED <<visible, taken>>

\* A repository leaves with all its jobs.
Withdraw(r) ==
  /\ ledger' = [j \in Jobs |->
                 IF ledger[j].repo = r THEN Entry("withdrawn", None, 0, 0) ELSE ledger[j]]
  /\ visible' = [visible EXCEPT ![r] = 0]
  /\ UNCHANGED taken

Next ==
  \/ \E j \in Jobs :
       \/ \E r \in Repos : Submit(j, r)
       \/ Take(j) \/ Succeed(j) \/ Retry(j)
       \/ \E phase \in {"failed", "dead"} : Fail(j, phase)
  \/ \E abandoned \in SUBSET Jobs : TakeBack(abandoned)
  \/ \E r \in Repos : Withdraw(r)

Spec == Init /\ [][Next]_vars
=============================================================================
