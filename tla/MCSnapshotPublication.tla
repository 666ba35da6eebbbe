----------------------- MODULE MCSnapshotPublication -----------------------
(***************************************************************************)
(* SnapshotPublication for TLC: which job and which commit is which makes  *)
(* no difference.                                                          *)
(***************************************************************************)
EXTENDS SnapshotPublication, TLC

Symmetry == Permutations(Jobs) \cup Permutations(Revisions)

(***************************************************************************)
(* A state Spec reaches in two publications without a fault: the first job *)
(* has published the older revision and the second one the newer.  What a  *)
(* third job can do to the previous revision is checked from here, with    *)
(* retries and a third revision.                                           *)
(***************************************************************************)
Newer == CHOOSE r \in Revisions : TRUE
Older == CHOOSE r \in Revisions \ {Newer} : TRUE
Second == CHOOSE j \in Jobs : TRUE
First == CHOOSE j \in Jobs \ {Second} : TRUE

TwicePublished ==
  LET by(r) == IF r = Newer THEN Second ELSE First
      status(r) == IF r = Newer THEN "published" ELSE "superseded"
      shown == {Newer, Older}
  IN /\ jobs = [j \in Jobs |->
          IF j \in {First, Second} THEN [status |-> "succeeded", attempt |-> 1, lease |-> "none"]
          ELSE [status |-> "absent", attempt |-> 0, lease |-> "none"]]
     /\ repo = [current |-> Newer, previous |-> Older, publishing |-> None]
     /\ snapshots = [r \in Revisions |->
          IF r \in shown THEN [status |-> status(r), job |-> by(r)] ELSE NoSnapshot]
     /\ artifacts = shown
     /\ versions = [k \in Kinds |-> [r \in Revisions |->
          IF r \in shown THEN [status |-> status(r), job |-> by(r), content |-> Whole]
          ELSE NoVersion]]
     /\ publications = [k \in Kinds |-> Newer]
     /\ pipelines = [e \in Executors |-> Ended]
     /\ recovering = FALSE

SpecTwicePublished == TwicePublished /\ [][Next]_vars
=============================================================================
