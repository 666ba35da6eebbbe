--------------------------- MODULE MCIndexingJobs ---------------------------
EXTENDS IndexingJobsImplementsLedger, TLC

CONSTANTS r1, r2, j1, j2, j3, w1, w2, alice

MCOwnerOf == [r \in Repos |-> alice]

Symmetry == Permutations(Repos) \cup Permutations(Jobs) \cup Permutations(Workers)
=============================================================================
