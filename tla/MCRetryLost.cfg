SPECIFICATION FairSpec
CONSTANTS
  r1 = r1
  r2 = r2
  j1 = j1
  j2 = j2
  j3 = j3
  w1 = w1
  w2 = w2
  alice = alice
  None = None
  Users = {alice}
  OwnerOf <- MCOwnerOf
  Repos = {r1}
  Jobs = {j1, j2}
  Workers = {w1}
  MaxAttempts = 2
  MaxConcurrent = 2
  ClockSkew = FALSE
CHECK_DEADLOCK FALSE
PROPERTIES
  RetryableFailuresAreRequeued
