SPECIFICATION Spec
CONSTANTS
  Firsts = {x1, x2}
  Seconds = {y1, y2}
  Deletions = {"q1"}
  Retention = 2
  MaxJobs = 2
  Crashes = 1
  Entries = {"e1", "e2"}
  Memories = {"m1"}
  Facts = {"f"}
  OfEntry <- MCOfEntry
  OfVersion <- MCOfVersion
  ExpiresAt <- MCExpiresAt
  EntryQuota = 2
  VersionQuota = 3
  MemoryQuota = 2
  RetainedEntries = 1
  RetainedMemories = 1
  MaxTime = 0
  Removals = 1
  MaxHour = 1
  Sandboxes = {"s"}
  ActivePerOwner = 2
  LeasesPerOwner = 1
  LeaseTime = 2
  PreparationTimeout = 1
  RetainedSandboxes = 1
  RetainedRecoveries = 2
  MaxClock = 2
  Starts = 2
  MaxLives = 1
  MaxVersion = 4
  Sessions = {"s"}
  Revisions = {"r1", "r2"}
  Workflows = {"v"}
  RevisionOf <- MCRevisionOf
  WorkflowOf <- MCWorkflowOf
  Expiration = 1
  MaxHistory = 2
  MaxUpdates = 3
  Restarts = 1
  Stages <- MCStages
  Internal = {"impact verification"}
  MaxCalls = 2
  MaxRecoveries = 1
  MaxMoves = 2
  Collections = 0
  Repositories = {"p"}
  Requests = {x1, x2, "q"}
  MaxEntries = 1
  Limit = 1
  Window = 1
  Batch = 1
  MaxTries = 2
  MaxAttempts = 1
  MaxSubs = 3
  Never = Never
  None = None
SYMMETRY Symmetry
INVARIANTS
  TypesKept
  TurnsAreStoredOnce
  NothingOutlivesItsCause
  WhatWasToldHolds
PROPERTIES
  StepsOfTheirOwnLife
  RecordsStand
CHECK_DEADLOCK FALSE
