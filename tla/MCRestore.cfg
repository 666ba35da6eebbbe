CONSTANTS
  Jobs = {j1, j2, j3}
  Revisions = {r1, r2, r3}
  MaxAttempts = 2
  Retention = 1
  MaxPipelines = 2
  None = None
SPECIFICATION SpecTwicePublished
INVARIANTS CurrentIsComplete PreviousIsRestorable
