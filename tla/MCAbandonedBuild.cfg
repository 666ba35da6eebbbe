CONSTANTS
  Jobs = {j1}
  Revisions = {r1}
  MaxAttempts = 1
  Retention = 1
  MaxPipelines = 1
  None = None
SPECIFICATION Spec
SYMMETRY Symmetry
INVARIANTS AbandonedBuildsAreReleased
