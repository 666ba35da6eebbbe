CONSTANTS
  Jobs = {j1}
  Revisions = {r1, r2}
  MaxAttempts = 2
  Retention = 1
  MaxPipelines = 2
  None = None
SPECIFICATION Spec
SYMMETRY Symmetry
PROPERTY LiveBuildIsKept
