CONSTANTS
  Jobs = {j1, j2}
  Revisions = {r1, r2}
  MaxAttempts = 1
  Retention = 1
  MaxPipelines = 2
  None = None
SPECIFICATION Spec
SYMMETRY Symmetry
INVARIANTS TypeOK CurrentIsComplete PublishingIsBuilt
PROPERTY LiveBuildIsKept
