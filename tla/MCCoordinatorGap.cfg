SPECIFICATION Spec
CONSTANTS
  Ticks = {tick1}
  Kinds = {entity}
  Revisions = {r1}
  NoRevision = none
  Nobody = nobody
  MaxAttempts = 2
  MaxBatches = 2
  MaxHome = 1
  MaxFailures = 0
CHECK_DEADLOCK FALSE
INVARIANTS
  WritableMapIsCurrent
