SPECIFICATION FairSpec
CONSTANTS
  Ticks = {tick1}
  Kinds = {entity}
  Revisions = {r1}
  NoRevision = none
  Nobody = nobody
  MaxAttempts = 2
  MaxBatches = 2
  MaxHome = 3
  MaxFailures = 1
CHECK_DEADLOCK FALSE
INVARIANTS
  TypeOK
  FreshWrites
  NoEventForgotten
  LockDiscipline
PROPERTIES
  ImplementsWriteGate
  StaleEnds
