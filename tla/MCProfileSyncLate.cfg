SPECIFICATION Spec
CONSTANTS
  Ticks = {}
  Kinds = {entity}
  Nobody = nobody
  NoRevision = none
  NoReply = noreply
  Broken = broken
  Revisions = {r1, r2, r3, r4, r5, r6}
  Late = {late}
  MaxAttempts = 2
  MaxBatches = 1
  MaxHome = 2
  MaxFailures = 1
  MaxRestarts = 1
CHECK_DEADLOCK FALSE
INVARIANTS
  CoreIsNoOlder
