SPECIFICATION Spec
CONSTANTS
  Ticks = {tick1}
  Kinds = {entity}
  Nobody = nobody
  NoRevision = none
  NoReply = noreply
  Broken = broken
  Revisions = {r1, r2, r3, r4, r5, r6}
  Late = {late}
  MaxAttempts = 2
  MaxBatches = 2
  MaxHome = 1
  MaxFailures = 1
  MaxRestarts = 0
CHECK_DEADLOCK FALSE
INVARIANTS
  RestAgrees
