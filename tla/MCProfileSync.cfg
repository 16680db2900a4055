SPECIFICATION FairSpec
CONSTANTS
  Ticks = {tick1}
  Kinds = {entity}
  Nobody = nobody
  NoRevision = none
  NoReply = noreply
  Broken = broken
  Revisions = {r1, r2, r3, r4, r5, r6}
  Late = {}
  MaxAttempts = 1
  MaxBatches = 1
  MaxHome = 1
  MaxFailures = 1
  MaxRestarts = 1
CHECK_DEADLOCK FALSE
INVARIANTS
  TypeOK
  RestAgrees
PROPERTIES Recovers
