SPECIFICATION OrderSpec
CONSTANTS
  Threads = {t1, t2}
  Snapshots = {s1}
  Revisions = {r1, r2, r3, r4}
  NoProfile = none
  MaxGeneration = 1
  MaxRestarts = 0
SYMMETRY Symmetry
INVARIANTS
  StaleUntilReplaced
