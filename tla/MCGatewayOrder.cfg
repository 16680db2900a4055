SPECIFICATION OrderSpec
CONSTANTS
  Threads = {t1, t2}
  Snapshots = {s1}
  Revisions = {r1, r2, r3, r4}
  NoProfile = none
  MaxGeneration = 2
  MaxRestarts = 1
SYMMETRY Symmetry
INVARIANTS
  TypeOK
  RestoredNeverServes
  OnlyStraddlersAreLost
