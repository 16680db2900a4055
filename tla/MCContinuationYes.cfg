SPECIFICATION Spec
CONSTANTS
  Turns = {m1,m2}
  Conversations = {c1}
  Users = {u1}
  Capabilities = {light, lock}
  Risky = {lock}
  Nothing = nothing
  MaxPending = 1
  MaxRevision = 0
CHECK_DEADLOCK FALSE
SYMMETRY Symmetry
INVARIANTS
  YesIsNotAskedAgain
