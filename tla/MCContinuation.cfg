SPECIFICATION Spec
CONSTANTS
  Turns = {m1,m2,m3}
  Conversations = {c1,c2}
  Users = {u1,u2}
  Capabilities = {light, lock}
  Risky = {lock}
  Nothing = nothing
  MaxPending = 1
  MaxRevision = 1
CHECK_DEADLOCK FALSE
SYMMETRY Symmetry
INVARIANTS
  TypeOK
  OneAnswerPerQuestion
  RiskyWritesAreConfirmed
