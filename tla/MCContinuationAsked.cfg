SPECIFICATION Spec
CONSTANTS
  Turns = {m1,m2,m3}
  Conversations = {c1}
  Users = {u1}
  Capabilities = {lock, cover}
  Risky = {lock, cover}
  Nothing = nothing
  MaxPending = 1
  MaxRevision = 0
CHECK_DEADLOCK FALSE
SYMMETRY Symmetry
INVARIANTS
  ConfirmsWhatWasAsked
