SPECIFICATION Spec
CONSTANTS
  None = None
  c0 = c0
  c1 = c1
  c2 = c2
  d1 = d1
  Commit = {c0, c1, c2, d1}
  Ancestors <- History
  First = c0
  Supplied = {c1, d1}
  Branch = {"feature"}
  Moves <- Transitions
  MaxMoves = 1
INVARIANTS
  DoneVerified
CHECK_DEADLOCK FALSE
