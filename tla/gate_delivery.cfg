SPECIFICATION Spec
CONSTANTS
  None = None
  c0 = c0
  c1 = c1
  c2 = c2
  d1 = d1
  Commit = {c0, c1, c2, d1}
  Ancestors <- History
  First = c0
  Supplied = {c1, d1}
  Branch = {"feature"}
  Moves <- Transitions
  MaxMoves = 3
INVARIANTS
  TypeOK
  ModeSettled
PROPERTIES
  CompletedInMain
  DeliveryFixed
CHECK_DEADLOCK FALSE
