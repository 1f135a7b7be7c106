SPECIFICATION FairSpec
CONSTANTS
  None = None
  submit = submit
  block = block
  create = create
  t1 = t1
  t2 = t2
  Call = {submit, block, create}
  Kind <- CallKind
  From <- CallFrom
  To <- CallTo
  TurnOf <- CallTurn
  Delivered = {t1}
  Tries <- CallTries
  Status <- Statuses
  Start = "in_progress"
  MaxCrashes = 1
  MaxChanges = 1
  Incidents = {"edit", "toggle", "staff", "fails", "late"}
INVARIANTS
  TypeOK
  OneEffect
  NoLostUpdate
  SealedTurnQuiet
  DisableDrains
PROPERTIES
  DisableReturns
CHECK_DEADLOCK FALSE
