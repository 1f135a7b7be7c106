SPECIFICATION Spec
CONSTANTS
  Blank = Blank
  pm = pm
  tl1 = tl1
  tl2 = tl2
  qa1 = qa1
  Agent = {pm, tl1, tl2, qa1}
  RoleOf <- Staff
  Role <- Roles
  Coordinator = "pm"
  State <- States
  InitialState = "backlog"
  Terminal = {"done", "canceled"}
  Completion = {"done"}
  Dispatch <- Dispatches
  Required <- RequiredFieldsOf
  Rules <- Definition
  Runtime <- StopRule
  DefaultRole = "tl"
  Values <- FieldValues
  MaxEdits = 1
INVARIANTS
  TypeOK
  StateComplete
  OfferedAccepted
  RetryRecognised
  

  
CHECK_DEADLOCK FALSE
