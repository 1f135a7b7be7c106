SPECIFICATION Spec
CONSTANTS
  None = None
  dev = dev
  lead = lead
  d1 = d1
  l1 = l1
  k = k
  Card = {k}
  State <- SomeStates
  Dispatch <- SomeDispatch
  Role = {dev, lead}
  Coordinator = lead
  Content <- Passed
  Agent = {d1, l1}
  RoleOf <- AgentRole
  Kinds = {"edit"}
  Early = {d1, l1}
  MaxRev = 2
  MaxAssign = 1
  MaxCrashes = 0
  Incidents = {"down"}
INVARIANTS
  QuietConverges
  QuietDispatched
CHECK_DEADLOCK FALSE
