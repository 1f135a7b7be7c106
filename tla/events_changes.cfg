SPECIFICATION Spec
CONSTANTS
  None = None
  dev = dev
  lead = lead
  d1 = d1
  l1 = l1
  k = k
  k2 = k2
  Card = {k, k2}
  State <- SomeStates
  Dispatch <- SomeDispatch
  Role = {dev, lead}
  Coordinator = lead
  Content <- Passed
  Agent = {d1}
  RoleOf <- AgentRole
  Kinds = {"edit", "delete", "field"}
  Early = {d1}
  MaxRev = 2
  MaxAssign = 2
  MaxCrashes = 0
  Incidents = {"staff", "age"}
INVARIANTS
  TypeOK
  QuietConverges
  QuietDispatched
CHECK_DEADLOCK FALSE
