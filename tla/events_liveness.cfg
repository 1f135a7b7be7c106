SPECIFICATION FairSpec
CONSTANTS
  None = None
  dev = dev
  lead = lead
  d1 = d1
  l1 = l1
  k = k
  Card = {k}
  State <- SomeStates
  Dispatch <- SomeDispatch
  Role = {dev, lead}
  Coordinator = lead
  Content <- Passed
  Agent = {d1}
  RoleOf <- AgentRole
  Kinds = {"edit", "delete"}
  Early = {d1}
  MaxRev = 2
  MaxAssign = 1
  MaxCrashes = 1
  Incidents = {"age", "dies", "lark"}
INVARIANTS
  QuietConverges

  
CHECK_DEADLOCK FALSE
