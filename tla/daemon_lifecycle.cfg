SPECIFICATION FairSpec
CONSTANTS
  None = None
  e = e
  v = v
  s = s
  p1 = p1
  p2 = p2
  Client = {e, v, s}
  Op <- Operation
  Proc = {p1, p2}
  MaxFaults = 2
  Incidents = {"kill", "component", "interrupt", "slow", "late"}
INVARIANTS
  TypeOK
  ServingReachable
PROPERTIES
  StoppingEnds
  EnsureBringsUp
CHECK_DEADLOCK FALSE
