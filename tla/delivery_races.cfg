CONSTANTS
  s1 = s1
  s2 = s2
  dev = dev
  lead = lead
  Session = {s1}
  Record = {r1}
  Role = {dev}
  RoleOf <- OneRole
  Turn = {t1}
  None = None
  MaxEvents = 1
  MaxCrashes = 0
  MaxAcceptedTurns = 3
  Deletable = {s1}
  Races = {"staleRow", "lateTool", "staleRead", "badFrame"}
SPECIFICATION Spec
INVARIANTS  CompletedIsConsumed
CHECK_DEADLOCK FALSE
