CONSTANTS
  s1 = s1
  s2 = s2
  dev = dev
  lead = lead
  Session = {s1, s2}
  Record = {r1}
  Role = {dev, lead}
  RoleOf <- TwoRoles
  Turn = {t1}
  None = None
  MaxEvents = 2
  MaxCrashes = 0
  MaxAcceptedTurns = 3
  Deletable = {}
  Races = {}
SPECIFICATION Spec
INVARIANTS SessionExclusive CompletedIsConsumed
PROPERTIES Implements
CHECK_DEADLOCK FALSE
