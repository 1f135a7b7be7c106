CONSTANTS
  s1 = s1
  s2 = s2
  dev = dev
  lead = lead
  Session = {s1}
  Record = {r1}
  Role = {dev}
  RoleOf <- OneRole
  Turn = {t1, t2}
  None = None
  MaxEvents = 1
  MaxCrashes = 1
  MaxAcceptedTurns = 3
  Deletable = {s1}
  Races = {}
SPECIFICATION FairSpec
INVARIANTS TypeOK NoDuplicateTurn
PROPERTIES TerminalStays CompletedTurnSettles Implements ClaimKept
CHECK_DEADLOCK FALSE
