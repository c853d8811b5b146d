SPECIFICATION ManagerSpec
CONSTANTS
  SessionIds = {i1, i2}
  Calls = {r1}
  Nobody = Nobody
  MaxSessions = 1
  MaxMade = 2
INVARIANTS
  TotalSessionsBounded
CHECK_DEADLOCK FALSE
