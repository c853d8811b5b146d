SPECIFICATION MCSpec
CONSTANTS
  Keys = {k1, k2}
  Callers = {g1}
  TraceKeys = {}
  Capabilities = {FALSE}
  NoKey = NoKey
  MaxSessions = 1
  QueueCap = 1
  AgentKeys = {m1, m2}
  MaxHandlers = 2
  ChanCap = 1
INVARIANTS
  AgentNoPanic
PROPERTIES
  CallsReturn
  LinkEnds
CHECK_DEADLOCK FALSE
