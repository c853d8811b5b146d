SPECIFICATION Spec
CONSTANTS
  Keys = {k1}
  Callers = {g1}
  TraceKeys = {k1}
  Capabilities = {TRUE, FALSE}
  NoKey = NoKey
  MaxSessions = 2
  QueueCap = 1
INVARIANTS
  PayloadNeedsCapability
