SPECIFICATION FairConnections
CONSTANTS
  Keys = {k1}
  Callers = {g1}
  TraceKeys = {}
  Capabilities = {FALSE}
  NoKey = NoKey
  MaxSessions = 2
  QueueCap = 1
PROPERTIES
  ImplementsStreams
  SlowClientIsClosed
