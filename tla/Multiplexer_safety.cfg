SPECIFICATION Spec
CONSTANTS
  Keys = {k1}
  Callers = {g1, g2}
  TraceKeys = {k1}
  Capabilities = {TRUE, FALSE}
  NoKey = NoKey
  MaxSessions = 2
  QueueCap = 1
SYMMETRY Symmetry
INVARIANTS
  TypeOK
  NoPanic
  NoStrandedClient
  RegistryHoldsNewest
  ConnectsStayHome
PROPERTIES
  EvictedByOwnShutdown
