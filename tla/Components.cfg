SPECIFICATION MCSpec
CONSTANTS
  CacheKeys = {k1, k2, k3}
  Lookups = {l1, l2}
  NoCacheKey = NoCacheKey
  TTL = 2
  MaxEntries = 2
  MaxTime = 5
  Hosts = {h1, h2}
  Attempts = {a1}
  MaxTargets = 2
  SessionIds = {i1, i2}
  Calls = {r1, r2}
  Nobody = Nobody
  MaxSessions = 1
  MaxMade = 2
  Files <- MCFiles
  Invalid = Invalid
  Matching <- MCMatching
  HTTPMethods = {"GET"}
  Clients = {c1, c2}
  Reloads = {d1}
  MaxBuilt = 2
  Addrs = {x1, x2}
  TrustedAddrs = {x1}
  MaxConns = 2
  Masters = {p1, p2}
  NoMaster = NoMaster
  BadMaster = BadMaster
  MaxChunks = 3
INVARIANTS
  CacheBounded
  DefiniteIsComplete
  
  ActiveWithinLimit
  NoOrphanStream
  OwnFiltersRun
  ForwardedIsOwn
  MasterFollowed
  NothingLeftRegistered
  EOFOnce
  
PROPERTIES
  LiveLeavesLast
  RequestsReturn
  RelayEnds
  StreamEndReturns
  NoGoroutineLeft
CHECK_DEADLOCK FALSE
