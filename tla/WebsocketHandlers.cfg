SPECIFICATION FairSpec
CONSTANTS
  Kinds = {"direct", "stats"}
  Tickets = {"none", "live"}
  MaxTargets = 2
INVARIANTS
  NothingLeftRegistered
  LastOneCloses
PROPERTIES
  EndReachesBrowser
  NoGoroutineLeft
  DenialEndsRequest
CHECK_DEADLOCK FALSE
