SPECIFICATION FairSpec
CONSTANTS
  Conns = {c1}
  Tabs = {t1}
  Requests = {}
  Watcher = Watcher
  Cleaner = Cleaner
  NoTab = NoTab
  NoConn = NoConn
  Kinds = {"terminal"}
  Tickets = {"none", "live"}
  Sizes = {1}
  MaxReplay = 1
  QueueSize = 3
  MaxOutput = 0
PROPERTIES
  TerminationEnds
  WatchEnds
  RevocationDisconnects
CHECK_DEADLOCK FALSE
