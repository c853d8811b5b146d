SPECIFICATION Spec
CONSTANTS
  Conns = {c1, c2}
  Tabs = {t1, t2}
  Requests = {r1}
  Watcher = Watcher
  Cleaner = Cleaner
  NoTab = NoTab
  NoConn = NoConn
  Kinds = {"terminal", "logs"}
  Tickets = {"none", "live"}
  Sizes = {1, 2, 4}
  MaxReplay = 3
  QueueSize = 3
  MaxOutput = 3
SYMMETRY Symmetry
CONSTRAINT Scenarios
INVARIANTS
  RevokedLeavesNobody
  ControllerIsAttached
  OutputIsGapless
  ReplayIsLongestSuffix
PROPERTIES
  RevokedIsSilent
CHECK_DEADLOCK FALSE
