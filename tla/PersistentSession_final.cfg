SPECIFICATION Spec
CONSTANTS
  Conns = {}
  Tabs = {t1}
  Requests = {r1}
  Watcher = Watcher
  Cleaner = Cleaner
  NoTab = NoTab
  NoConn = NoConn
  Kinds = {"terminal"}
  Tickets = {"live"}
  Sizes = {1}
  MaxReplay = 1
  QueueSize = 3
  MaxOutput = 1
INVARIANTS
  FinalReplayKept
CHECK_DEADLOCK FALSE
