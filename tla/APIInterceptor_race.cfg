SPECIFICATION InterceptorSpec
CONSTANTS Files <- MCRaceFiles
 Invalid = Invalid
 Matching <- MCMatching
 HTTPMethods = {"GET", "POST"}
 Clients = {c1, c2}
 Reloads = {}
 MaxBuilt = 1
INVARIANTS MatchedFiltersRun
CHECK_DEADLOCK FALSE
