SPECIFICATION WorkersSpec
CONSTANTS
  Callers = {c1, c2} TTL = 2 MaxCall = 1 MaxTime = 6 Nil = Nil None = None
  Listed = {"e1", "e2", "e3"} Markets = {"m1", "m2", "m3"} Selections = {"s1", "s2"}
  EventOf <- MCEventOf MarketOf <- MCMarketOf UniqOf <- MCUniqOf Already = {"e1", "e3"}
  Named = {"e1", "e2"} WithCc = {"e1", "e3"} Workers = {1, 2} MaxRaises = 1 MaxOverlaps = 2
  Events = {"e"} OpenDate <- MCOpenDate Threads = {1, 2}
  Period <- MCPeriod Opens <- MCOpens NowEdge = 1 Horizon = 100 Tracked <- MCTracked
  Start = 2 Last = 4
  Names = {"Porto", "porto", "benfica", "Sporting", "sporting"} Down <- MCDown
  Jobs = {1, 2, 3, 4} Home <- MCHome Away <- MCAway
INVARIANTS AgeBounded TeamsSound
PROPERTIES ImportsSound SweepsSpaced EventuallyComplete
CHECK_DEADLOCK FALSE
