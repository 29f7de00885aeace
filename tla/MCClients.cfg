SPECIFICATION ClientsSpec
CONSTANTS
  Clients = {c1, c2, c3} None = None Str = Str
  Keys = {k1, k2} Waits <- MCWaits MaxPush = 3
  Subscribers = {1, 2} Channels = {"a", "b"} Patterns = {"*"} Matching <- MCMatching
  HardLimit = 2 MaxMessages = 2
SYMMETRY Symmetry
INVARIANTS
  NoneStarved EveryElementOnce ListsReplicated FreedNotListed EveryMessageDue
CHECK_DEADLOCK FALSE
