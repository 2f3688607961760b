SPECIFICATION BrokerSpec
CONSTANTS
  p1 = p1
  p2 = p2
  search = search
  index = index
  graph = graph
  other = other
  b1 = b1
  b2 = b2
  NoUser = NoUser
  Processes = {p1, p2}
  Users = {search, index, graph, other}
  Backends = {b1}
  ProcessOf <- TwoDaemons
  OwnerOf <- OwnerOfUser
  Load <- UnitLoad
  WarmUp <- UnitWarmUp
  Card = 4
  Foreign = 1
  Budget = 3
  Priced = {b1}
  MaxCalls = 2
  MaxCrashes = 1
INVARIANTS
  ExclusiveUse
  NoLostWakeup
  OvertakenAtMostOnce
  MemoryHolds
PROPERTIES
  EveryCallReturns
CHECK_DEADLOCK FALSE
