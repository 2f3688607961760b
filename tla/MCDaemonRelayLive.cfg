SPECIFICATION FairSpec
CONSTANTS
  c1 = c1
  c2 = c2
  Clients = {c1}
  Daemons = {1, 2, 3}
  Nobody = Nobody
  Calls = {"search"}
  StateChanging = {}
  Workloads <- Alone
  QUICK_LOSSES_BEFORE_GIVING_UP = 1
  MaxFaults = 1
  MaxUpheavals = 1
  WaitersDie = FALSE
  HandshakesOverlap = FALSE
PROPERTIES
  EveryCallIsAnswered
  SessionsLeaveRetired
