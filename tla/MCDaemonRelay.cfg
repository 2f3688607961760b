SPECIFICATION Spec
CONSTANTS
  c1 = c1
  c2 = c2
  Clients = {c1, c2}
  Daemons = {1, 2, 3}
  Nobody = Nobody
  Calls = {"search", "index"}
  StateChanging = {"index"}
  Workloads <- Work
  QUICK_LOSSES_BEFORE_GIVING_UP = 1
  MaxFaults = 1
  MaxUpheavals = 1
  WaitersDie = FALSE
  HandshakesOverlap = FALSE
SYMMETRY Swaps
INVARIANTS
  ChangesRunOnce
  OneConversation
  ServersAreFound
