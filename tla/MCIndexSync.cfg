SPECIFICATION Spec
CONSTANTS
  Paths = {1, 2}
  Contents = {c1, c2, e1, o1}
  Chunkless = {e1}
  Oversize = {o1}
  Calls = {"sync", "force", "repair", "build", "clear"}
  Faults = {"prepare", "delete", "insert", "record", "forget", "walk", "crash"}
  MaxFaults = 1
  Reuse = FALSE
  EditTimes = "unread"
SYMMETRY CodeSymmetry
INVARIANTS
  CacheVouches
  StoresAgree
PROPERTIES
  RetriesStayVisible
