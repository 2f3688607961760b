SPECIFICATION FairSpec
CONSTANTS
  Paths = {1, 2}
  Contents = {c1, c2, e1}
  Chunkless = {e1}
  Oversize = {}
  Calls = {"sync", "force", "repair", "build"}
  Faults = {"prepare", "delete", "insert", "record", "forget", "walk", "crash"}
  MaxFaults = 2
  Reuse = FALSE
  EditTimes = "unread"
INVARIANTS
  SnapshotVouches
PROPERTIES
  EventuallyIndexed
