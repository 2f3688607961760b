SPECIFICATION Spec
CONSTANTS
  Tasks = {t1, t2, t3}
  Workspaces = {w1}
  Calls = {"search", "similar", "overlaps", "codemap", "index", "reindex", "sync", "clear", "clearAll"}
  MaxRuns = 1
SYMMETRY TaskSymmetry
INVARIANTS
  NoConflictingAccess
  LockOrder
  ReadersWaitOnlyForWriters
PROPERTIES
  ImplementsAccess
