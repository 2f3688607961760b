SPECIFICATION Spec
CONSTANTS
  Callers = {c1, c2}
  Dirs = {d1}
  Sync = Sync
  Nobody = Nobody
  Ops = {"search", "similar", "index", "force", "clear_cache", "clear_all", "clear"}
  MaxCalls = 2
  MaxFaults = 1
INVARIANTS
  RuntimesAreFresh
PROPERTIES
  NoResurrection
  EmptyIndexesFill
  ExitIsBounded
