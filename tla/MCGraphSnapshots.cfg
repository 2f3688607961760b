SPECIFICATION Spec
CONSTANTS
  Builders = {"b1", "b2"}
  Readers = {"r1"}
  Packages = {"p", "q"}
  Versions = {0, 1}
  Globals = {0}
  Crates = {"lib", "app", "bin"}
  Proc <- Processes
  CratesAt <- Targets
  Deps <- Uses
  crate_packages <- Files
  FirstTree <- Tree0
  Attempts = 2
  MaxCalls = 3
  MaxEdits = 2
  MaxClears = 1
  MaxFaults = 1
  MaxTroubles = 2
  MaxInstances = 3
CONSTRAINT NoRetryWithClear
INVARIANTS
  SnapshotsAreWhole
  QueriesHold
CHECK_DEADLOCK FALSE
