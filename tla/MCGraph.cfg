SPECIFICATION PartsSpec
CONSTANTS
  Features = {"vecA", "vecB", "implU", "inner", "calls"}
  MaxFeatures = 2
  Snapshots <- ToolSnapshots
  Clients = {"c1", "c2"}
INVARIANTS
  ExtractionHolds
  ToolsHold
  CodemapsHold
  
CHECK_DEADLOCK FALSE
