SPECIFICATION PartsSpec
CONSTANTS
  Clients = {m1, m2}
  Base = 1
  ContextMb = 3
  JobMb = 2
  MaxFree = 1
  MachineMb = 12
  OthersMb = 6
  SoftMb = 4
  HardMb = 5
  FloorMb = 2
  GrowthMb = 1
  Cooldown = 2
  TrimCooldown = 1
  GrowthCooldown = 2
  GpuIdle = 1
  GcInterval = 1
  Grace = 1
  Idle = 2
  MaxCalls = 4
  MaxTicks = 3
  Files = {m1, m2}
  Embedders = {"bge", "qwen"}
  Dim <- MCDim
  TargetRows = 2
  MinSmall = 2
  MaxDeltas = 1
  AnnMinRows = 2
  Keep = 0
  WithOldIndex = TRUE
  Bounds <- MCBounds
  Candidates = 2
  K = 2
  MaxFails = 1
  MaxLen = 4
  GpuRows = 2
  MaxRetries = 1
  MaxFlaws = 3
  Requests <- MCRequests
  Paths = {1, 2}
  Contents = {m1, m2}
  Chunkless = {}
  Oversize = {}
  Calls = {"sync", "force"}
  Faults = {"crash"}
  MaxFaults = 1
  Reuse = FALSE
  EditTimes = "unread"
SYMMETRY Symmetric
INVARIANTS
  WatchdogIsSound
  SearchIsSound
  EmbeddingsAreSound
  CodingIsSound
  HealthIsSound
CHECK_DEADLOCK FALSE
