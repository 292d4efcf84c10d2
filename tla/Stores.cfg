SPECIFICATION Spec
CONSTANTS
  Instances = {"a", "b"}
  Cards = {"c1", "c2", "c3"}
  Author <- Authors
  SharedAfter = 2
  MaxAttempts = 2
  SharedBounds <- SharedRuns
  Records = 3
  Riding = {1}
  RecordSize <- Sizes
  WalMaxBatch = 2
  MaxBuffer = 3
  WalModes = {"reject", "degrade", "buffered"}
  Tries = 1
  Flushers = {"f"}
  WalFaults = 1
  Cells = {"x", "y"}
  Stamps = {1, 2, 3}
  OpIds = {"i"}
  RowBytes = 3
  OpBytes = 2
  IdBytes = 1
  MaxRoomBytes = 10
  IdRetention = 1
  RoomBounds <- RoomRuns
  Providers = {"memory", "filesystem", "aws", "minio", "gcs"}
  CasWriters = {"w", "x"}
  CasRounds = 2
  Retries = 1
  WalKeys = {1, 2, 3}
  ListPage = 1
  DeleteChunk = 2
  DriverFaults = 2
  Hosts = {"i", "j"}
  StoreOps = {1, 2}
  StoreRows = {"m", "p"}
  Merged = {"m"}
  Dialects = {"sqlite", "postgres"}
  PoolConns = {1, 2}
  LockTtl = 0
  Retention = 1
  WriteAttempts = 2
  StoreBounds <- StoreRuns
  LogWrites = {1, 2, 3}
  TableOrder <- LogOrder
  TableOf <- LogTables
  PathsOf <- LogPaths
  BufferCap = 1
  CatchUpBounds <- LogRuns
  Tasks = {"x", "y", "z"}
  DataTables = {"t", "u"}
  TaskKeys = {"k"}
  IdemKeys = {"i"}
  TaskKinds <- TaskMixes
  Ranks = {1, 2, 3}
  First = {2}
  WindowSize = 2
  PageSize = 1
  Fanouts = {"f", "g"}
  WindowBound <- WindowRun
  Senders = {"a", "b"}
  GateOps <- GatedOps
  EagerTables = {"e"}
  Writable = {"t", "e"}
  NoBatch = "-"
  MaxBatch = 2
  Spans <- GateSpans
  MemoryLimit = 3
  MemorySpan = 1
  LastTick = 3
  GateBounds <- GateRuns
INVARIANTS
  SharedInv
  SegmentsInv
  RoomInv
  
  TasksInv
  WindowsInv
  GateInv
PROPERTIES StoreHolds
CHECK_DEADLOCK FALSE
