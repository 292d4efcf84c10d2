SPECIFICATION Spec
CONSTANTS
  Uses = {"u", "v"}
  Params = {"p", "q"}
  Bindings = {"provider", "direct"}
  UseBounds <- UseRuns
  Targets = {"e", "f"}
  Filters = {"all", "open"}
  HtmxBounds <- HtmxRuns
  Writers = {"a", "b"}
  SeedText = 1
  SeenLimit = 2
  MaxRetries = 1
  TextBounds <- TextRuns
  Views = {"r", "s", "w"}
  ViewKind <- LiveKinds
  TtlOf <- LiveTtls
  EventKeys = {"k", "l"}
  EventPeers = {"p", "q"}
  LiveEnd = 4
  LiveBounds <- LiveRuns
  DiskTables = {"A", "B"}
  SchemaHandlers = {"clear", "warn", "migrate"}
  DiskBound <- DiskRuns
  Ops = {1, 2, 3}
  Rows = {1}
  RowOf <- SameRow
  KindOf <- Kinds
  BatchOf <- AndBatch
  Calls <- ThenBatch
  MaxFrame = 1
  Refusable = {1}
  AnyOrder = FALSE
  QueueBounds <- QueueRuns
INVARIANTS
  HooksInv
  HtmxInv
  
  DiskInv
  
CHECK_DEADLOCK FALSE
