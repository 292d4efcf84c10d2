SPECIFICATION Spec
CONSTANTS
  Cols = {"title", "body"}
  Edits <- ManyRowOps
  OpIds <- ManyRowOps
  NoRow = NoRow
  Unread = Unread
  NoBatch = NoBatch
  Batches = {"b1", "b2"}
  Rows = {"r", "m", "s"}
  Instances = {1}
  Requests <- ManyRequests
  Op <- ManyRowOp
  Req <- ManyRows
  Policy <- ThreePolicies
  MaxAttempts = 8
  Gates = TRUE
  Throws = FALSE
  FetchFails = TRUE
  StorageFails = FALSE
  Crashes = 0
CONSTRAINT OneGroup
INVARIANTS TypeOK DecidedOnLatest RowsTell BothPreserved
PROPERTY NeverBackwards
CHECK_DEADLOCK FALSE
