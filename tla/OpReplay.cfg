SPECIFICATION Spec
CONSTANTS
  Cols = {"title", "body"}
  Edits <- MCOps
  OpIds <- MCOps
  NoRow = NoRow
  Unread = Unread
  NoBatch = NoBatch
  Batches = {"b1"}
  Rows = {"r"}
  Instances = {1, 2}
  Requests <- RequestNames
  Op <- MCOp
  Req <- TwoInstances
  Policy <- LwwRow
  MaxAttempts = 8
  Gates = FALSE
  Throws = FALSE
  FetchFails = FALSE
  StorageFails = FALSE
  Crashes = 1
INVARIANT ReplayedWasApplied
CHECK_DEADLOCK FALSE
