SPECIFICATION FairSpec
CONSTANTS
  Cols = {"title", "body"}
  Edits <- MCOps
  OpIds <- MCOps
  NoRow = NoRow
  Unread = Unread
  NoBatch = NoBatch
  Batches = {"b1"}
  Rows = {"r"}
  Instances = {1, 2}
  Requests <- RequestNames
  Op <- MCOp
  Req <- SentAgain
  Policy <- CustomRow
  MaxAttempts = 2
  Gates = FALSE
  Throws = TRUE
  FetchFails = FALSE
  StorageFails = TRUE
  Crashes = 1
INVARIANTS NoEditLost AtMostOnce
PROPERTIES AppliedOnWhatItRead Answered
CHECK_DEADLOCK FALSE
