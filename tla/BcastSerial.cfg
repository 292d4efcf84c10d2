SPECIFICATION FairSpec
CONSTANTS
  Clients = {"w1", "w2", "r"}
  Rows = {1, 2}
  Vals = {1}
  NoRow = NoRow
  Mine <- Owned
  There <- Either
  Serial = TRUE
  InOrder = TRUE
  Partial = FALSE
  Turns = FALSE
  Lead = 0
  Writes = 2
  Bootstraps = 1
  Losses = 1
INVARIANT SerialAgree
PROPERTY EventuallyConverged
CHECK_DEADLOCK FALSE
