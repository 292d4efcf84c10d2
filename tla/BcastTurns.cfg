SPECIFICATION Spec
CONSTANTS
  Clients = {"w1", "w2"}
  Rows = {1}
  Vals = {1}
  NoRow = NoRow
  Mine <- Pair
  There <- Empty
  Serial = TRUE
  InOrder = TRUE
  Partial = FALSE
  Turns = TRUE
  Lead = 0
  Writes = 3
  Bootstraps = 0
  Losses = 0
INVARIANT Converge
CHECK_DEADLOCK FALSE
