SPECIFICATION Spec
CONSTANTS
  Clients = {"w1", "w2", "r"}
  Rows = {1, 2}
  Vals = {1}
  NoRow = NoRow
  Mine <- Contested
  There <- Empty
  Serial = FALSE
  InOrder = TRUE
  Partial = FALSE
  Turns = FALSE
  Lead = 0
  Writes = 3
  Bootstraps = 0
  Losses = 0
INVARIANT ReadersAgree
CHECK_DEADLOCK FALSE
