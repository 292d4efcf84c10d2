CONSTANTS
  p1 = p1  p2 = p2  w1 = w1  w2 = w2
  Nobody = Nobody  None = None
  Procs = {p1}
  Writers = {w1, w2}
  WriterIds <- OneWriter
  Records = {r1, r2}
  AfterSegments = 1
  Overlap = FALSE
  GivesUp = TRUE
  Mishaps = 2
SPECIFICATION Spec
INVARIANT AckedIsStored
CHECK_DEADLOCK FALSE
