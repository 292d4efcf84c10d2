CONSTANTS
  p1 = p1  p2 = p2  w1 = w1  w2 = w2
  Nobody = Nobody  None = None
  Procs = {p1, p2}
  Writers = {w1, w2}
  WriterIds <- OtherOrRestarted
  Records = {r1, r2}
  AfterSegments = 1
  Overlap = FALSE
  GivesUp = FALSE
  Mishaps = 1
SPECIFICATION FairSpec
INVARIANT RoomIsKept
PROPERTIES WriteOnce ImplementsDurable EventuallySettled
CHECK_DEADLOCK FALSE
