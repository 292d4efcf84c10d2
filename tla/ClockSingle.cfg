SPECIFICATION FairSpec
CONSTANTS
  CounterMax = 1
  MaxDrift = 3
  Instances = {1}
  Lease = 2
  Interval = 1
  Remotes <- MCRemotes
  NoMark = NoMark
  Off = Off
  Timely = FALSE
  ReadsFail = TRUE
  WritesFail = TRUE
  MaxWall = 3
  MaxFlights = 2
  Budget = 4
  Faults = 1
INVARIANTS TypeOK UncoveredIsPending
PROPERTIES EventuallyCovered StampsAdvance
CHECK_DEADLOCK FALSE
