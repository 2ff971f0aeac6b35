SPECIFICATION FairSpec
CONSTANTS
  Models = {m1, m2}
  Requests = {r1, r2}
  MaxChildren = 3
  MaxStops = 2
  MaxExits = 1
  Segments = 2
  OutlivesKill = FALSE
  None = None
INVARIANTS Tracked OwnModel
PROPERTY EveryRequestSettles
CHECK_DEADLOCK FALSE
