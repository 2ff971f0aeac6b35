SPECIFICATION FairSpec
CONSTANTS
  Models = {m1}
  Requests = {r1, r2}
  MaxChildren = 4
  MaxStops = 1
  MaxWakes = 1
  MaxFaults = 1
  KillLags = FALSE
  Hangs = FALSE
  RestartsOverlap = FALSE
  Rewarm = Rewarm
  None = None
INVARIANTS Tracked SurvivesFirstCrash
PROPERTY EveryRequestSettles
CHECK_DEADLOCK FALSE
