SPECIFICATION Spec
CONSTANTS
  Models = {m1}
  Requests = {r1, r2}
  MaxChildren = 4
  MaxStops = 0
  MaxWakes = 1
  MaxFaults = 0
  KillLags = FALSE
  Hangs = FALSE
  RestartsOverlap = FALSE
  Rewarm = Rewarm
  None = None
PROPERTY WakeSparesRequests
CHECK_DEADLOCK FALSE
