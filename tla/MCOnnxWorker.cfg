SPECIFICATION FairSpec
CONSTANTS
    Requests = {r1, r2, r3}
    MaxPending = 1
    MaxRespawns = 1
INVARIANTS
    WaitsForTheLiving
    OneWorker
PROPERTIES
    KeepsBox
    EveryRequestSettles
