SPECIFICATION PressSpec
CONSTANTS
    MaxDictations = 2
    MaxPresses = 2
    LateStopEvent = FALSE
    BlockDuringHold = FALSE
    InterruptDuringStart = FALSE
    SlowIPC = FALSE
INVARIANTS
    HoldFirst
    NoRunaway
PROPERTIES
    ReleasedStops
    PreparationTakenBack
CHECK_DEADLOCK FALSE
