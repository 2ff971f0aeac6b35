SPECIFICATION FairSpec
CONSTANTS
    MaxStreams = 3
    MaxRecordings = 2
    a1 = a1
    a2 = a2
    Attempts <- MCAttempts
    None = None
    LateStopEvent = FALSE
    SilentLoss = FALSE
INVARIANTS
    KeepsWhatWasSaid
    NothingLeftBehind
    LossIsNoticed
PROPERTIES
    EndIsHonoured
    LossIsAnswered
CHECK_DEADLOCK FALSE
