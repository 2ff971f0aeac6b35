SPECIFICATION FairSpec
CONSTANTS
    MaxDictations = 2
    LateStopEvent = FALSE
INVARIANTS
    RecorderOwned
    LifecycleTruth
    SideEffectsTrackRecording
PROPERTIES
    StalePipelineHarmless
    KeepsPromise
    NeverStaysBusy
    StopIsHonoured
    KeepsAnswering
