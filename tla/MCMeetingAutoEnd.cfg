SPECIFICATION FairSpec
CONSTANTS
    ConfirmWindow = 2
    FastWindow = 3
    SilenceWindow = 4
    MinActive = 3
    TickGap = 2
    GraceWindow = 4
    ClaimWindow = 2
    MaxRecordings = 2
    FlapsInGrace = FALSE
PROPERTIES
    StopJustified
    GraceHonoured
    EndsByItself
