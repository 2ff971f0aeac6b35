SPECIFICATION FairSpec
CONSTANTS
    Detections = {audio, calendar}
    MaxSessions = 0
    MaxCooldowns = 2
    MaxQueue = 2
    CardsLost = FALSE
PROPERTIES
    NeverDeaf
