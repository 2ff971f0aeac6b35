SPECIFICATION Spec
CONSTANTS
    Detections = {audio, calendar}
    MaxSessions = 2
    MaxCooldowns = 2
    MaxQueue = 2
    CardsLost = TRUE
PROPERTIES
    OfferOnDisplay
    MeetingUndisturbed
