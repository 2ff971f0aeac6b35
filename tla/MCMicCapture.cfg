SPECIFICATION Spec
CONSTANTS
    s1 = s1
    s2 = s2
    s3 = s3
    s4 = s4
    a1 = a1
    a2 = a2
    a3 = a3
    d1 = d1
    d2 = d2
    None = None
    Streams <- MCStreams
    Acquisitions <- MCAcquisitions
    Devices <- MCDevices
    DefaultDevice = d1
    RecorderCanFail = TRUE
SYMMETRY CaptureSymmetry
INVARIANTS
    TypeOK
    GateTruthful
    SeparateOwners
    HeldOnlyWithTimer
    PreparedOnCurrentDevice
    NoUnansweredPrepare
