SPECIFICATION Spec
CONSTANTS
    BwList <- MCBwFour
    SegDuration = 8
    TotalDuration = 56
    Payload = 2
    MediaPresent = TRUE
    Kind = "AIMD"
    PlayAfter = 3
    LowerBound = 3
    UpperBound = 4
    BoundGap = 1
    MinBuffer = 20
    Rates = {0, 1, 2}
    MaxDups = 1
INVARIANTS
    NoLostWakeup
    BufferBound
    BoundsRespected
