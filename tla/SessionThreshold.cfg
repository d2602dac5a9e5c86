SPECIFICATION Spec
CONSTANTS
    BwList <- MCBwThree
    SegDuration = 8
    TotalDuration = 48
    Payload = 2
    MediaPresent = TRUE
    Kind = "Android"
    PlayAfter = 3
    LowerBound = 0
    UpperBound = 0
    BoundGap = 1
    MinBuffer = 9
    Rates = {1, 2, 3, 5}
    MaxDups = 2
INVARIANTS
    TypeOK
    PlaybackContiguous
    OneExchangeAtATime
    NoLostWakeup
    BufferBound
    FreezeAccounting
    QualityAccounting
    NoFatal
    StopsOnce
