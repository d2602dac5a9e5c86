SPECIFICATION FairSpec
CONSTANTS
    BwList <- MCBwTwo
    SegDuration = 8
    TotalDuration = 40
    Payload = 2
    MediaPresent = TRUE
    Kind = "VLCHLS"
    PlayAfter = 4
    LowerBound = 0
    UpperBound = 0
    BoundGap = 1
    MinBuffer = 9
    Rates = {2, 3}
    MaxDups = 1
PROPERTIES
    Completes
    FreezeEnds
