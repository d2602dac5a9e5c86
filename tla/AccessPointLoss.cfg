SPECIFICATION Spec
CONSTANTS
    BwList <- MCBwList
    SegDuration = 1
    TotalDuration = 2
    Payload = 1
    MediaPresent = TRUE
    Clients = {1}
    TableSize = 10
    Bitrates <- MCBitrates
    AvgBandwidth = 20000
    NoRecord = NoRecord
    MaxRepeats = 0
    MaxLosses = 1
    MaxAckLosses = 0
INVARIANTS
    TrackingExact
