SPECIFICATION FairSpec
CONSTANTS
    MaxSeg = 4
    ChunkHeader = 1
    RequestSize = 2
    Responses <- MCResponses
    MaxExchanges = 2
    MaxWindow = 3
    MaxInFlight = 3
    MaxLosses = 2
    MaxEarly = 1
INVARIANTS
    TypeOK
    NoFatal
    WholeMessages
    WaitingTiled
    RecvqMatchesTcp
PROPERTIES
    ImplementsStreams
    EventuallyDelivered
