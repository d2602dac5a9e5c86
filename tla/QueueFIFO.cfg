SPECIFICATION Spec
CONSTANTS
    Flows = {1, 2}
    Arriving = {1, 2}
    Sizes = {2}
    Ids = {1, 2, 3, 4, 5, 6, 7}
    Qlim = 4
    Quantum = 2
    Weight <- MCEqualWeights
    Policy = "FIFO"
    Overflows = TRUE
    MaxNumFlows = 9
    MaxClock = 9
    NoPacket = NoPacket
INVARIANTS
    TypeOK
    RingMatchesBacklog
    WorkConserving
    BelowLimit
