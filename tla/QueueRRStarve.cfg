SPECIFICATION FairSpec
CONSTANTS
    Flows = {1, 2, 3}
    Arriving = {1, 2, 3}
    Sizes = {6}
    Ids = {1, 2, 3, 4}
    Qlim = 9
    Quantum = 4
    Weight <- MCEqualWeights
    Policy = "RR"
    Overflows = FALSE
    MaxNumFlows = 9
    MaxClock = 9
    NoPacket = NoPacket
PROPERTIES
    NoStarvation
