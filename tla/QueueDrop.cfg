SPECIFICATION Spec
CONSTANTS
    Flows = {1, 2}
    Arriving = {1, 2}
    Sizes = {2, 4}
    Ids = {1, 2, 3, 4}
    Qlim = 3
    Quantum = 2
    Weight <- MCEqualWeights
    Policy = "RR"
    Overflows = TRUE
    MaxNumFlows = 9
    MaxClock = 9
    NoPacket = NoPacket
INVARIANTS
    SubqueuesMirrorMain
