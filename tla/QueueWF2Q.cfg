SPECIFICATION Spec
CONSTANTS
    Flows = {1, 2}
    Arriving = {1, 2}
    Sizes = {2, 20}
    Ids = {1, 2, 3, 4}
    Qlim = 9
    Quantum = 4
    Weight <- MCEqualWeights
    Policy = "WF2Q"
    Overflows = FALSE
    MaxNumFlows = 9
    MaxClock = 60
    NoPacket = NoPacket
INVARIANTS
    WorkConserving
