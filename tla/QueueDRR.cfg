SPECIFICATION FairSpecUnfolded
CONSTANTS
    Flows = {1, 2}
    Arriving = {1, 2}
    Sizes = {2, 4}
    Ids = {1, 2, 3, 4}
    Qlim = 9
    Quantum = 3
    Weight <- MCEqualWeights
    Policy = "DRR"
    Overflows = FALSE
    MaxNumFlows = 9
    MaxClock = 9
    NoPacket = NoPacket
INVARIANTS
    SubqueuesMirrorMain
    BytesMatchSubqueue
    DeficitBounded
PROPERTIES
    NoStarvation
