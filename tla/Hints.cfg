SPECIFICATION LiveSpec
CHECK_DEADLOCK FALSE
CONSTANTS
    Hint = {1, 2, 3}
    SegmentSize = 2
    Cap = 3
    Env = {"crash", "fsync", "io", "peer"}
    MaxFaults = 2
INVARIANTS
    AcceptedIsKept
    DeliveredInOrder
    PendingCovers
PROPERTIES
    HintsReachPeer
