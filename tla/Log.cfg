SPECIFICATION Spec
CHECK_DEADLOCK FALSE
CONSTANTS
    Client = {1, 2, 3}
    Tables = {1, 2}
    Setups <- MCSetups
    SegSize = 2
    MaxSegment = 5
    MaxFlushes = 2
    MaxFaults = 2
INVARIANTS
    AckedIsRecoverable
    CheckpointCovers
    RecordIsAtomic
PROPERTIES
    RecoverableIsKept
