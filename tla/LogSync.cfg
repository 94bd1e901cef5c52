SPECIFICATION Spec
CHECK_DEADLOCK FALSE
CONSTANTS
    Writer = {1, 2}
    Modes = {"periodic", "group"}
    Deadline = 1
    MaxTime = 2
    MaxFaults = 2
INVARIANTS
    UnsyncedHasAge
    DurableIsOnDisk
PROPERTIES
    AckedWithinDeadline
