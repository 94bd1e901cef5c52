SPECIFICATION LiveSpec
CHECK_DEADLOCK FALSE
CONSTANTS
    Writer = {1}
    Modes = {"periodic", "group"}
    Deadline = 1
    MaxTime = 2
    MaxFaults = 2

PROPERTIES
    EveryWriterAnswered
    BacklogSynced
