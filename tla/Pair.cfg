SPECIFICATION Spec
CHECK_DEADLOCK FALSE
CONSTANTS
    Write = {1, 2}
    Level <- MCLevel
    Plan <- MCPlan
    MaxCalls = 4
    MaxGeneration = 2
INVARIANTS
    OnePrimary
    OneWriterAtATime
    PrimaryIsRecorded
    NeverStuck
    AckedIsOnBoth
PROPERTIES
    CaughtUpFirst
