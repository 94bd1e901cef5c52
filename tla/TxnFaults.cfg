SPECIFICATION LiveSpec
CHECK_DEADLOCK FALSE
CONSTANTS
    Node = {0, 1, 2, 3}
    Txn = {1}
    Insert = {1}
    Prior = {}
    Setups <- OneAnywhere
    Value <- MCValue
    Env = {"fail", "late", "fsync", "prune"}
INVARIANTS
    AcknowledgedOnQuorum
    NotAppliedWritesNothing
    FinalizedNeverPending
PROPERTIES
    PendingOnlyIfMissed
