SPECIFICATION Spec
CONSTANTS
    Txn <- MCTxn
    Width = 2
    Capacity = 1
    Retention = 3
    Timeout = 1
    Drift = 1
    MaxTime = 6
PROPERTIES
    KeepsPromise
INVARIANTS
    TypeOK
    AckableWasApplied
    UsableIsAccepted
