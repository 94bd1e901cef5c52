SPECIFICATION Spec
CHECK_DEADLOCK FALSE
CONSTANTS
    Node = {0, 1, 2, 3}
    Txn = {1, 2}
    Insert = {1, 2}
    Prior = {}
    Setups <- TwoAnywhere
    Value <- MCValue
    Env = {}
INVARIANTS
    OneInsertWins
    ExecutionTimesDiffer
    RealTimeOrder
    CommitsAgree
    NeverStuck
