SPECIFICATION Spec
CHECK_DEADLOCK FALSE
CONSTANTS
    Node = {0, 1, 2, 3}
    Txn = {1, 2}
    Insert = {1, 2}
    Prior = {}
    Setups <- Two
    Value <- MCValue
    Env = {"late"}
INVARIANTS
    OneInsertWins
