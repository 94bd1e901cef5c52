SPECIFICATION Spec
CONSTANTS
  Txn = {1, 2, 3}
  Task = {k1, k2}
  Handler = handler
  NoWrite = {1}
  Abandoned = {}
  Env = {"prune", "fault", "reclaim", "overtake", "unknown", "late"}
  MaxApplies = 1
  AgreedT <- MCT
  AgreedDeps <- MCDeps
  ProposedT <- MCProposed
SYMMETRY Tasks
INVARIANT AppliedImpliesDurable
CHECK_DEADLOCK FALSE
