SPECIFICATION FairSpec
CONSTANTS
  Txn = {1, 2, 3}
  Task = {k1, k2}
  Handler = handler
  NoWrite = {}
  Abandoned = {2}
  Env = {}
  MaxApplies = 2
  AgreedT <- MCT
  AgreedDeps <- MCDeps
  ProposedT <- MCProposed
INVARIANT DurableIsReported
INVARIANT NoWaitOnLater
PROPERTY ApplyOrder
PROPERTY EventuallyApplied
CHECK_DEADLOCK FALSE
