SPECIFICATION BooksSpec
CONSTANTS
  Scenarios = {"ledger", "rollback", "registry", "liveness", "partition", "merge"}
  a1 = a1
  a2 = a2
  A = A
  B = B
  Tx = {1, 2}
  Sent = {1, 2}
  Addr = {1, 2}
  TxInfo <- MCInfo
  PoolCap = 2
  Task = {p1, p2}
  MaxHeight = 2
  MaxRollbacks = 0
  Variants = {1}
  InitialBalance <- MCAmpleBalance
  InitialRewards <- MCNoRewards
  MinStake = 2
  MaxDeferred = 1
  MaxDeferredRetries = 1
SYMMETRY TaskSymmetry
INVARIANTS
  HolesNeedRollbacks  RegistryConsistent  
PROPERTIES  TransitionsAreSustained MergeSound
CHECK_DEADLOCK FALSE
