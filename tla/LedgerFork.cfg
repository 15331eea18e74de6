SPECIFICATION Spec
CONSTANTS
  Tx = {1, 2}
  Sent = {1, 2}
  Addr = {1, 2}
  TxInfo <- MCInfo
  PoolCap = 2
  Task = {p1}
  MaxHeight = 1
  MaxRollbacks = 1
  Variants = {1, 2}
  InitialBalance <- MCBalance
  InitialRewards <- MCNoRewards
  MinStake = 2
  MaxDeferred = 1
  MaxDeferredRetries = 2
PROPERTIES FastPathFinal
CHECK_DEADLOCK FALSE
