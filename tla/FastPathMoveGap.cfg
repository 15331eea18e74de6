SPECIFICATION Spec
CONSTANTS
  v1 = v1
  v2 = v2
  v3 = v3
  Tx = {t1}
  Validator = {v1, v2, v3}
  AckStake <- MCAckStake
  TotalStakes = {0, 4}
  Timeout = 1
  MaxAge = 1
  MaxTime = 3
  MaxMovers = 2
INVARIANTS
  ConfirmedHasQuorum
CHECK_DEADLOCK FALSE
