SPECIFICATION MCSpec
CONSTANTS
  Sides = {A, B}
  Mergers = {A, B}
  ForkHeight = 1
  Stakes = {7, 10}
  MaxMerges = 1
  PTx <- MCTx
  PWeight <- MCWeight
  ForkAccounts <- MCAccounts
INVARIANT MergeConverges
CHECK_DEADLOCK FALSE
