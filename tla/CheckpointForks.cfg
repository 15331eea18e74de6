SPECIFICATION UninterruptedSpec
CONSTANTS
  n1 = n1
  n2 = n2
  Node = {n1, n2}
  StakeOf <- MCStakeOfSkewed
  Hash = {1, 2, 3}
  Base = 2
  MaxHeight = 4
  Leader <- MCLeader
  Restarting = {}
INVARIANTS
  ForkNeedsThirdOfStake
  BuriedIsFinal
CHECK_DEADLOCK FALSE
