SPECIFICATION Spec
CONSTANTS
  n1 = n1
  n2 = n2
  Node = {n1, n2, n3}
  StakeOf <- MCStakeOf
  Hash = {1, 2}
  Base = 2
  MaxHeight = 3
  Leader <- MCLeader
  Restarting = {}
INVARIANTS
  OneCertificatePerHeight
CHECK_DEADLOCK FALSE
