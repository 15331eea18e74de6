SPECIFICATION ServicesSpec
CONSTANTS
  Scenarios = {"restart", "token", "wasm", "executors", "tree", "delta", "trie"}
  n1 = n1
  n2 = n2
  Node = {n1, n2}
  StakeOf <- MCStakeOf
  Hash = {1, 2}
  Base = 2
  MaxHeight = 4
  Leader <- MCLeader
  Restarting = {n1}
INVARIANTS
  DoubleSignNeedsDroppedLock AppliedIsCertified
     TrieShowsContent
CHECK_DEADLOCK FALSE
