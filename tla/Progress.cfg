SPECIFICATION ProgressSpec
CONSTANTS
  Scenarios = {"fast path", "heal", "live", "deliver", "snapshot", "crash", "proposer", "follower", "weights"}
  v1 = v1
  v2 = v2
  v3 = v3
  Tx = {t1}
  Validator = {v1, v2, v3}
  AckStake <- MCAckStake
  TotalStakes = {0, 4}
  Timeout = 1
  MaxAge = 1
  MaxTime = 3
  MaxMovers = 2
  Addr = {"a", "b", "c"}
  MaxHeight = 3
  From <- MCFrom
  To <- MCTo
  NetTip = 3
  Handlers = {"g1", "g2"}
  Busy = {"g1"}
  BufferAhead = 2
  MaxDelta = 2
  Cached = {TRUE, FALSE}
  Pushes <- MCPushes
  LateHeights = {1}
  StartHeights = {0}
  MaxSnapshots = 0
  MaxSaves = 0
  MaxCrashes = 0
INVARIANTS
   AckedStakeCountedOnce PendingConfirmedDisjoint
   WeightsSound
PROPERTIES FinalizedIsFinal ProofsAreExact ReturnsToNormal FollowerCatchesUp
CHECK_DEADLOCK FALSE
