SPECIFICATION ReplicaSpec
CONSTANTS
  Addr = {"a", "b", "c"}
  MaxHeight = 3
  From <- MCFrom
  To <- MCTo
  NetTip = 2
  Handlers = {"g1", "g2"}
  Busy = {"g1", "g2"}
  BufferAhead = 2
  MaxDelta = 0
  Cached = {}
  Pushes <- MCPushes
  LateHeights = {}
  StartHeights = {0}
  MaxSnapshots = 0
  MaxSaves = 1
  MaxCrashes = 1
PROPERTY RecoveredIsConsistent
CHECK_DEADLOCK FALSE
