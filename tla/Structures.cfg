SPECIFICATION StructuresSpec
CONSTANTS
  Scenarios = {"dag", "slashing", "rounds"}
  a = a
  b = b
  c = c
  d = d
  s1 = s1
  s2 = s2
  Hash = {a, b, d}
  Sender = {s1, s2}
  From <- MCFrom
  Parents <- MCParents
  Timestamp <- MCTimestamp
  Height = {1, 2}
  MaxNodes = 1
INVARIANTS
  IndexesMatchNodes SenderIndexOutsideWindow ChildLinksHaveParents
  SlashLogSound PowerCountedOnce
PROPERTIES UnfinalizedNeverEvicted
CHECK_DEADLOCK FALSE
