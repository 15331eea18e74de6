CONSTANTS
  Tx = {1, 2, 3, 4}
  Addr = {1, 2}
  From <- MCFrom
  Nonce <- MCNonce
  MaxNonce = 4
  Peer = {"b", "o"}
  Bootstrap = {"b"}
  MaxLinks = 2
  MaxFaults = 2
  MaxScore = 0
  MinMesh = 2
  MaxConnections = 3
  MaxReconnects = 2
  FailureLimit = 1
  BanScore = 1
  Height = {1}
  Fork = {1, 2}
  Validators = 4
  Handler = {"g1", "g2"}
  MaxCollectors = 1
  MaxEarly = 3
  MaxEarlyHeights = 1
  MaxDecodeAttempts = 1
  Scenarios = {"nonces", "votes", "lane", "forks", "heights", "transactions", "tips", "push", "peers", "outbound", "inbound"}
SPECIFICATION GossipSpec
CHECK_DEADLOCK FALSE
INVARIANTS  ShardsDecode  ValidatedIsConnected ChannelsSound
PROPERTIES RetriesEnd EveryMessagePublished
