SPECIFICATION LifeFairSpec
CONSTANTS
  NKeys = 1
  MaxTs = 5
  MaxNode = 2
  Data = {1}
  NoData = NoData
  ItemHash <- MCItemHash
  Writer = {r1, g1}
  RespWriter = {r1}
  Evictor = {e1}
  EvictorOf <- MCEvictorOf
  NSegs = 1
  SegOf <- OneSegment
  ShardOf <- ShardPerKey
  Self = 1
  LocalOps = {"set", "del"}
  RemoteVersions <- RemoteLater
  Reasons = {"ttl"}
  MayDrift = TRUE
  MayOverflow = FALSE
  DisableSnapshot = FALSE
  ClockSkew = 1
  MaxOps = 2
  MaxSnaps = 2
  MaxTicks = 1
  MaxCrashes = 1
INVARIANT Durability
PROPERTIES StopKeepsAcked  EventuallySynced
CHECK_DEADLOCK FALSE
