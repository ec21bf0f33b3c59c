SPECIFICATION Spec
CONSTANTS
  NKeys = 2
  MaxTs = 3
  MaxNode = 2
  Data = {1}
  NoData = NoData
  ItemHash <- MCItemHash
  Writer = {w1}
  Evictor = {e1}
  EvictorOf <- MCEvictorOf
  NSegs = 2
  SegOf <- SegmentPerKey
  ShardOf <- OneShard
  Self = 1
  LocalOps = {"set"}
  RemoteVersions <- RemoteTie
  Reasons = {"ttl", "cap"}
  MayDrift = FALSE
  MayOverflow = FALSE
  DisableSnapshot = FALSE
  ClockSkew = 0
  MaxOps = 3
  MaxSnaps = 1
  MaxCrashes = 1
INVARIANTS TypeOK Durability SnapshotCovers 
PROPERTIES RecoveryKeepsDurable
