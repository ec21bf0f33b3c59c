SPECIFICATION Spec
CONSTANTS
  NKeys = 2
  MaxTs = 3
  MaxNode = 1
  Data = {1}
  NoData = NoData
  ItemHash <- MCItemHash
  Writer = {w1, w2}
  Evictor = {e1}
  EvictorOf <- MCEvictorOf
  NSegs = 1
  SegOf <- OneSegment
  ShardOf <- ShardPerKey
  Self = 1
  LocalOps = {"set", "del"}
  RemoteVersions = {}
  Reasons = {}
  MayDrift = FALSE
  MayOverflow = FALSE
  DisableSnapshot = FALSE
  ClockSkew = 0
  MaxOps = 3
  MaxSnaps = 1
  MaxCrashes = 1
PROPERTIES SnapshotRoundTrip
SYMMETRY WriterSymmetry
