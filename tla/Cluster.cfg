SPECIFICATION FairSpec
CONSTANTS
  NKeys = 2
  MaxTs = 2
  MaxNode = 2
  Data = {1}
  NoData = NoData
  ItemHash <- MCItemHash
  NShards = 1
  NBuckets = 2
  ShardOf <- OneShard
  BucketOf <- BucketPerKey
  Client = {c1}
  OwnersOf <- FirstShared
  Strict = TRUE
  MaxOps = 2
  MaxRounds = 1
INVARIANT TypeOK  OnlyOwnersHold 
PROPERTY Converges
