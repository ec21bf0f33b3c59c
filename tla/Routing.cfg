SPECIFICATION RoutingFairSpec
CONSTANTS
  NKeys = 2
  MaxTs = 2
  MaxNode = 2
  Data = {1}
  NoData = NoData
  ItemHash <- MCItemHash
  NShards = 1
  NBuckets = 2
  ShardOf <- OneShard
  BucketOf <- BucketPerKey
  Client = {c1}
  OwnersOf <- FirstShared
  Strict = TRUE
  MaxOps = 2
  MaxRounds = 0
  Handler = {h1, h2}
  User = User
  Nobody = Nobody
  MaxGets = 1
 
PROPERTIES  GetReturns
CHECK_DEADLOCK FALSE
