SPECIFICATION FairSpec
CONSTANTS
  Hash = {h1, h2, h3}
  Capacity = 1
  ChCap = 2
  DelCap = 1
  EvictCap = 1
  TTLs = {1}
  JitterDiv = 1
  MaxSends = 4
PROPERTIES StopReturns
CHECK_DEADLOCK FALSE
