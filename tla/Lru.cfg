SPECIFICATION FairSpec
CONSTANTS
  Hash = {h1, h2, h3}
  Capacity = 2
  ChCap = 2
  DelCap = 1
  EvictCap = 1
  TTLs = {0, 2}
  JitterDiv = 1
  MaxSends = 4
INVARIANTS TypeOK CapacityNotified
PROPERTIES VictimIsOldest ExpiresAfterTTL ExpiredGone 
CHECK_DEADLOCK FALSE
