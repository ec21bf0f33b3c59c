SPECIFICATION FairSpec
CONSTANTS
  Thread = {t1, t2}
  MaxPhysical = 3
  LogicalMask = 2
  Drift = 1
  Remote <- RemoteStamps
  MaxWall = 4
  MayStepBack = TRUE
  MaxCalls = 3
INVARIANTS TypeOK DriftBounded ClockInv
PROPERTIES NowIncreases NowAfterRemote EveryCallReturns
CHECK_DEADLOCK FALSE
