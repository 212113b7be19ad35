SPECIFICATION LiveSpec
CONSTANTS
  Loop = {l1}
  Driver = {d1, d2}
  Req = {q1}
  NoLoop = NoLoop
  NoDriver = NoDriver
  MaxTicks = 2
  FailureLimit = 2
  MaxFaults = 1
  MaxDrops = 1
  MaxExpired = 1
  MaxCrashes = 1
INVARIANTS
  CopyIsFresh
  BreakerHolds
  BudgetHolds
  CancelStopsDriver
  LateTickBounded
PROPERTIES
  StrandedOnlyBy
  ActiveLoopEnds
CHECK_DEADLOCK FALSE
