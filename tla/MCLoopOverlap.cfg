SPECIFICATION Spec
CONSTANTS
  Loop = {l1, l2}
  Driver = {d1, d2}
  Req = {q1, q2}
  NoLoop = NoLoop
  NoDriver = NoDriver
  MaxTicks = 1
  FailureLimit = 1
  MaxFaults = 0
  MaxDrops = 0
  MaxExpired = 0
  MaxCrashes = 0
SYMMETRY Symmetry
INVARIANTS
  OneLiveLoop
  SoleTicker
CHECK_DEADLOCK FALSE
