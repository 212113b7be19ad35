SPECIFICATION FairSpec
CONSTANTS
  Esc = {e1}
  Post = {p1, p2}
  Window = 2
  MaxTime = 4
  MaxFaults = 2
  MaxCrashes = 2
INVARIANTS
  VerdictIsDurable
  NoOrphanedTicket
  GaugeMatchesWaiters
  ResumedIsTrue
PROPERTIES
  DeadlineHonoured
  ImplementsOperatorVerdict
  ParkedCallEnds
  SlotReleased
CHECK_DEADLOCK FALSE
