SPECIFICATION LiveSpec
CONSTANTS
  Incident = {i1, i2}
  Req = {q1, q2}
  NoIncident = NoIncident
  MaxRequests = 4
  MaxFaults = 1
  MaxDrops = 1
  MaxCrashes = 1
INVARIANTS
  OneLiveIncident
  RepairedOnce
  StrandedOnlyBy
  AuditTellsTheEnd
PROPERTIES
  ImplementsLifecycle
  WorkEnds
CHECK_DEADLOCK FALSE
