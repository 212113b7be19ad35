SPECIFICATION LiveSpec
CONSTANTS
  Turn = {t1, t2}
  NoTurn = NoTurn
  Loop = Loop
  Kinds = {"operator", "team"}
  HistoryWindow = 2
  MaxIterations = 2
  ToolCap = 1
  MaxCalls = 1
  EventBuffer = 1
  MaxNotes = 0
  MaxDeletes = 0
  MaxFaults = 1
  MaxCrashes = 1
  MaxMishaps = 1
INVARIANTS
  OutputIsOwn
  AuditCounts
PROPERTIES
  ImplementsSession
  LockReleased
CHECK_DEADLOCK FALSE
