SPECIFICATION Spec
CONSTANTS
  Turn = {t1, t2}
  NoTurn = NoTurn
  Loop = Loop
  Kinds = {"tick", "team"}
  HistoryWindow = 5
  MaxIterations = 1
  ToolCap = 2
  MaxCalls = 2
  EventBuffer = 1
  MaxNotes = 1
  MaxDeletes = 1
  MaxFaults = 1
  MaxCrashes = 1
  MaxMishaps = 1
SYMMETRY Symmetry
INVARIANTS
  FollowUpSees
  PairsIntact
  CancelStopsWork
CHECK_DEADLOCK FALSE
