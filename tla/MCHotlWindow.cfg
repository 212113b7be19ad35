SPECIFICATION Spec
CONSTANTS
  c1 = c1
  c2 = c2
  c3 = c3
  p1 = p1
  p2 = p2
  Call <- MCCall
  Policy <- MCPolicy
  Rule <- MCRule
  NoRule = NoRule
  HighRisk = TRUE
  Day = 3
  MaxTime = 3
  MaxEdits = 0
  MaxFaults = 0
  MaxUpsets = 0
SYMMETRY Symmetry
INVARIANTS
  WindowRolls
CHECK_DEADLOCK FALSE
