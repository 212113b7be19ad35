SPECIFICATION SkillSpec
CONSTANTS
  c1 = c1
  c2 = c2
  p1 = p1
  p2 = p2
  d1 = d1
  d2 = d2
  s1 = s1
  Call <- MCCall
  Policy <- MCPolicy
  Rule <- MCRule
  Decision <- MCDecision
  Skill <- MCSkill
  NoRule = NoRule
  NoCall = NoCall
  HighRisk = FALSE
  Day = 2
  MaxTime = 1
  MaxEdits = 0
  MaxFaults = 0
  MaxUpsets = 0
SYMMETRY Symmetry
INVARIANTS
  RejectionStands
CHECK_DEADLOCK FALSE
