SPECIFICATION Spec
CONSTANTS
  Cron = {}
  Interval = {i1}
  Proactive = {}
  Malformed = {}
  Webhook = {w1}
  Pack = {i1}
  Runner = Runner
  Hand = {h1}
  Cli = {c1}
  NoJob = NoJob
  Period = 1
  MaxJobsPerTick = 2
  MaxAttempts = 2
  Budget = 1
  Day = 2
  Channel = 1
  MaxTime = 2
  MaxWrites = 2
  MaxPushes = 1
  MaxFaults = 1
  MaxCrashes = 1
INVARIANTS
  PauseTakesHold
  DueTimeRunsOnce
  AttemptsAudited
CHECK_DEADLOCK FALSE
