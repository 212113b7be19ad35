SPECIFICATION LiveSpec
CONSTANTS
  Cron = {k1}
  Interval = {}
  Proactive = {p1}
  Malformed = {}
  Webhook = {w1}
  Pack = {}
  Runner = Runner
  Hand = {}
  Cli = {}
  NoJob = NoJob
  Period = 1
  MaxJobsPerTick = 2
  MaxAttempts = 1
  Budget = 1
  Day = 2
  Channel = 1
  MaxTime = 2
  MaxWrites = 1
  MaxPushes = 1
  MaxFaults = 1
  MaxCrashes = 0
PROPERTIES
  DueJobRuns
  EventFires
CHECK_DEADLOCK FALSE
