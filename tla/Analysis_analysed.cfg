SPECIFICATION FairSpec
CONSTANTS
  Refs = {a, b}
  MaxTries = 2
  MaxRunning = 1
  StaleTicks = 1
  Prios = {0}
  Recovers = "unattended"
  Jobs = {j1, j2}
  Batch = 1
  MaxCalls = 1
  MaxCrashes = 1
PROPERTIES FailedKept AnalysedOnce Analysed
CHECK_DEADLOCK FALSE
