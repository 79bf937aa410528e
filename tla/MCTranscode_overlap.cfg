SPECIFICATION Spec
CONSTANTS
  Refs = {a}
  MaxTries = 2
  MaxRunning = 2
  StaleTicks = 1
  Prios = {0}
  Recovers = "any"
  Jobs = {j1, j2}
  Sources = {"flac"}
  Ingests = FALSE
  Collectors = {c1}
  MaxFiles = 1
  MaxCalls = 0
  MaxCrashes = 0
INVARIANT OneWorker
CHECK_DEADLOCK FALSE
