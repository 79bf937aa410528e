SPECIFICATION FairSpec
CONSTANTS
  Refs = {a, b}
  MaxTries = 2
  MaxRunning = 1
  StaleTicks = 1
  Prios = {0}
  Recovers = "unattended"
  Jobs = {j1, j2}
  Sources = {"flac", "320"}
  Ingests = TRUE
  Collectors = {c1}
  MaxFiles = 2
  MaxCalls = 1
  MaxCrashes = 1
INVARIANTS FilesWhole
PROPERTIES LifeSpec FailsOut Derived
CHECK_DEADLOCK FALSE
