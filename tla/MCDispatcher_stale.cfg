SPECIFICATION FairSpec
CONSTANTS
  Tracks = {d1}
  Deezer = {d1}
  MaxAttempts = 2
  StaleTicks = 2
  MaxInflight = 1
  YtSlots = 1
  Jobs = {j1}
  MaxCalls = 0
  MaxCrashes = 1
  Lapses = "unattended"
  Recovers = "any"
PROPERTY StaleRecovered
