SPECIFICATION FairSpec
CONSTANTS
  Tracks = {y1, y2}
  Deezer = {}
  MaxAttempts = 2
  StaleTicks = 2
  MaxInflight = 1
  YtSlots = 1
  Jobs = {j1, j2}
  MaxCalls = 0
  MaxCrashes = 1
  Lapses = "unattended"
  Recovers = "unattended"
INVARIANTS TypeOK Lockstep
PROPERTIES PoolSpec Settles
