SPECIFICATION MCFairSpec
CONSTANTS
  Tracks = {d1}
  Deezer = {d1}
  MaxAttempts = 1
  StaleTicks = 2
  MaxInflight = 1
  YtSlots = 1
  Jobs = {j1, j2}
  MaxCalls = 1
  MaxCrashes = 1
  MaxEvents = 1
  Lapses = "any"
  Recovers = "any"
INVARIANT FinalizeGuard
PROPERTIES SettlesOrStrands RetryBudget ReadyKeptAlone
