SPECIFICATION MCSpec
CONSTANTS
  Tracks = {t1, t2}
  OrderIds = {o1, o2}
  Procs = {p1, p2}
  MaxCrashes = 1
  Refs = {a}
  MaxTries = 2
  MaxRunning = 1
  StaleTicks = 1
  Prios = {0}
  Recovers = "any"
  Jobs = {j1, j2}
  Batch = 1
  MaxCalls = 2
  Songs = {s1}
  Handlers = {h1}
  Clis = {c1}
  Cap = 1
  MaxRequests = 1
  MaxClicks = 2
  MaxFails = 1
INVARIANTS TypeOK DoneIsReady StatusDerived GuardExact BilledBound
PROPERTY CancelFinal
SYMMETRY SafetySymmetry
CHECK_DEADLOCK FALSE
