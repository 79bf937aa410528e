SPECIFICATION MCFairSpec
CONSTANTS
  Tracks = {1, 2}
  MaxRefs = 2
  Limit = 1
  OrderBatch = 1
  Boost = 2
  MaxChanges = 3
  MaxTouches = 1
  MaxFaults = 1
  MaxEdits = 1
  MaxAsks = 1
  MaxIngests = 1
  MaxListings = 1
  MaxStops = 1
  Isrcs = {i1}
  MaxSaves = 1
  MaxWishes = 2
  MaxRuns = 2
  Songs = {s1}
  Handlers = {h1}
  Clis = {}
  Cap = 1
  MaxRequests = 2
  MaxClicks = 1
  MaxFails = 1
INVARIANTS PartTypes LedgerSent ItemsCurrentAlone MembersHaveFiles
PROPERTIES PrioritiesCaughtUp AskedServed NmlReaches FoundKept RequestsEnd
CHECK_DEADLOCK FALSE
