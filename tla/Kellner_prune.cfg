SPECIFICATION Spec
CONSTANTS
  Isrcs = {i1}
  MaxSaves = 0
  MaxWishes = 2
  MaxRuns = 3
  MaxFaults = 0
INVARIANT DownloadsStay
CHECK_DEADLOCK FALSE
