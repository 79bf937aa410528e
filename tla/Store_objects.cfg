SPECIFICATION FairSpec
CONSTANTS
  Hashes = {a}
  Procs = {p1, p2, p3}
  MaxCrashes = 1
INVARIANTS AckedKept FileHasRow
PROPERTY Reconciles
