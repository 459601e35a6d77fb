SPECIFICATION FairSpec
CONSTANTS
  None = None
  Pids = {p1, p2}
  Protected = {p2}
  MaxBirths = 1
  MaxKeys = 4
INVARIANTS
  CursorHolds
  TargetIsAsked
  BystandersSpared
PROPERTIES
  DetailCatchesUp
