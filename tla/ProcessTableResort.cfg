SPECIFICATION TableSpec
CONSTANTS
  None = None
  Pids = {p1, p2}
  MaxBirths = 0
  MaxKeys = 1
PROPERTIES
  ResortKeepsSelection
