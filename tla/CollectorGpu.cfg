SPECIFICATION Spec
CONSTANTS
  None = None
  Pids = {p1}
  Ttl = 2
  MaxRounds = 2
  MaxBirths = 2
  MaxWork = 1
INVARIANT GpuRatesAreOwn
CHECK_DEADLOCK FALSE
