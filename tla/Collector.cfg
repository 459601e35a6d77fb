SPECIFICATION Spec
CONSTANTS
  None = None
  Pids = {p1}
  Ttl = 2
  MaxRounds = 4
  MaxBirths = 2
  MaxWork = 2
INVARIANTS RatesAreOwn RatesFitTheirWindow NeverPartial StreamIsWanted
\* The sampler thread ends and drops the collector.
CHECK_DEADLOCK FALSE
