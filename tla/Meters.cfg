SPECIFICATION MetersSpec
CONSTANTS
  None = None
  Interfaces = {en0}
  Volumes = {v1, v2}
  Wrap = 3
  MaxRounds = 3
  MaxEvents = 4
  Initial = 1
  Maximum = 9
  Attempts = 4
  MostClients = 11
  Names = {n1, n2}
  Disks = {d1}
  TreePids = {1, 2, 3, 4}
  Threads = {t1, t2, t3}
  MaxOpenings = 2
  MostDropped = 1
  MaxQueued = 2
  MaxFrames = 4
  MaxClock = 4
  MaxStarts = 2
  Dies = {die0, die1}
  Amounts = {0, 1}
  MostKinds = 3
  Rows = {1, 2}
  Readings <- MCReadings
  HistoryMax = 2
  GpuHistoryMax = 2
  MaxSnapshots = 3
  Hosts = {h1, h2}
  Plugs = {p1, p2, p3}
  Between = 2
  MaxHops = 5
  Room = 4
  Pids = {p1, p2}
  Texts = {x, y}
  MaxLines = 5
INVARIANTS
  RatesAreReal GpuListIsWhole EachDeviceOnce TreeIsFaithful
  HandleIsAlone EveryFrameOnce SampleIsTrue FiguresAreMeasured DevicesUnderTheirBus RowsAreOwn
PROPERTIES SteadyRates
\* A part ends with its answer; after the last snapshot the machine may rest.
CHECK_DEADLOCK FALSE
