SPECIFICATION SafetySpec
CONSTANTS
  None = None
  SampleRequest = SampleRequest
  Modes = {"Overview", "Disk", "Network", "Gpu"}
  Snapshots = {"gpu", "plain"}
  GpuSnapshots = {"gpu"}
  Intervals = {2, 3}
  Cooldown = 2
  BusyPoll = 1
  PausedPoll = 4
  MaxGeneration = 2
INVARIANTS
  OneRequestPerLane
  SendsSucceed
  LoadingIsTrue
  ScreenIsCurrent
  NeverOversleeps
  FreedLaneIsUsed
PROPERTIES
  NoStaleDetail
  PauseFreezes
