SPECIFICATION HungDetailSpec
CONSTANTS
  None = None
  SampleRequest = SampleRequest
  Modes = {"Overview", "Network"}
  Snapshots = {"gpu"}
  GpuSnapshots = {"gpu"}
  Intervals = {1}
  Cooldown = 1
  BusyPoll = 1
  PausedPoll = 2
  MaxGeneration = 2
PROPERTIES
  SamplingContinues
