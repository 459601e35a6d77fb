SPECIFICATION Spec
CONSTANTS
  None = None
  SampleRequest = SampleRequest
  Modes = {"Overview", "Network"}
  Snapshots = {"gpu"}
  GpuSnapshots = {"gpu"}
  Intervals = {1}
  Cooldown = 0
  BusyPoll = 0
  PausedPoll = 1
  MaxGeneration = 2
PROPERTIES
  PageIsServed
  LoopAndThreadsEnd
  LanesImplemented
