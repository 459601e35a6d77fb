SPECIFICATION ReportsSpec
CONSTANTS
  None = None
  DepthLimit = 2
  Intervals <- MCIntervals
  Policies = {"strict", "off"}
  Prompts = {0, 700}
  Word = 1000000000
  MaxRounds = 2
  PathLength = 3
  Samples <- MCSamples
  Sockets = {s1, s2}
  Processes = {p1}
  Interfaces = {en0, lo0}
  States = {established, closing}
  Day = 4
  Longest = 1
  Deadline = 2
  MaxFlows = 1
  MaxUses = 2
  DataTypes = {1, 2, 3}
  Ranking <- MCRanking
  Transport <- MCTransport
  Areas <- MCAreas
  Deepest = 15
INVARIANTS
  NothingPrivateShown RatesAreTimed ReportIsAsAsked FlowsAreHonest PageIsReadable
SYMMETRY Symmetry
