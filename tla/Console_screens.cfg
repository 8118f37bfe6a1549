SPECIFICATION Spec
CONSTANTS
  HwDevices = {"d1", "d2"}
  HwGpus = {"g1", "g2"}
  FittedTo <- Fitted
  Stable = {"g1"}
  HwProfiles = {"p1"}
  GlobalSaved = FALSE
  MaxSaves = 1
  MaxLoads = 2
  ChIds = {"c1", "c2"}
  MaxActions = 2
  MaxPolls = 2
  PrVersions = {1, 2}
  PrRefused = 2
  PrSaves = 2
  HiRanges = {300, 3600}
  HiDefault = 3600
  HiOffered <- Offered
  HiLinked = "gpu.gone"
  MaxNow = 1
  MaxStale = 2
  ChartTimes = {0, 1, 2, 3, 4}
  ChartBuckets = {1, 2}
  Cadence = 1
  SaKeep = 3
  SaFresh = 1
  SaMax = 2
  SaHorizon = 5
  MoDevices = {1, 2, 3}
  MoGroup <- Grouped
  SmallPage = 1
  LargePage = 2
  DeskPage = 3
  MoMoves = 4
INVARIANTS RulesOnFittedGpus PolicyCurrent SecretsStayHome CleanFormIsStored HistoryIsSelected ChartIsAnswer ReadingsInOrder
PROPERTIES WallShowsAll
CONSTRAINT WindowsAlone
CHECK_DEADLOCK FALSE
