CONSTANTS
  None = None
  NaN = NaN
  tech = tech
  energy = energy
  Symbols = {1, 2, 3, 4}
  Days = {1, 2, 3, 4, 5}
  Weekend = {3}
  Feeds <- MCFeeds
  MaxTries = 2
  PageSize = 3
  MinPrice = 10
  MinDollarVolume = 50
  DvWindow = 2
  MinHistory = 3
  MaxRangePct = 20
  MomentumWindow = 2
  UniverseSize = 2
  MaxPerSector = 1
  MinDays = 3
  TopN = 2
  MaxPerDay = 2
  LookbackDays = 2
  Assets = {1, 2, 3}
  ConfigUniverse <- MCUniverse
  Spans <- MCSpans
  SyncDays = {0, 3}
  BatchSize = 2
  SectorMaps <- MCSectorMaps
  MaxRuns = 3
SPECIFICATION ResearchSpec
INVARIANTS ResearchTypeOK NewsIsOlderThanBar
PROPERTIES CommitsOldestFirst OkMeansSynced ScreenedIsBest BuiltIsMostLiquid EveryProgramEnds
\* The bound on runs is reached.
CHECK_DEADLOCK FALSE
