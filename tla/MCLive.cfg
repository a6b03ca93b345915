CONSTANTS
  None = None
  s1 = s1
  Symbols = {s1}
  MaxDrawdownPct = 15
  DailyLossPct = 10
  MaxConsecutiveLosses = 2
  KellyPct = 50
  MaxRiskPerTradePct = 20
  MaxPositionPct = 30
  MaxTotalExposurePct = 80
  MaxSectorExposurePct = 25
  WinRatePct = 100
  AvgWin = 1
  AvgLoss = 1
  SectorOf <- MCSectorOf
  TooCorrelated <- NoCorrelation
  Universe = {s1}
  WarmupBars = 1
  SignalThreshold = 20
  HostileRegimes = {1}
  Price = 1
  AccountEquities = {8, 10}
  Readings <- MCReadings
  MaxBars = 2
  MaxDays = 2
  MaxDrops = 1
  MaxSessions = 2
  CallsFail = TRUE
  OnlyWhenSettled = FALSE
SPECIFICATION Spec
INVARIANTS TrackerExactUnlessRaced SyncedBeforeFirstEvent
PROPERTIES OrdersAdmissible
\* The last session may have ended.
CHECK_DEADLOCK FALSE
