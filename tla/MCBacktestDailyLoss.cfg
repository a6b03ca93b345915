CONSTANTS
  None = None
  s1 = s1
  s2 = s2
  Symbols = {s1, s2}
  MaxDrawdownPct = 15
  DailyLossPct = 3
  MaxConsecutiveLosses = 1
  KellyPct = 50
  MaxRiskPerTradePct = 20
  MaxPositionPct = 30
  MaxTotalExposurePct = 39
  MaxSectorExposurePct = 36
  WinRatePct = 80
  AvgWin = 1
  AvgLoss = 1
  SectorOf <- MCTech
  TooCorrelated <- MCPair
  Universe = {s1, s2}
  WarmupBars = 1
  SignalThreshold = 20
  HostileRegimes = {1}
  EntrySignal = 20
  ExitSignal = 0
  MaxHold = 2
  SentimentVeto <- MCVeto
  TopN = 1
  RebalanceEvery = 2
  Classes = {"momentum"}
  InitialCapital = 10000
  SlippageBps = 100
  CommissionPerShare = 1
  Days = 3
  TradeStart = 1
  Candles <- MCCandles
  Readings <- MCReadings
SPECIFICATION Spec
PROPERTIES DailyLossIsReal
CHECK_DEADLOCK FALSE
