CONSTANTS
  None = None
  NBars = 12
  NWindows = 2
  IsOosRatio = 2
  MinTrades = 2
  MaxDrawdown = 20
  MinWfePct = 50
  Returns <- MCReturns
  Trades = {0, 1}
  Drawdowns = {10, 30}
  Sharpes = {1, 2}
  MinSharpe = 2
  FeatureWarmup = 1
  VolSpan = 2
  TargetWidth = 2
  StopWidth = 2
  Horizon = 2
  TrainPct = 60
  ValidPct = 20
  WarmupDays = 3
  MaxWalks = 2
  Histories <- MCHistories
  momentum_lightgbm = momentum_lightgbm
  mean_reversion = mean_reversion
  mean_reversion_sentiment = mean_reversion_sentiment
  Strategies = {momentum_lightgbm, mean_reversion, mean_reversion_sentiment}
  Trained = {momentum_lightgbm}
  NeedNews = {mean_reversion_sentiment}
  Continuations <- MCContinuations
  MaxClock = 1
SPECIFICATION PromotionSpec
INVARIANTS PromotionTypeOK NoLookahead OosTouchedOnce ClearedMeansEarned TrainedOnThePast LabelsTellOutcome ComparisonIsPaired
PROPERTIES StartsOnLastVerdict OnlyConcludedWalksCount
\* The bound on walks may be reached.
CHECK_DEADLOCK FALSE
