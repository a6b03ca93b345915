CONSTANTS
  None = None
  momentum_lightgbm = momentum_lightgbm
  mean_reversion = mean_reversion
  mean_reversion_sentiment = mean_reversion_sentiment
  Strategies = {momentum_lightgbm, mean_reversion, mean_reversion_sentiment}
  Continuations <- MCContinuations
  MaxClock = 1
SPECIFICATION PaperSpec
PROPERTIES StartsOnOwnVerdict
