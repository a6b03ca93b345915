CONSTANTS
  None = None
  MaxDrawdownPct = 10
  DailyLossPct = 3
  MaxConsecutiveLosses = 2
  Equities <- MCEquities
  Pnls <- MCPnls
  MaxCalls = 6
SPECIFICATION Spec
INVARIANTS HaltedIffBreached AlertNamesFirstBreach LongStreakIsHalted
PROPERTIES OnlyResetResumes
\* The history is full.
CHECK_DEADLOCK FALSE
