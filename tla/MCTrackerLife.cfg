CONSTANTS
  None = None
  s1 = s1
  s2 = s2
  Symbols = {s1, s2}
  Qtys = {1, 2}
  Prices <- MCPrices
  Snapshots <- MCSnapshots
  MaxFills = 4
SPECIFICATION Spec
INVARIANTS EntryPriceWasTraded
PROPERTIES KeepsLedger
