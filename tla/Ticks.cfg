SPECIFICATION Search
CONSTANTS
  Precision = 1000
  MaxTickExp = 12
  PrecomputedPrices <- MCPrices
  SellPrices <- MCSellPrices
INVARIANTS WithinOneTick
CHECK_DEADLOCK FALSE
