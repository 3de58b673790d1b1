SPECIFICATION Spec
CONSTANTS
  Candles <- Shapes
  MaxDays = 7
  Breakouts = {"UNCONFIRMED", "FILTERED", "CONFIRMED"}
  PivotDays = {1, 2, 3, 4, 5, 6, 7}
  PivotLeft = 1
  PivotRight = 2
  PullbackMin = 10
  BreakoutBuffer = 0
  TrendMode = "STRICT"
  TrendPeriod = 4
  PeakCount = 2
  PeakSpacing = 3
INVARIANTS
  PeaksJustified
  AnchoredRecovery
PROPERTIES
  FactsAdvance
  PivotsPersist
  BreakoutKeepsItsHigh
CHECK_DEADLOCK FALSE
