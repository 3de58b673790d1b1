SPECIFICATION Spec
CONSTANTS
  w1 = w1
  w2 = w2
  Closes = {60, 90, 150}
  Quotes = {84}
  Averages = {60}
  Peaks = {200}
  Breakouts = {"UNCONFIRMED"}
  PivotDays = {}
  PivotRight = 1
  Profiles <- Default
  Rules <- OverrideOn
  Writers = {}
  StartDay = 1
  MaxDay = 4
  MaxRecs = 4
INVARIANTS
  DrawdownsNested
PROPERTIES
  ExitsNeverAutoDismissed
  ExecutedConsumesExactly
