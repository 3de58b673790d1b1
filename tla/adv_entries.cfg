SPECIFICATION Spec
CONSTANTS
  w1 = w1
  w2 = w2
  Closes = {60, 80}
  Quotes = {}
  Averages = {80}
  Peaks = {100}
  Breakouts = {"UNCONFIRMED", "FILTERED", "CONFIRMED"}
  Profiles <- Default
  Rules <- OverrideOn
  PivotDays = {1, 2, 3, 4, 5, 6}
  PivotRight = 1
  Writers = {}
  StartDay = 5
  MaxDay = 7
  MaxRecs = 2
INVARIANTS
  ReentryNeedsNewCorrection
PROPERTIES
  AdviceFitsPosition
  ImplementsLife
