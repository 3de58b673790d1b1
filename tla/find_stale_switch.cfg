SPECIFICATION Spec
CONSTANTS
  w1 = w1
  w2 = w2
  Closes = {90, 150}
  Quotes = {}
  Averages = {60}
  Peaks = {200}
  Breakouts = {"UNCONFIRMED"}
  PivotDays = {}
  PivotRight = 1
  Profiles <- Default
  Rules <- OverrideOff
  Writers = {w1, w2}
  StartDay = 1
  MaxDay = 3
  MaxRecs = 2
PROPERTIES
  MilestonesSurviveSwitch
