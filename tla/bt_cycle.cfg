SPECIFICATION Spec
CONSTANTS
  Opens = {50, 57, 142}
  Closes = {60, 137, 150}
  Peaks = {150}
  Breakouts = {"UNCONFIRMED", "CONFIRMED"}
  PivotDays = {1, 2, 4}
  PivotRight = 1
  Profiles <- Shipped
  Rules <- OverrideOn
  Fees = {2}
  Slippages = {5}
  StartingCash = 1000000
  FirstDay = 6
  LastDay = 11
INVARIANTS
  NoNegativeBalance
  SignalsSettled
  SpentWithinBudget
  ReferenceIsFill
  LevelsSoldOnce
  CampaignMatchesPosition
PROPERTIES
  BreakEvenKept
