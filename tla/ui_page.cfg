SPECIFICATION FairSpec
CONSTANTS
  Assets <- OneAsset
  Slots = {1, 2}
  Advised = {"OVERRIDE", "SALE"}
  MayFail = TRUE
  MaxRecs = 2
  MaxSaves = 1
  MaxQuotes = 1
  MaxAnswers = 2
INVARIANTS
  QuietPageIsCurrent
PROPERTIES
  PriceNeverGoesBack
  AnswersWhatWasShown
  RefreshEnds
