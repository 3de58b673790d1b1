SPECIFICATION Spec
CONSTANTS
  Assets <- OneAsset
  Slots = {1, 2}
  Advised = {"OVERRIDE", "SALE"}
  MayFail = FALSE
  MaxRecs = 2
  MaxSaves = 1
  MaxQuotes = 1
  MaxAnswers = 1
INVARIANTS
  SavedPositionShown
