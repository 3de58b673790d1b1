SPECIFICATION FairArchiveSpec
CONSTANTS
  launch = launch
  listing = listing
  simulator = simulator
  upload = upload
  first = first
  second = second
  Nobody = Nobody
  Managed = Managed
  Refreshes <- LaunchAndListing
  Simulations <- Simulator
  Uploads <- OneUpload
  Files <- GoodAndBadFiles
  RunIds <- TwoRuns
  PageDays = 2
  MinimumCandleCount = 2
  MaxDay = 5
INVARIANTS
  SeriesConsistent
  ArchiveTypeOK
  RunsKeepTheirSet
  SimulatedOnWholeSeries
PROPERTIES
  SeriesOnlyGrows
  AnsweredUpToDate
  RefreshesAnswered
  ImplementsHistory
