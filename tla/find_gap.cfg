SPECIFICATION ArchiveSpec
CONSTANTS
  launch = launch
  listing = listing
  simulator = simulator
  first = first
  second = second
  upload = upload
  Nobody = Nobody
  Managed = Managed
  Refreshes <- LaunchAndListing
  Simulations <- Simulator
  Uploads <- OneUpload
  Files <- GoodAndBadFiles
  RunIds <- TwoRuns
  PageDays = 2
  MinimumCandleCount = 2
  MaxDay = 5
INVARIANTS
  AppendsNeverRejected
