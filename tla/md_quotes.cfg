SPECIFICATION Spec
CONSTANTS
  ticker = ticker
  dashboard = dashboard
  manual = manual
  Nobody = Nobody
  Assets <- BTCAndETH
  FullRequests <- Ticker
  PriceRequests <- Dashboard
  DailyCandleLimit = 2
  RecordLimits <- OneOrTwo
  DefaultLimit = 2
  MaxTick = 2
  MaxDay = 4
INVARIANTS
  HistoryKeepsNewest
PROPERTIES
  QuoteNeverGoesBack
  AnswerTellsTheStore
