SPECIFICATION FairSpec
CONSTANTS
  ticker = ticker
  dashboard = dashboard
  manual = manual
  Nobody = Nobody
  Assets <- OneAsset
  FullRequests <- TickerAndManual
  PriceRequests <- NoRequests
  DailyCandleLimit = 2
  RecordLimits <- One
  DefaultLimit = 1
  MaxTick = 3
  MaxDay = 5
INVARIANTS
  CandlesFinal
  RecentHistoryComplete
PROPERTIES
  RequestsAnswered
