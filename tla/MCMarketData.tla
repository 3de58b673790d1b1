---- MODULE MCMarketData ----
(***************************************************************************)
(* Small instances of MarketData: two assets, a handful of ticks and days. *)
(***************************************************************************)
EXTENDS MarketData

CONSTANTS ticker, dashboard, manual

BTCAndETH == <<"BTC", "ETH">>

OneAsset == <<"BTC">>

Ticker == {ticker}

TickerAndManual == {ticker, manual}

Dashboard == {dashboard}

NoRequests == {}

One == {1}

OneOrTwo == {1, 2}
====
