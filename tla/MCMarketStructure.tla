------------------------- MODULE MCMarketStructure -------------------------
(* Daily candles for MarketStructure: a trough, a higher trough, a quiet    *)
(* day, a peak and a breakout.                                              *)
EXTENDS MarketStructure

Day(low, high, close) == [low |-> low, high |-> high, close |-> close]

Shapes == {Day(80, 90, 85), Day(84, 95, 90), Day(88, 104, 100), Day(95, 110, 110)}
=============================================================================
