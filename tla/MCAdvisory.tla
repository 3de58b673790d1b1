----------------------------- MODULE MCAdvisory -----------------------------
(* Values for the constants of Advisory: the shipped BTC profile with the   *)
(* percentages that matter to a run, over a handful of prices.              *)
EXTENDS Advisory, TLC

CONSTANTS w1, w2

Profile(drawdown, trigger) ==
  [entry |-> <<20, 30, 50>>, profitTrigger |-> trigger, profitTake |-> 25,
   drawdown |-> drawdown, drawdownSell |-> <<25, 50, 100>>,
   dip |-> (2 :> 5 @@ 3 :> 10), feeBps |-> 10, floor |-> TRUE,
   intraday |-> TRUE, peakDiscount |-> 10]

Default == {Profile(<<-5, -8, -10>>, 50)}

OverrideOff  == {[enabled |-> FALSE, threshold |-> 60]}
OverrideOn   == {[enabled |-> TRUE, threshold |-> 60]}
OverrideOnOff == OverrideOff \union OverrideOn
=============================================================================
