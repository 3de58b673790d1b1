----------------------------- MODULE MCBacktest -----------------------------
(* Values for the constants of Backtest. *)
EXTENDS Backtest, TLC

Profile(entry, trigger) ==
  [entry |-> entry, profitTrigger |-> trigger, profitTake |-> 25,
   drawdown |-> <<-5, -8, -10>>, drawdownSell |-> <<25, 50, 100>>,
   dip |-> (2 :> 5 @@ 3 :> 10), feeBps |-> 10, floor |-> TRUE,
   intraday |-> FALSE, peakDiscount |-> 0]

\* The shipped Dip Accumulation profile.
Shipped == {Profile(<<20, 30, 50>>, 60)}

OverrideOn  == {[enabled |-> TRUE, threshold |-> 60]}
OverrideOff == {[enabled |-> FALSE, threshold |-> 60]}

OverrideOnOff == OverrideOff \union OverrideOn
=============================================================================
