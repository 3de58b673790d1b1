----------------------------- MODULE MarketFacts -----------------------------
(***************************************************************************)
(* How the facts the engine reads from the daily candles may change when   *)
(* the next completed candle arrives.  MarketStructure computes the facts  *)
(* from a series of candles and shows that these are the only changes.     *)
(***************************************************************************)
EXTENDS StrategyEngine

CONSTANTS
  Breakouts,    \* the breakout facts the market may show
  PivotDays,    \* days whose candle may turn out a local high or low
  PivotRight    \* candles after a pivot before it is confirmed

ASSUME MarketAssumptions ==
  /\ Breakouts \subseteq BreakoutFacts /\ "UNCONFIRMED" \in Breakouts
  /\ PivotDays \subseteq Nat \ {0}
  /\ PivotRight \in Nat \ {0}

KnownPivots(day) == {0} \union {d \in PivotDays : d <= day - PivotRight}

\* A pullback needs a local high, a breakout a pair with a high in between.
Consistent(m) ==
  /\ m.eligible => m.localHigh # 0
  /\ m.recovery = 0 => m.breakout = "UNCONFIRMED"

\* The candles a history starts with may already show any structure.
FirstFacts(day, closes, peaks) ==
  {m \in [day : {day}, close : closes, localHigh : KnownPivots(day),
          eligible : BOOLEAN, initialLow : KnownPivots(day),
          recovery : KnownPivots(day), breakout : Breakouts, peak : peaks] :
     Consistent(m) /\ (m.recovery # 0 => m.initialLow \in 1..m.recovery - 2)}

\* The only day the candle after m.day can confirm as a pivot.
FreshPivots(m) == PivotDays \intersect {m.day + 1 - PivotRight}

\* The newest rising pair of lows once the candle after m.day is complete, as
\* the day of its first low and the pair's identity, which is 0 for a pair
\* without a high in between.  Confirmed pivots never vanish, so the pair only
\* moves forward.
RisingPairs(m) ==
  {<<m.initialLow, m.recovery>>} \union
  {pair \in PivotDays \X ({0} \union FreshPivots(m)) :
     \E fresh \in FreshPivots(m) :
       pair[1] <= fresh - 2 /\ pair[1] > m.initialLow /\ pair[1] >= m.recovery}

NextFacts(m, close, peak) ==
  UNION {{n \in [day : {m.day + 1}, close : {close}, peak : {peak},
                 localHigh : {m.localHigh} \union FreshPivots(m),
                 eligible : BOOLEAN, initialLow : {pair[1]}, recovery : {pair[2]},
                 breakout : Breakouts] : Consistent(n)} : pair \in RisingPairs(m)}
=============================================================================
