-------------------------- MODULE MarketStructure --------------------------
(***************************************************************************)
(* How the advisor reads structure out of a series of completed daily      *)
(* candles (backend/internal/strategy and backend/internal/ath): confirmed *)
(* pivots, the correction, the recovery and its breakout, the trend filter *)
(* and the reference of spaced historical peaks.  The series grows by one  *)
(* candle a day; an index is a day.  The module shows that the facts it    *)
(* yields change only as MarketFacts lets them.                            *)
(***************************************************************************)
EXTENDS MarketFacts, SequencesExt

CONSTANTS
  Candles,          \* the daily candles that may come, records of high, low, close
  MaxDays,          \* bound: length of the series
  PivotLeft,        \* candles before a pivot that it must exceed
  PullbackMin,      \* percentages of a strategy profile
  BreakoutBuffer,
  TrendMode,        \* its trend mode
  TrendPeriod,      \* closes of the trend average
  PeakCount,        \* the spaced peaks averaged
  PeakSpacing       \* days between two of them

ASSUME StructureAssumptions ==
  /\ Candles \subseteq [high : Nat \ {0}, low : Nat \ {0}, close : Nat \ {0}]
  /\ \A c \in Candles : c.low <= c.close /\ c.close <= c.high
  /\ MaxDays \in Nat /\ PivotLeft \in Nat \ {0}
  /\ PullbackMin \in Percent /\ BreakoutBuffer \in 0..100
  /\ TrendMode \in {"STRICT", "RECOVERY", "OFF"} /\ TrendPeriod \in Nat \ {0}
  /\ PeakCount \in 1..20 /\ PeakSpacing \in Nat \ {0}

VARIABLE candles

-----------------------------------------------------------------------------
(***************************************************************************)
(* Pivots.                                                                 *)
(***************************************************************************)
Newest(S) == IF S = {} THEN 0 ELSE CHOOSE d \in S : \A e \in S : e <= d

Before(S, day) == {d \in S : d < day}

Price(cs) == cs[Len(cs)].close

Window(cs, d) == {e \in DOMAIN cs : e # d /\ d - PivotLeft <= e /\ e <= d + PivotRight}

\* Fault: a pivot does not wait for the candles after it.
HasLeftWindow(cs, d) == d > PivotLeft

HasWindow(cs, d) == d > PivotLeft /\ d + PivotRight <= Len(cs)

LocalHighs(cs) ==
  {d \in DOMAIN cs : HasWindow(cs, d) /\ \A e \in Window(cs, d) : cs[d].high > cs[e].high}

LocalLows(cs) ==
  {d \in DOMAIN cs : HasWindow(cs, d) /\ \A e \in Window(cs, d) : cs[d].low < cs[e].low}

(***************************************************************************)
(* Correction, recovery and breakout.  Day 0 stands for "none".            *)
(***************************************************************************)
Eligible(cs) ==
  LET high == Newest(LocalHighs(cs))
  IN  high # 0 /\ Price(cs) * 100 <= cs[high].high * (100 - PullbackMin)

\* Pairs of consecutive lows of which the second is the higher one.
HigherLows(cs) ==
  {pair \in LocalLows(cs) \X LocalLows(cs) :
     /\ pair[1] = Newest(Before(LocalLows(cs), pair[2]))
     /\ cs[pair[2]].low > cs[pair[1]].low}

NewestPair(pairs) ==
  IF pairs = {} THEN <<0, 0>>
  ELSE CHOOSE p \in pairs : \A q \in pairs : q[2] <= p[2]

\* Fault: only the second low has to follow the anchor.
HigherLowAcrossAnchor(cs, after) ==
  NewestPair({p \in HigherLows(cs) : p[2] > after})

LatestHigherLow(cs, after) ==
  NewestPair({p \in HigherLows(cs) : p[1] > after})

\* Fault: the high may follow the higher low.
NewestHigh(cs, pair) == Newest({h \in LocalHighs(cs) : pair[1] < h /\ pair[1] # 0})

RecoveryHigh(cs, pair) == Newest({h \in LocalHighs(cs) : pair[1] < h /\ h < pair[2]})

FindRecovery(cs, after) ==
  LET pair == LatestHigherLow(cs, after)
  IN  [initialLow |-> pair[1], higherLow |-> pair[2], high |-> RecoveryHigh(cs, pair)]

Confirmed(cs, recovery) ==
  /\ recovery.high # 0
  /\ Price(cs) * 100 > cs[recovery.high].high * (100 + BreakoutBuffer)

ClassifyTrend(cs) ==
  LET total == MapThenSumSet(LAMBDA d : cs[d].close, (Len(cs) - TrendPeriod + 1)..Len(cs))
  IN  IF Len(cs) < TrendPeriod THEN "UNKNOWN"
      ELSE IF Price(cs) * TrendPeriod > total THEN "BULLISH" ELSE "BEARISH"

\* Asked only for a confirmed breakout, which is a strong recovery.
EntryAllowedByTrend(trend) ==
  \/ TrendMode = "STRICT" /\ trend = "BULLISH"
  \/ TrendMode = "RECOVERY" /\ trend \in {"BULLISH", "BEARISH"}
  \/ TrendMode = "OFF"

(***************************************************************************)
(* The reference peak: the highest days before a day, spaced apart, the    *)
(* highest first.  Equal highs may come in either order.                   *)
(***************************************************************************)
PeakCandidates(cs, day) == Before(DOMAIN cs, day)

\* Fault: off by one.
AlmostApart(d, e) == d - e >= PeakSpacing - 1 \/ e - d >= PeakSpacing - 1

Apart(d, e) == d - e >= PeakSpacing \/ e - d >= PeakSpacing

SelectedPeaks(cs, day) ==
  LET left(sel) == {d \in PeakCandidates(cs, day) \ sel : \A e \in sel : Apart(d, e)}
      best(sel) == {d \in left(sel) : \A e \in left(sel) : cs[e].high <= cs[d].high}
      pick[k \in 0..PeakCount] ==
        IF k = 0 THEN {{}}
        ELSE UNION {IF best(sel) = {} THEN {sel} ELSE {sel \union {d} : d \in best(sel)} :
                      sel \in pick[k - 1]}
  IN  pick[PeakCount]

\* The averages the selection may give, 0 without a peak.
ReferencePeaks(cs, day) ==
  {IF sel = {} THEN 0
   ELSE MapThenSumSet(LAMBDA d : cs[d].high, sel) \div Cardinality(sel) :
     sel \in SelectedPeaks(cs, day)}

-----------------------------------------------------------------------------
Facts(cs, peak) ==
  LET recovery == FindRecovery(cs, 0)
  IN  [day |-> Len(cs), close |-> Price(cs), peak |-> peak,
       localHigh |-> Newest(LocalHighs(cs)), eligible |-> Eligible(cs),
       initialLow |-> recovery.initialLow,
       recovery |-> IF recovery.high = 0 THEN 0 ELSE recovery.higherLow,
       breakout |-> IF ~Confirmed(cs, recovery) THEN "UNCONFIRMED"
                    ELSE IF EntryAllowedByTrend(ClassifyTrend(cs)) THEN "CONFIRMED"
                    ELSE "FILTERED"]

Init == candles \in {<<c>> : c \in Candles}

NextDay ==
  /\ Len(candles) < MaxDays
  /\ \E c \in Candles : candles' = Append(candles, c)

Next == NextDay

Spec == Init /\ [][Next]_candles

-----------------------------------------------------------------------------
(***************************************************************************)
(* What must hold.                                                         *)
(***************************************************************************)
\* A confirmed pivot never disappears when a later candle arrives: no signal
\* rests on structure that repaints.
PivotsPersist ==
  [][LocalHighs(candles) \subseteq LocalHighs(candles')
     /\ LocalLows(candles) \subseteq LocalLows(candles')]_candles

\* The facts change only as MarketFacts lets them, and every series may be the
\* history an installation or a backtest starts with: so the advisor and the
\* simulator are checked against every series the bound admits, and more.
FactsAdvance ==
  [][\A p \in ReferencePeaks(candles, Len(candles)),
        q \in ReferencePeaks(candles', Len(candles')) :
       /\ Facts(candles', q) \in NextFacts(Facts(candles, p), Price(candles'), q)
       /\ Facts(candles', q) \in FirstFacts(Len(candles'), {Price(candles')}, {q})]_candles

\* A recovery after any anchor is the newest one, or there is none: the engine
\* may compare the newest pair with the anchor instead of searching again.
AnchoredRecovery ==
  \A anchor \in 1..Len(candles) :
    LET m == Facts(candles, 0)
        r == FindRecovery(candles, anchor)
    IN  IF m.recovery = 0 \/ m.initialLow <= anchor THEN r.high = 0
        ELSE r = FindRecovery(candles, 0)

\* The identity of a breakout that was used for an entry stands for one
\* recovery high for good, although newer highs are confirmed later.
BreakoutKeepsItsHigh ==
  [][LET old == FindRecovery(candles, 0)
         new == FindRecovery(candles', 0)
     IN  old.higherLow = new.higherLow => old.high = new.high]_candles

\* The reference peaks are spaced, no better choice was passed over, and one
\* outside them is missing only for a higher peak too close to it or because
\* the count is reached.
PeaksJustified ==
  \A sel \in SelectedPeaks(candles, Len(candles)) :
    /\ \A d, e \in sel : d # e => d - e \notin (-PeakSpacing + 1)..(PeakSpacing - 1)
    /\ \A d \in 1..(Len(candles) - 1) \ sel :
         \/ Cardinality(sel) = PeakCount /\ \A e \in sel : candles[e].high >= candles[d].high
         \/ \E e \in sel : /\ candles[e].high >= candles[d].high
                           /\ d - e \in (-PeakSpacing + 1)..(PeakSpacing - 1)
=============================================================================
