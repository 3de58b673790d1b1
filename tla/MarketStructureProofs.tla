----------------------- MODULE MarketStructureProofs -----------------------
(***************************************************************************)
(* Proofs about the structure read from a series of candles, for every     *)
(* series, pivot window and profile.                                       *)
(*                                                                         *)
(* All rests on what one more candle does.  It can confirm one day as a    *)
(* pivot, PivotRight candles back, which is later than every day confirmed *)
(* before: so what was found stays, and only the newest can be new.        *)
(*                                                                         *)
(* The selection of peaks is a recursive function: it is shown to exist    *)
(* before anything is said of it.                                          *)
(***************************************************************************)
EXTENDS MarketStructure, WellFoundedInduction, FiniteSetTheorems, TLAPS

-----------------------------------------------------------------------------
(***************************************************************************)
(* The newest of a set of days.                                            *)
(***************************************************************************)

\* Days up to a last one have a largest element: shrinking what follows a day
\* is well founded.
LEMMA LargestDay ==
  ASSUME NEW n \in Nat, NEW S \in SUBSET (1..n), S # {}
  PROVE  \E x \in S : \A y \in S : y <= x
<1> DEFINE After(x) == (x + 1)..n
           T == {After(x) : x \in S}
           R == StrictSubsetOrdering(Nat)
<1>1. IsWellFoundedOn(R, FiniteSubsetsOf(Nat))
  BY FS_StrictSubsetOrderingWellFounded
<1>2. \A x \in S : After(x) \in FiniteSubsetsOf(Nat)
  <2>1. ASSUME NEW x \in S PROVE After(x) \in FiniteSubsetsOf(Nat)
    <3>1. IsFiniteSet(After(x)) /\ After(x) \in SUBSET Nat
      BY FS_Interval
    <3>2. QED BY <3>1 DEF FiniteSubsetsOf
  <2>2. QED BY <2>1
<1>3. PICK F \in T : \A G \in T : ~ (<<G, F>> \in R)
  <2>1. T \subseteq FiniteSubsetsOf(Nat) /\ T # {}
    BY <1>2
  <2> HIDE DEF R, T
  <2>2. QED BY <1>1, <2>1, WFMin
<1>4. PICK x \in S : F = After(x)
  OBVIOUS
<1>5. ASSUME NEW y \in S PROVE y <= x
  <2>1. y \in 1..n /\ x \in 1..n /\ After(y) \in T
    OBVIOUS
  <2>2. x < y => After(y) \subseteq After(x) /\ y \in After(x) /\ y \notin After(y)
    BY <2>1
  <2>3. x < y => <<After(y), After(x)>> \in R
    BY <2>1, <2>2, SMTT(20) DEF StrictSubsetOrdering
  <2> HIDE DEF R, T, After
  <2>4. QED BY <1>3, <1>4, <2>1, <2>3
<1>6. QED BY <1>5

LEMMA NewestDay ==
  ASSUME NEW n \in Nat, NEW S \in SUBSET (1..n)
  PROVE  /\ S = {} => Newest(S) = 0
         /\ S # {} => Newest(S) \in S /\ \A e \in S : e <= Newest(S)
         /\ \A x \in S : (\A e \in S : e <= x) => Newest(S) = x
<1>1. S = {} => Newest(S) = 0
  BY DEF Newest
<1>2. ASSUME S # {} PROVE Newest(S) \in S /\ \A e \in S : e <= Newest(S)
  <2>1. \E d \in S : \A e \in S : e <= d
    BY <1>2, LargestDay
  <2>2. QED BY <1>2, <2>1 DEF Newest
<1>3. ASSUME NEW x \in S, \A e \in S : e <= x PROVE Newest(S) = x
  <2> DEFINE m == Newest(S)
  <2>1. m <= x /\ x <= m /\ m \in S
    BY <1>2, <1>3
  <2> HIDE DEF m
  <2>2. m \in Nat /\ x \in Nat
    BY <2>1
  <2>3. m = x
    BY <2>1, <2>2
  <2>4. QED BY <2>3 DEF m
<1>4. QED BY <1>1, <1>2, <1>3

-----------------------------------------------------------------------------
(***************************************************************************)
(* Pivots.                                                                 *)
(***************************************************************************)
\* The day that the candle after cs can confirm.
Fresh(cs) == Len(cs) + 1 - PivotRight

LEMMA PivotDay ==
  ASSUME NEW cs \in Seq(Candles)
  PROVE  /\ LocalHighs(cs) \in SUBSET (1..Len(cs)) /\ LocalLows(cs) \in SUBSET (1..Len(cs))
         /\ Len(cs) \in Nat /\ Fresh(cs) \in Int
         /\ \A d \in LocalHighs(cs) \union LocalLows(cs) : d < Fresh(cs)
<1>1. Len(cs) \in Nat /\ DOMAIN cs = 1..Len(cs) /\ PivotRight \in Nat
  BY MarketAssumptions
<1>2. LocalHighs(cs) \in SUBSET (1..Len(cs)) /\ LocalLows(cs) \in SUBSET (1..Len(cs))
  BY <1>1 DEF LocalHighs, LocalLows
<1>3. ASSUME NEW d \in LocalHighs(cs) \union LocalLows(cs) PROVE d < Fresh(cs)
  <2>1. d + PivotRight <= Len(cs) /\ d \in Nat
    BY <1>1, <1>2 DEF LocalHighs, LocalLows, HasWindow
  <2>2. QED BY <1>1, <2>1 DEF Fresh
<1>4. QED BY <1>1, <1>2, <1>3 DEF Fresh

\* One more candle leaves the windows that were complete as they are.
LEMMA WindowKept ==
  ASSUME NEW cs \in Seq(Candles), NEW c \in Candles
  PROVE  LET new == Append(cs, c) IN
         /\ new \in Seq(Candles) /\ Len(new) = Len(cs) + 1
         /\ \A d \in 1..Len(cs) : new[d] = cs[d]
         /\ \A d \in 1..Len(cs) : d + PivotRight <= Len(cs) =>
              /\ HasWindow(new, d) <=> HasWindow(cs, d)
              /\ Window(new, d) = Window(cs, d)
              /\ Window(cs, d) \subseteq 1..Len(cs)
<1> DEFINE new == Append(cs, c)
<1>1. /\ new \in Seq(Candles) /\ Len(new) = Len(cs) + 1 /\ Len(cs) \in Nat
      /\ \A d \in 1..Len(cs) : new[d] = cs[d]
      /\ DOMAIN new = 1..Len(new) /\ DOMAIN cs = 1..Len(cs)
  OBVIOUS
<1> HIDE DEF new
<1>2. PivotRight \in Nat /\ PivotLeft \in Nat
  BY MarketAssumptions, StructureAssumptions
<1>3. ASSUME NEW d \in 1..Len(cs), d + PivotRight <= Len(cs)
      PROVE  /\ HasWindow(new, d) <=> HasWindow(cs, d)
             /\ Window(new, d) = Window(cs, d)
             /\ Window(cs, d) \subseteq 1..Len(cs)
  BY <1>1, <1>2, <1>3 DEF HasWindow, Window
<1>4. QED BY <1>1, <1>3 DEF new

\* A candle confirms at most one local high, the newest one.
LEMMA HighsGrow ==
  ASSUME NEW cs \in Seq(Candles), NEW c \in Candles
  PROVE  \A d : d \in LocalHighs(Append(cs, c)) =>
                d \in LocalHighs(cs) \/ d = Fresh(cs)
<1> DEFINE new == Append(cs, c)
<1>1. /\ Len(cs) \in Nat /\ PivotRight \in Nat /\ DOMAIN cs = 1..Len(cs)
      /\ new \in Seq(Candles) /\ Len(new) = Len(cs) + 1
  BY MarketAssumptions, WindowKept
<1> HIDE DEF new
<1>2. ASSUME NEW d \in LocalHighs(new), d # Fresh(cs) PROVE d \in LocalHighs(cs)
  <2>1. d \in 1..Len(new) /\ d < Fresh(new)
    BY <1>1, PivotDay
  <2>2. d \in 1..Len(cs) /\ d + PivotRight <= Len(cs)
    BY <1>1, <1>2, <2>1 DEF Fresh
  <2>3. /\ HasWindow(cs, d) /\ Window(new, d) = Window(cs, d)
        /\ \A e \in Window(cs, d) : new[e] = cs[e] /\ new[d] = cs[d]
    BY <1>1, <2>2, WindowKept DEF LocalHighs, new
  <2>4. QED BY <1>1, <2>2, <2>3 DEF LocalHighs
<1>3. QED BY <1>2 DEF new

LEMMA LowsGrow ==
  ASSUME NEW cs \in Seq(Candles), NEW c \in Candles
  PROVE  \A d : d \in LocalLows(Append(cs, c)) =>
                d \in LocalLows(cs) \/ d = Fresh(cs)
<1> DEFINE new == Append(cs, c)
<1>1. /\ Len(cs) \in Nat /\ PivotRight \in Nat /\ DOMAIN cs = 1..Len(cs)
      /\ new \in Seq(Candles) /\ Len(new) = Len(cs) + 1
  BY MarketAssumptions, WindowKept
<1> HIDE DEF new
<1>2. ASSUME NEW d \in LocalLows(new), d # Fresh(cs) PROVE d \in LocalLows(cs)
  <2>1. d \in 1..Len(new) /\ d < Fresh(new)
    BY <1>1, PivotDay
  <2>2. d \in 1..Len(cs) /\ d + PivotRight <= Len(cs)
    BY <1>1, <1>2, <2>1 DEF Fresh
  <2>3. /\ HasWindow(cs, d) /\ Window(new, d) = Window(cs, d)
        /\ \A e \in Window(cs, d) : new[e] = cs[e] /\ new[d] = cs[d]
    BY <1>1, <2>2, WindowKept DEF LocalLows, new
  <2>4. QED BY <1>1, <2>2, <2>3 DEF LocalLows
<1>3. QED BY <1>2 DEF new

\* No candle takes a confirmed pivot back.
LEMMA PivotsKept ==
  ASSUME NEW cs \in Seq(Candles), NEW c \in Candles
  PROVE  /\ LocalHighs(cs) \subseteq LocalHighs(Append(cs, c))
         /\ LocalLows(cs) \subseteq LocalLows(Append(cs, c))
<1> DEFINE new == Append(cs, c)
<1>1. /\ Len(cs) \in Nat /\ PivotRight \in Nat /\ Len(new) = Len(cs) + 1
      /\ DOMAIN cs = 1..Len(cs) /\ DOMAIN new = 1..Len(new)
  BY MarketAssumptions, WindowKept
<1> HIDE DEF new
<1>2. ASSUME NEW d \in LocalHighs(cs) \union LocalLows(cs)
      PROVE  /\ d \in DOMAIN new /\ HasWindow(new, d) /\ Window(new, d) = Window(cs, d)
             /\ \A e \in Window(cs, d) : new[e] = cs[e] /\ new[d] = cs[d]
  <2>1. d \in 1..Len(cs) /\ HasWindow(cs, d)
    BY <1>1 DEF LocalHighs, LocalLows
  <2>2. d + PivotRight <= Len(cs)
    BY <2>1 DEF HasWindow
  <2>3. QED BY <1>1, <2>1, <2>2, WindowKept DEF new
<1>3. QED BY <1>2 DEF LocalHighs, LocalLows, new

\* Two local lows are never neighbours: each would have to be the lower one.
LEMMA LowsApart ==
  ASSUME NEW cs \in Seq(Candles), NEW d \in LocalLows(cs), NEW e \in LocalLows(cs), d < e
  PROVE  d <= e - 2
<1>1. /\ d \in Nat /\ e \in Nat /\ d \in DOMAIN cs /\ e \in DOMAIN cs
      /\ PivotRight \in Nat \ {0} /\ PivotLeft \in Nat \ {0}
  BY MarketAssumptions, StructureAssumptions, PivotDay DEF LocalLows
<1>2. cs[d].low \in Nat /\ cs[e].low \in Nat
  BY <1>1, StructureAssumptions
<1>3. ASSUME e = d + 1 PROVE FALSE
  <2>1. d \in Window(cs, e) /\ e \in Window(cs, d)
    BY <1>1, <1>3 DEF Window
  <2>2. cs[e].low < cs[d].low /\ cs[d].low < cs[e].low
    BY <2>1 DEF LocalLows
  <2>3. QED BY <1>2, <2>2
<1>4. QED BY <1>1, <1>3

-----------------------------------------------------------------------------
(***************************************************************************)
(* Rising pairs of lows.                                                   *)
(***************************************************************************)
LEMMA PairOfLows ==
  ASSUME NEW cs \in Seq(Candles), NEW p \in HigherLows(cs)
  PROVE  /\ p[1] \in LocalLows(cs) /\ p[2] \in LocalLows(cs) /\ p = <<p[1], p[2]>>
         /\ p[1] \in 1..Len(cs) /\ p[2] \in 1..Len(cs)
         /\ p[1] < p[2] /\ \A l \in LocalLows(cs) : l < p[2] => l <= p[1]
<1> DEFINE lows == Before(LocalLows(cs), p[2])
<1>1. /\ p[1] \in LocalLows(cs) /\ p[2] \in LocalLows(cs) /\ p = <<p[1], p[2]>>
      /\ p[1] = Newest(lows)
  BY DEF HigherLows
<1>2. Len(cs) \in Nat /\ lows \in SUBSET (1..Len(cs)) /\ LocalLows(cs) \in SUBSET (1..Len(cs))
  BY PivotDay DEF Before
<1>3. p[1] \in 1..Len(cs) /\ p[2] \in 1..Len(cs)
  BY <1>1, <1>2
<1>4. lows # {}
  BY <1>1, <1>2, <1>3, NewestDay
<1>5. p[1] \in lows /\ \A l \in lows : l <= p[1]
  BY <1>1, <1>2, <1>4, NewestDay
<1>6. QED BY <1>1, <1>3, <1>5 DEF Before

\* A pair of lows in a row that rises is one of the pairs.
LEMMA PairFromLows ==
  ASSUME NEW cs \in Seq(Candles), NEW x \in LocalLows(cs), NEW y \in LocalLows(cs),
         x < y, \A l \in LocalLows(cs) : l < y => l <= x, cs[y].low > cs[x].low
  PROVE  <<x, y>> \in HigherLows(cs)
<1>1. /\ Len(cs) \in Nat /\ Before(LocalLows(cs), y) \in SUBSET (1..Len(cs))
      /\ x \in Before(LocalLows(cs), y) /\ \A l \in Before(LocalLows(cs), y) : l <= x
  BY PivotDay DEF Before
<1>2. x = Newest(Before(LocalLows(cs), y))
  BY <1>1, NewestDay
<1>3. QED BY <1>2 DEF HigherLows

\* The second low tells the pair.
LEMMA PairUnique ==
  ASSUME NEW cs \in Seq(Candles), NEW p \in HigherLows(cs), NEW q \in HigherLows(cs),
         p[2] = q[2]
  PROVE  p = q
<1>1. p = <<p[1], p[2]>> /\ q = <<q[1], q[2]>>
  BY PairOfLows
<1>2. p[1] = q[1]
  BY DEF HigherLows
<1>3. QED BY <1>1, <1>2

PairsAfter(cs, after) == {p \in HigherLows(cs) : p[1] > after}

LEMMA NewestOfPairs ==
  ASSUME NEW cs \in Seq(Candles), NEW after
  PROVE  LET r == LatestHigherLow(cs, after)
             P == PairsAfter(cs, after)
         IN  /\ P = {} => r = <<0, 0>>
             /\ P # {} => r \in P /\ \A q \in P : q[2] <= r[2]
<1> DEFINE r == LatestHigherLow(cs, after)
           P == PairsAfter(cs, after)
           S == {p[2] : p \in P}
<1>1. r = NewestPair(P)
  BY DEF LatestHigherLow, PairsAfter
<1>2. Len(cs) \in Nat /\ S \in SUBSET (1..Len(cs))
  <2>1. \A p \in P : p[2] \in 1..Len(cs)
    BY PairOfLows DEF PairsAfter
  <2>2. QED BY <2>1
<1>3. ASSUME P # {} PROVE r \in P /\ \A q \in P : q[2] <= r[2]
  <2>1. S # {}
    BY <1>3
  <2>2. \E x \in S : \A y \in S : y <= x
    <3> HIDE DEF S
    <3>1. QED BY <1>2, <2>1, LargestDay
  <2>3. \E p \in P : \A q \in P : q[2] <= p[2]
    BY <2>2
  <2> HIDE DEF P, r, S
  <2>4. QED BY <1>1, <1>3, <2>3 DEF NewestPair
<1>4. P = {} => r = <<0, 0>>
  BY <1>1 DEF NewestPair
<1>5. QED BY <1>3, <1>4

\* Every pair after day 0 is a pair.
LEMMA LatestPair ==
  ASSUME NEW cs \in Seq(Candles)
  PROVE  LET r == LatestHigherLow(cs, 0) IN
         /\ HigherLows(cs) = {} => r = <<0, 0>>
         /\ HigherLows(cs) # {} =>
              r \in HigherLows(cs) /\ \A q \in HigherLows(cs) : q[2] <= r[2]
<1>1. PairsAfter(cs, 0) = HigherLows(cs)
  BY PairOfLows DEF PairsAfter
<1>2. QED BY <1>1, NewestOfPairs

\* A candle adds at most the pair that its own pivot completes.
LEMMA PairsGrow ==
  ASSUME NEW cs \in Seq(Candles), NEW c \in Candles
  PROVE  LET new == Append(cs, c) IN
         /\ HigherLows(cs) \subseteq HigherLows(new)
         /\ \A p \in HigherLows(new) : p \in HigherLows(cs) \/ p[2] = Fresh(cs)
<1> DEFINE new == Append(cs, c)
<1>1. /\ new \in Seq(Candles) /\ Len(new) = Len(cs) + 1
      /\ \A d \in 1..Len(cs) : new[d] = cs[d]
  BY WindowKept
<1>2. /\ LocalLows(cs) \subseteq LocalLows(new)
      /\ \A d \in LocalLows(new) : d \in LocalLows(cs) \/ d = Fresh(cs)
      /\ \A d \in LocalLows(cs) : d < Fresh(cs) /\ d \in 1..Len(cs)
      /\ Fresh(cs) \in Int
  BY PivotsKept, LowsGrow, PivotDay
<1> HIDE DEF new
<1>3. ASSUME NEW p \in HigherLows(cs) PROVE p \in HigherLows(new)
  <2>1. /\ p[1] \in LocalLows(cs) /\ p[2] \in LocalLows(cs) /\ p = <<p[1], p[2]>>
        /\ p[1] < p[2] /\ \A l \in LocalLows(cs) : l < p[2] => l <= p[1]
    BY PairOfLows
  <2>2. cs[p[2]].low > cs[p[1]].low
    BY DEF HigherLows
  <2>3. new[p[2]].low > new[p[1]].low
    BY <1>1, <1>2, <2>1, <2>2
  <2>4. \A l \in LocalLows(new) : l < p[2] => l <= p[1]
    BY <1>2, <2>1
  <2>5. <<p[1], p[2]>> \in HigherLows(new)
    BY <1>1, <1>2, <2>1, <2>3, <2>4, PairFromLows
  <2>6. QED BY <2>1, <2>5
<1>4. ASSUME NEW p \in HigherLows(new), p[2] # Fresh(cs) PROVE p \in HigherLows(cs)
  <2>1. /\ p[1] \in LocalLows(new) /\ p[2] \in LocalLows(new) /\ p = <<p[1], p[2]>>
        /\ p[1] < p[2] /\ \A l \in LocalLows(new) : l < p[2] => l <= p[1]
    BY <1>1, PairOfLows
  <2>2. p[2] \in LocalLows(cs) /\ p[1] \in LocalLows(cs)
    BY <1>2, <1>4, <2>1
  <2>3. new[p[2]].low > new[p[1]].low
    BY DEF HigherLows
  <2>4. cs[p[2]].low > cs[p[1]].low
    BY <1>1, <1>2, <2>2, <2>3
  <2>5. \A l \in LocalLows(cs) : l < p[2] => l <= p[1]
    BY <1>2, <2>1
  <2>6. <<p[1], p[2]>> \in HigherLows(cs)
    BY <2>1, <2>2, <2>4, <2>5, PairFromLows
  <2>7. QED BY <2>1, <2>6
<1>5. QED BY <1>3, <1>4 DEF new

-----------------------------------------------------------------------------
(***************************************************************************)
(* The recovery.                                                           *)
(***************************************************************************)
\* The high of a pair lies between its lows.
LEMMA HighBetween ==
  ASSUME NEW cs \in Seq(Candles), NEW pair
  PROVE  LET h == RecoveryHigh(cs, pair) IN
         h = 0 \/ (h \in LocalHighs(cs) /\ pair[1] < h /\ h < pair[2])
<1> DEFINE S == {h \in LocalHighs(cs) : pair[1] < h /\ h < pair[2]}
<1>1. Len(cs) \in Nat /\ S \in SUBSET (1..Len(cs))
  BY PivotDay
<1>2. RecoveryHigh(cs, pair) = Newest(S)
  BY DEF RecoveryHigh
<1> HIDE DEF S
<1>3. Newest(S) = 0 \/ Newest(S) \in S
  BY <1>1, NewestDay
<1>4. \A h \in S : h \in LocalHighs(cs) /\ pair[1] < h /\ h < pair[2]
  BY DEF S
<1>5. QED BY <1>2, <1>3, <1>4

\* What a recovery without and with a pair is.
LEMMA RecoveryFound ==
  ASSUME NEW cs \in Seq(Candles)
  PROVE  LET r == FindRecovery(cs, 0)
             p == LatestHigherLow(cs, 0)
         IN  /\ r.initialLow = p[1] /\ r.higherLow = p[2] /\ r.high = RecoveryHigh(cs, p)
             /\ HigherLows(cs) = {} => r.initialLow = 0 /\ r.higherLow = 0
             /\ HigherLows(cs) # {} => p \in HigherLows(cs)
             /\ r.initialLow \in Nat /\ r.higherLow \in Nat
             /\ r.high # 0 => /\ r.initialLow \in LocalLows(cs) /\ r.higherLow \in LocalLows(cs)
                              /\ r.high \in 1..Len(cs)
                              /\ r.initialLow < r.high /\ r.high < r.higherLow
<1> DEFINE r == FindRecovery(cs, 0)
           p == LatestHigherLow(cs, 0)
<1>1. r.initialLow = p[1] /\ r.higherLow = p[2] /\ r.high = RecoveryHigh(cs, p)
  BY DEF FindRecovery
<1>2. /\ HigherLows(cs) = {} => p = <<0, 0>>
      /\ HigherLows(cs) # {} => p \in HigherLows(cs)
  BY LatestPair
<1>3. r.high = 0 \/ (r.high \in LocalHighs(cs) /\ p[1] < r.high /\ r.high < p[2])
  BY <1>1, HighBetween
<1>4. LocalHighs(cs) \in SUBSET (1..Len(cs)) /\ Len(cs) \in Nat
  BY PivotDay
<1> HIDE DEF r, p
<1>5. CASE HigherLows(cs) = {}
  <2>1. p[1] = 0 /\ p[2] = 0
    BY <1>2, <1>5
  <2>2. r.high = 0
    BY <1>3, <1>4, <2>1
  <2>3. QED BY <1>1, <1>5, <2>1, <2>2 DEF r, p
<1>6. CASE HigherLows(cs) # {}
  <2>1. p \in HigherLows(cs)
    BY <1>2, <1>6
  <2>2. /\ p[1] \in LocalLows(cs) /\ p[2] \in LocalLows(cs)
        /\ p[1] \in 1..Len(cs) /\ p[2] \in 1..Len(cs)
    BY <2>1, PairOfLows
  <2>3. QED BY <1>1, <1>3, <1>4, <1>6, <2>1, <2>2 DEF r, p
<1>7. QED BY <1>5, <1>6

\* One more candle leaves the recovery as it is or completes a newer pair.
LEMMA RecoveryGrows ==
  ASSUME NEW cs \in Seq(Candles), NEW c \in Candles
  PROVE  LET old == FindRecovery(cs, 0)
             new == FindRecovery(Append(cs, c), 0)
         IN  \/ new = old
             \/ /\ new.higherLow = Fresh(cs) /\ Fresh(cs) \in LocalLows(Append(cs, c))
                /\ new.initialLow \in LocalLows(cs) /\ new.initialLow <= Fresh(cs) - 2
                /\ \A l \in LocalLows(cs) : l <= new.initialLow
<1> DEFINE longer == Append(cs, c)
           old    == FindRecovery(cs, 0)
           new    == FindRecovery(longer, 0)
           p      == LatestHigherLow(cs, 0)
           q      == LatestHigherLow(longer, 0)
<1>1. longer \in Seq(Candles) /\ Fresh(cs) \in Int /\ Len(cs) \in Nat
  BY WindowKept, PivotDay
<1>2. /\ \A d \in LocalLows(longer) : d \in LocalLows(cs) \/ d = Fresh(cs)
      /\ \A d \in LocalHighs(longer) : d \in LocalHighs(cs) \/ d = Fresh(cs)
      /\ \A d \in LocalLows(cs) : d < Fresh(cs) /\ d \in 1..Len(cs)
      /\ LocalHighs(cs) \subseteq LocalHighs(longer)
      /\ LocalLows(cs) \subseteq LocalLows(longer)
  BY HighsGrow, LowsGrow, PivotDay, PivotsKept
<1>3. /\ HigherLows(cs) \subseteq HigherLows(longer)
      /\ \A x \in HigherLows(longer) : x \in HigherLows(cs) \/ x[2] = Fresh(cs)
  BY PairsGrow
<1>4. CASE \E x \in HigherLows(longer) : x[2] = Fresh(cs)
  <2> HIDE DEF longer
  <2>1. q \in HigherLows(longer) /\ \A x \in HigherLows(longer) : x[2] <= q[2]
    BY <1>1, <1>4, LatestPair
  <2> HIDE DEF q
  <2>2. /\ q[1] \in LocalLows(longer) /\ q[2] \in LocalLows(longer) /\ q[1] < q[2]
        /\ \A l \in LocalLows(longer) : l < q[2] => l <= q[1]
    BY <1>1, <2>1, PairOfLows
  <2>3. q[2] = Fresh(cs)
    BY <1>1, <1>2, <1>4, <2>1, <2>2
  <2>4. q[1] \in LocalLows(cs) /\ \A l \in LocalLows(cs) : l <= q[1]
    BY <1>1, <1>2, <2>2, <2>3
  <2>5. q[1] <= q[2] - 2
    BY <1>1, <2>2, LowsApart
  <2>6. new.initialLow = q[1] /\ new.higherLow = q[2]
    BY DEF FindRecovery, q
  <2> HIDE DEF new
  <2>7. QED BY <2>2, <2>3, <2>4, <2>5, <2>6 DEF new, longer
<1>5. CASE ~ \E x \in HigherLows(longer) : x[2] = Fresh(cs)
  <2>1. HigherLows(longer) = HigherLows(cs)
    BY <1>3, <1>5
  <2>2. q = p
    BY <2>1 DEF LatestHigherLow
  <2>3. p[2] < Fresh(cs) \/ (p[1] = 0 /\ p[2] = 0)
    <3>1. HigherLows(cs) = {} => p = <<0, 0>>
      BY LatestPair
    <3>2. HigherLows(cs) # {} => p \in HigherLows(cs)
      BY LatestPair
    <3> HIDE DEF p
    <3>3. HigherLows(cs) # {} => p[2] < Fresh(cs)
      BY <1>2, <3>2, PairOfLows
    <3>4. QED BY <3>1, <3>3
  <2>4. RecoveryHigh(longer, p) = RecoveryHigh(cs, p)
    <3> HIDE DEF p, longer
    <3>1. LocalHighs(longer) \in SUBSET Nat
      BY <1>1, PivotDay
    <3>2. {h \in LocalHighs(longer) : p[1] < h /\ h < p[2]}
            = {h \in LocalHighs(cs) : p[1] < h /\ h < p[2]}
      <4>1. ASSUME NEW h \in LocalHighs(longer), p[1] < h, h < p[2], h = Fresh(cs)
            PROVE  FALSE
        <5>1. p[2] \in Nat /\ p[1] \in Nat
          BY RecoveryFound DEF p
        <5>2. QED BY <1>1, <2>3, <3>1, <4>1, <5>1
      <4>2. QED BY <1>2, <4>1
    <3>3. QED BY <3>2 DEF RecoveryHigh
  <2>5. new = old
    BY <2>2, <2>4 DEF FindRecovery
  <2>6. QED BY <2>5
<1>6. QED BY <1>4, <1>5

-----------------------------------------------------------------------------
(***************************************************************************)
(* The facts.                                                              *)
(***************************************************************************)
\* The other modules may restrict the facts for their runs; the abstraction is
\* justified where they do not.
FactsUnrestricted == 1..MaxDays \subseteq PivotDays /\ Breakouts = BreakoutFacts

\* What the facts of a series are, field by field.
LEMMA FactFields ==
  ASSUME NEW cs \in Seq(Candles), NEW peak
  PROVE  LET m == Facts(cs, peak)
             r == FindRecovery(cs, 0)
         IN  /\ m = [day |-> m.day, close |-> m.close, peak |-> m.peak,
                     localHigh |-> m.localHigh, eligible |-> m.eligible,
                     initialLow |-> m.initialLow, recovery |-> m.recovery,
                     breakout |-> m.breakout]
             /\ m.day = Len(cs) /\ m.close = Price(cs) /\ m.peak = peak
             /\ m.localHigh = Newest(LocalHighs(cs)) /\ m.eligible \in BOOLEAN
             /\ m.initialLow = r.initialLow
             /\ m.recovery = (IF r.high = 0 THEN 0 ELSE r.higherLow)
             /\ m.breakout \in BreakoutFacts
             /\ Consistent(m)
<1> DEFINE m == Facts(cs, peak)
           r == FindRecovery(cs, 0)
<1>1. /\ m = [day |-> m.day, close |-> m.close, peak |-> m.peak,
              localHigh |-> m.localHigh, eligible |-> m.eligible,
              initialLow |-> m.initialLow, recovery |-> m.recovery,
              breakout |-> m.breakout]
      /\ m.day = Len(cs) /\ m.close = Price(cs) /\ m.peak = peak
      /\ m.localHigh = Newest(LocalHighs(cs)) /\ m.eligible = Eligible(cs)
      /\ m.initialLow = r.initialLow
      /\ m.recovery = (IF r.high = 0 THEN 0 ELSE r.higherLow)
      /\ m.breakout = IF ~Confirmed(cs, r) THEN "UNCONFIRMED"
                      ELSE IF EntryAllowedByTrend(ClassifyTrend(cs)) THEN "CONFIRMED"
                      ELSE "FILTERED"
  BY DEF Facts
<1>2. Eligible(cs) \in BOOLEAN /\ (Eligible(cs) => Newest(LocalHighs(cs)) # 0)
  BY DEF Eligible
<1>3. r.high # 0 => r.higherLow \in LocalLows(cs)
  BY RecoveryFound
<1>4. 0 \notin LocalLows(cs)
  BY PivotDay
<1>5. Confirmed(cs, r) => r.high # 0
  BY DEF Confirmed
<1> HIDE DEF m, r
<1>6. m.breakout \in BreakoutFacts /\ (~Confirmed(cs, r) => m.breakout = "UNCONFIRMED")
  BY <1>1 DEF BreakoutFacts
<1>7. m.recovery = 0 => m.breakout = "UNCONFIRMED"
  BY <1>1, <1>3, <1>4, <1>5, <1>6
<1>8. Consistent(m)
  BY <1>1, <1>2, <1>7 DEF Consistent
<1>9. QED BY <1>1, <1>2, <1>6, <1>8 DEF m, r

\* The newest local high stays or is the day just confirmed.
LEMMA NewestHighGrows ==
  ASSUME NEW cs \in Seq(Candles), NEW c \in Candles
  PROVE  LET new == LocalHighs(Append(cs, c)) IN
         \/ Newest(new) = Newest(LocalHighs(cs))
         \/ Newest(new) = Fresh(cs) /\ Fresh(cs) \in new
<1> DEFINE longer == Append(cs, c)
           new    == LocalHighs(longer)
<1>1. longer \in Seq(Candles)
  BY WindowKept
<1> HIDE DEF longer
<1>2. new \in SUBSET (1..Len(longer)) /\ Len(longer) \in Nat /\ Fresh(cs) \in Int
  BY <1>1, PivotDay
<1>3. /\ LocalHighs(cs) \subseteq new /\ \A d \in LocalHighs(cs) : d < Fresh(cs) /\ d \in Nat
      /\ \A d \in new : d \in LocalHighs(cs) \/ d = Fresh(cs)
  BY HighsGrow, PivotsKept, PivotDay DEF longer
<1> HIDE DEF new
<1>4. CASE Fresh(cs) \in new
  <2>1. \A d \in new : d <= Fresh(cs)
    BY <1>2, <1>3
  <2>2. Newest(new) = Fresh(cs)
    BY <1>2, <1>4, <2>1, NewestDay
  <2>3. QED BY <1>4, <2>2 DEF new, longer
<1>5. CASE Fresh(cs) \notin new
  <2>1. new = LocalHighs(cs)
    BY <1>3, <1>5
  <2>2. QED BY <2>1 DEF new, longer
<1>6. QED BY <1>4, <1>5

\* The pair of one more candle is one that MarketFacts lets follow.
LEMMA PairFollows ==
  ASSUME FactsUnrestricted, NEW cs \in Seq(Candles), NEW c \in Candles,
         Len(cs) < MaxDays, NEW p, NEW q
  PROVE  LET m == Facts(cs, p)
             n == Facts(Append(cs, c), q)
         IN  <<n.initialLow, n.recovery>> \in RisingPairs(m)
<1> DEFINE longer == Append(cs, c)
           m == Facts(cs, p)
           n == Facts(longer, q)
           old == FindRecovery(cs, 0)
           new == FindRecovery(longer, 0)
           f == Fresh(cs)
<1>1. /\ longer \in Seq(Candles) /\ Len(longer) = Len(cs) + 1 /\ Len(cs) \in Nat
      /\ MaxDays \in Nat /\ f \in Int
  BY WindowKept, PivotDay, StructureAssumptions
<1>2. /\ m.day = Len(cs) /\ m.initialLow = old.initialLow
      /\ m.recovery = (IF old.high = 0 THEN 0 ELSE old.higherLow)
  BY FactFields
<1>3. /\ n.initialLow = new.initialLow
      /\ n.recovery = (IF new.high = 0 THEN 0 ELSE new.higherLow)
  BY <1>1, FactFields
<1>4. \/ new = old
      \/ /\ new.higherLow = f /\ f \in LocalLows(longer)
         /\ new.initialLow \in LocalLows(cs) /\ new.initialLow <= f - 2
         /\ \A l \in LocalLows(cs) : l <= new.initialLow
  BY RecoveryGrows
<1>5. /\ old.initialLow \in Nat /\ old.higherLow \in Nat
      /\ \/ old.initialLow = 0 /\ old.higherLow = 0
         \/ old.higherLow \in LocalLows(cs) /\ old.initialLow < old.higherLow
  <2> DEFINE r == LatestHigherLow(cs, 0)
  <2>1. /\ old.initialLow = r[1] /\ old.higherLow = r[2]
        /\ old.initialLow \in Nat /\ old.higherLow \in Nat
        /\ HigherLows(cs) = {} => old.initialLow = 0 /\ old.higherLow = 0
        /\ HigherLows(cs) # {} => r \in HigherLows(cs)
    BY RecoveryFound
  <2> HIDE DEF r, old
  <2>2. r \in HigherLows(cs) => r[2] \in LocalLows(cs) /\ r[1] < r[2]
    BY PairOfLows
  <2>3. QED BY <2>1, <2>2
<1>6. CASE new = old
  <2>1. <<n.initialLow, n.recovery>> = <<m.initialLow, m.recovery>>
    BY <1>2, <1>3, <1>6
  <2> HIDE DEF m, n, old, new, longer
  <2>2. <<n.initialLow, n.recovery>> \in RisingPairs(m)
    BY <2>1 DEF RisingPairs
  <2>3. QED BY <2>2 DEF m, n, longer
<1>7. CASE /\ new.higherLow = f /\ f \in LocalLows(longer)
           /\ new.initialLow \in LocalLows(cs) /\ new.initialLow <= f - 2
           /\ \A l \in LocalLows(cs) : l <= new.initialLow
  <2>1. /\ LocalLows(longer) \in SUBSET (1..Len(longer))
        /\ LocalLows(cs) \in SUBSET (1..Len(cs))
    BY <1>1, PivotDay
  <2> HIDE DEF m, n, old, new, longer, f
  <2>2. f \in PivotDays /\ new.initialLow \in PivotDays /\ new.initialLow \in Nat \ {0}
    BY <1>1, <1>7, <2>1 DEF FactsUnrestricted
  <2>3. f \in FreshPivots(m)
    BY <1>2, <2>2 DEF FreshPivots, Fresh, f
  <2>4. n.recovery \in {0} \union FreshPivots(m)
    BY <1>3, <1>7, <2>3
  <2>5. new.initialLow > old.initialLow /\ new.initialLow >= old.higherLow
    BY <1>5, <1>7, <2>1, <2>2
  <2>6. new.initialLow > m.initialLow /\ new.initialLow >= m.recovery
    BY <1>2, <2>2, <2>5
  <2> DEFINE pair == <<n.initialLow, n.recovery>>
  <2>7. /\ pair \in PivotDays \X ({0} \union FreshPivots(m))
        /\ pair[1] <= f - 2 /\ pair[1] > m.initialLow /\ pair[1] >= m.recovery
    BY <1>3, <1>7, <2>2, <2>4, <2>6
  <2> HIDE DEF pair
  <2>8. pair \in RisingPairs(m)
    BY <2>3, <2>7 DEF RisingPairs
  <2>9. QED BY <2>8 DEF pair, m, n, longer
<1>8. QED BY <1>4, <1>6, <1>7

\* One more candle changes the facts as MarketFacts allows.
LEMMA FactsFollow ==
  ASSUME FactsUnrestricted, NEW cs \in Seq(Candles), NEW c \in Candles,
         Len(cs) < MaxDays, NEW p, NEW q
  PROVE  LET longer == Append(cs, c) IN
         Facts(longer, q) \in NextFacts(Facts(cs, p), Price(longer), q)
<1> DEFINE longer == Append(cs, c)
           m == Facts(cs, p)
           n == Facts(longer, q)
           pair == <<n.initialLow, n.recovery>>
<1>1. /\ longer \in Seq(Candles) /\ Len(longer) = Len(cs) + 1 /\ Len(cs) \in Nat
      /\ MaxDays \in Nat
  BY WindowKept, StructureAssumptions
<1>2. m.day = Len(cs) /\ m.localHigh = Newest(LocalHighs(cs))
  BY FactFields
<1>3. /\ n = [day |-> n.day, close |-> n.close, peak |-> n.peak,
              localHigh |-> n.localHigh, eligible |-> n.eligible,
              initialLow |-> n.initialLow, recovery |-> n.recovery,
              breakout |-> n.breakout]
      /\ n.day = Len(longer) /\ n.close = Price(longer) /\ n.peak = q
      /\ n.localHigh = Newest(LocalHighs(longer)) /\ n.eligible \in BOOLEAN
      /\ n.breakout \in BreakoutFacts /\ Consistent(n)
  BY <1>1, FactFields
<1>4. n.localHigh \in {m.localHigh} \union FreshPivots(m)
  <2>1. \/ n.localHigh = m.localHigh
        \/ n.localHigh = Fresh(cs) /\ Fresh(cs) \in LocalHighs(longer)
    BY <1>2, <1>3, NewestHighGrows
  <2>2. LocalHighs(longer) \in SUBSET (1..Len(longer))
    BY <1>1, PivotDay
  <2> HIDE DEF m, n, longer
  <2>3. Fresh(cs) \in LocalHighs(longer) => Fresh(cs) \in PivotDays
    BY <1>1, <2>2 DEF FactsUnrestricted
  <2>4. QED BY <1>2, <2>1, <2>3 DEF FreshPivots, Fresh
<1>5. pair \in RisingPairs(m) /\ pair[1] = n.initialLow /\ pair[2] = n.recovery
  BY PairFollows
<1>6. n.breakout \in Breakouts
  BY <1>3 DEF FactsUnrestricted
<1> HIDE DEF m, n, pair, longer
<1>7. n \in [day : {m.day + 1}, close : {Price(longer)}, peak : {q},
              localHigh : {m.localHigh} \union FreshPivots(m),
              eligible : BOOLEAN, initialLow : {pair[1]}, recovery : {pair[2]},
              breakout : Breakouts]
  BY <1>1, <1>2, <1>3, <1>4, <1>5, <1>6
<1>8. n \in NextFacts(m, Price(longer), q)
  BY <1>3, <1>5, <1>7 DEF NextFacts
<1>9. QED BY <1>8 DEF n, m, longer

\* Every series may be the one a history starts with.
LEMMA FactsStart ==
  ASSUME FactsUnrestricted, NEW cs \in Seq(Candles), Len(cs) <= MaxDays, NEW q
  PROVE  Facts(cs, q) \in FirstFacts(Len(cs), {Price(cs)}, {q})
<1> DEFINE n == Facts(cs, q)
           r == FindRecovery(cs, 0)
<1>1. Len(cs) \in Nat /\ MaxDays \in Nat /\ PivotRight \in Nat
  BY StructureAssumptions, MarketAssumptions
<1>2. /\ n = [day |-> n.day, close |-> n.close, peak |-> n.peak,
              localHigh |-> n.localHigh, eligible |-> n.eligible,
              initialLow |-> n.initialLow, recovery |-> n.recovery,
              breakout |-> n.breakout]
      /\ n.day = Len(cs) /\ n.close = Price(cs) /\ n.peak = q
      /\ n.localHigh = Newest(LocalHighs(cs)) /\ n.eligible \in BOOLEAN
      /\ n.initialLow = r.initialLow
      /\ n.recovery = (IF r.high = 0 THEN 0 ELSE r.higherLow)
      /\ n.breakout \in Breakouts /\ Consistent(n)
  BY FactFields DEF FactsUnrestricted
<1>3. ASSUME NEW d \in LocalHighs(cs) \union LocalLows(cs) PROVE d \in KnownPivots(Len(cs))
  <2>1. d \in 1..Len(cs) /\ d < Fresh(cs)
    BY PivotDay
  <2>2. d \in PivotDays /\ d <= Len(cs) - PivotRight
    BY <1>1, <2>1 DEF Fresh, FactsUnrestricted
  <2>3. QED BY <2>2 DEF KnownPivots
<1>4. 0 \in KnownPivots(Len(cs))
  BY DEF KnownPivots
<1>5. Newest(LocalHighs(cs)) = 0 \/ Newest(LocalHighs(cs)) \in LocalHighs(cs)
  BY <1>1, PivotDay, NewestDay
<1>6. /\ (r.initialLow = 0 /\ r.higherLow = 0)
           \/ (r.initialLow \in LocalLows(cs) /\ r.higherLow \in LocalLows(cs))
      /\ r.high # 0 => /\ r.high \in Nat /\ r.initialLow \in Nat \ {0} /\ r.higherLow \in Nat
                       /\ r.initialLow < r.high /\ r.high < r.higherLow
  <2> DEFINE p == LatestHigherLow(cs, 0)
  <2>1. /\ r.initialLow = p[1] /\ r.higherLow = p[2]
        /\ HigherLows(cs) = {} => r.initialLow = 0 /\ r.higherLow = 0
        /\ HigherLows(cs) # {} => p \in HigherLows(cs)
        /\ r.high # 0 => /\ r.initialLow \in LocalLows(cs) /\ r.higherLow \in LocalLows(cs)
                         /\ r.high \in 1..Len(cs)
                         /\ r.initialLow < r.high /\ r.high < r.higherLow
    BY RecoveryFound
  <2>2. LocalLows(cs) \in SUBSET (1..Len(cs))
    BY PivotDay
  <2> HIDE DEF p, r
  <2>3. p \in HigherLows(cs) => p[1] \in LocalLows(cs) /\ p[2] \in LocalLows(cs)
    BY PairOfLows
  <2>4. QED BY <1>1, <2>1, <2>2, <2>3
<1> HIDE DEF n, r
<1>7. /\ n.localHigh \in KnownPivots(Len(cs)) /\ n.initialLow \in KnownPivots(Len(cs))
      /\ n.recovery \in KnownPivots(Len(cs))
  BY <1>2, <1>3, <1>4, <1>5, <1>6
<1>8. n.recovery # 0 => n.initialLow \in 1..n.recovery - 2
  BY <1>2, <1>6
<1>9. n \in [day : {Len(cs)}, close : {Price(cs)}, localHigh : KnownPivots(Len(cs)),
              eligible : BOOLEAN, initialLow : KnownPivots(Len(cs)),
              recovery : KnownPivots(Len(cs)), breakout : Breakouts, peak : {q}]
  BY <1>2, <1>7
<1>10. n \in FirstFacts(Len(cs), {Price(cs)}, {q})
  BY <1>2, <1>8, <1>9 DEF FirstFacts
<1>11. QED BY <1>10 DEF n

-----------------------------------------------------------------------------
(***************************************************************************)
(* The theorems.                                                           *)
(***************************************************************************)
SeriesInv == candles \in Seq(Candles)

LEMMA SeriesInvariance == Spec => []SeriesInv
<1>1. Init => SeriesInv
  <2>1. ASSUME NEW c \in Candles PROVE <<c>> \in Seq(Candles)
    OBVIOUS
  <2>2. QED BY <2>1 DEF Init, SeriesInv
<1>2. SeriesInv /\ [Next]_candles => SeriesInv'
  BY DEF SeriesInv, Next, NextDay
<1>3. QED BY <1>1, <1>2, PTL DEF Spec

\* A confirmed pivot stays confirmed whatever candles follow, for every pivot
\* window.
THEOREM PivotsNeverRepaint == Spec => PivotsPersist
<1>1. SeriesInv /\ [Next]_candles =>
        [LocalHighs(candles) \subseteq LocalHighs(candles')
         /\ LocalLows(candles) \subseteq LocalLows(candles')]_candles
  BY PivotsKept DEF SeriesInv, Next, NextDay
<1>2. QED BY SeriesInvariance, <1>1, PTL DEF Spec, PivotsPersist

\* The day that identifies a breakout stands for one recovery high for good,
\* for every series.
THEOREM BreakoutHighIsFixed == Spec => BreakoutKeepsItsHigh
<1>1. ASSUME SeriesInv, NEW c \in Candles, candles' = Append(candles, c)
      PROVE  LET old == FindRecovery(candles, 0)
                 new == FindRecovery(candles', 0)
             IN  old.higherLow = new.higherLow => old.high = new.high
  <2> DEFINE old == FindRecovery(candles, 0)
             new == FindRecovery(candles', 0)
  <2>1. candles \in Seq(Candles)
    BY <1>1 DEF SeriesInv
  <2>2. \/ new = old
        \/ /\ new.higherLow = Fresh(candles) /\ new.initialLow \in LocalLows(candles)
    BY <1>1, <2>1, RecoveryGrows
  <2>3. CASE new.higherLow = Fresh(candles) /\ new.initialLow \in LocalLows(candles)
    <3>1. new.initialLow \in Nat \ {0} /\ new.initialLow < Fresh(candles) /\ Fresh(candles) \in Int
      BY <2>1, <2>3, PivotDay
    <3>2. old.higherLow = 0 \/ old.higherLow < Fresh(candles)
      <4> DEFINE p == LatestHigherLow(candles, 0)
      <4>1. /\ old.higherLow = p[2]
            /\ HigherLows(candles) = {} => old.higherLow = 0
            /\ HigherLows(candles) # {} => p \in HigherLows(candles)
        BY <2>1, RecoveryFound
      <4> HIDE DEF p, old
      <4>2. HigherLows(candles) # {} => p[2] \in LocalLows(candles)
        BY <2>1, <4>1, PairOfLows
      <4>3. QED BY <2>1, <4>1, <4>2, PivotDay
    <3>3. old.higherLow \in Nat
      BY <2>1, RecoveryFound
    <3> HIDE DEF old, new
    <3>4. old.higherLow # new.higherLow
      BY <2>3, <3>1, <3>2, <3>3
    <3>5. QED BY <3>4 DEF old, new
  <2>4. QED BY <2>2, <2>3
<1>2. SeriesInv /\ [Next]_candles =>
        [LET old == FindRecovery(candles, 0)
             new == FindRecovery(candles', 0)
         IN old.higherLow = new.higherLow => old.high = new.high]_candles
  BY <1>1 DEF Next, NextDay
<1>3. QED BY SeriesInvariance, <1>2, PTL DEF Spec, BreakoutKeepsItsHigh

\* The engine may compare the newest rising pair with the anchor of a
\* correction instead of searching after the anchor again, for every series
\* and anchor.
THEOREM AnchorComparisonSuffices == Spec => []AnchoredRecovery
<1>1. ASSUME NEW cs \in Seq(Candles), NEW anchor \in 1..Len(cs)
      PROVE  LET m == Facts(cs, 0)
                 r == FindRecovery(cs, anchor)
             IN  IF m.recovery = 0 \/ m.initialLow <= anchor THEN r.high = 0
                 ELSE r = FindRecovery(cs, 0)
  <2> DEFINE m == Facts(cs, 0)
             old == FindRecovery(cs, 0)
             r == FindRecovery(cs, anchor)
             p == LatestHigherLow(cs, 0)
             q == LatestHigherLow(cs, anchor)
  <2>1. /\ m.initialLow = p[1] /\ m.recovery = (IF old.high = 0 THEN 0 ELSE p[2])
        /\ old.high = RecoveryHigh(cs, p) /\ r.high = RecoveryHigh(cs, q)
        /\ q = p => r = old
    BY DEF Facts, FindRecovery
  <2>2. /\ HigherLows(cs) = {} => p = <<0, 0>>
        /\ HigherLows(cs) # {} =>
             p \in HigherLows(cs) /\ \A x \in HigherLows(cs) : x[2] <= p[2]
    BY LatestPair
  <2>3. /\ PairsAfter(cs, anchor) = {} => q = <<0, 0>>
        /\ PairsAfter(cs, anchor) # {} =>
             q \in PairsAfter(cs, anchor) /\ \A x \in PairsAfter(cs, anchor) : x[2] <= q[2]
    BY NewestOfPairs
  <2>4. old.high # 0 => p[2] # 0
    <3>1. old.high # 0 => old.higherLow \in LocalLows(cs) /\ old.higherLow = p[2]
      BY RecoveryFound
    <3>2. 0 \notin LocalLows(cs)
      BY PivotDay
    <3> HIDE DEF old, p
    <3>3. QED BY <3>1, <3>2
  <2>5. RecoveryHigh(cs, <<0, 0>>) = 0
    <3>1. LocalHighs(cs) \in SUBSET Nat
      BY PivotDay
    <3>2. \A h \in LocalHighs(cs) : ~(0 < h /\ h < 0)
      BY <3>1
    <3>3. QED BY <3>2, HighBetween
  <2> HIDE DEF m, old, r, p, q
  <2>6. CASE HigherLows(cs) = {}
    <3>1. PairsAfter(cs, anchor) = {}
      BY <2>6 DEF PairsAfter
    <3>2. p = <<0, 0>> /\ q = <<0, 0>>
      BY <2>2, <2>3, <2>6, <3>1
    <3>3. m.recovery = 0 /\ r.high = 0
      BY <2>1, <2>5, <3>2
    <3>4. QED BY <3>3 DEF m, r
  <2>7. CASE HigherLows(cs) # {}
    <3>1. p \in HigherLows(cs) /\ \A x \in HigherLows(cs) : x[2] <= p[2]
      BY <2>2, <2>7
    <3>2. /\ p[1] \in 1..Len(cs) /\ p[2] \in 1..Len(cs)
          /\ \A l \in LocalLows(cs) : l < p[2] => l <= p[1]
      BY <3>1, PairOfLows
    <3>3. CASE p[1] > anchor
      <4>1. p \in PairsAfter(cs, anchor)
        BY <3>1, <3>3 DEF PairsAfter
      <4>2. q \in HigherLows(cs) /\ p[2] <= q[2] /\ q[2] <= p[2]
        BY <2>3, <3>1, <4>1 DEF PairsAfter
      <4>3. q[2] \in 1..Len(cs)
        BY <4>2, PairOfLows
      <4>4. q[2] = p[2]
        BY <3>2, <4>2, <4>3
      <4>5. q = p
        BY <3>1, <4>2, <4>4, PairUnique
      <4>6. r = old
        BY <2>1, <4>5
      <4>7. m.recovery = 0 => r.high = 0
        BY <2>1, <2>4, <4>6
      <4>8. ~(m.initialLow <= anchor)
        BY <2>1, <3>2, <3>3
      <4>9. QED BY <4>6, <4>7, <4>8 DEF m, r, old
    <3>4. CASE ~(p[1] > anchor)
      <4>1. ASSUME NEW x \in PairsAfter(cs, anchor) PROVE FALSE
        <5>1. /\ x \in HigherLows(cs) /\ x[1] > anchor /\ x[2] <= p[2]
          BY <3>1 DEF PairsAfter
        <5>2. /\ x[1] \in 1..Len(cs) /\ x[2] \in 1..Len(cs) /\ x[1] < x[2]
              /\ x[2] \in LocalLows(cs)
          BY <5>1, PairOfLows
        <5>3. x # p
          BY <3>4, <5>1
        <5>4. x[2] # p[2]
          BY <3>1, <5>1, <5>3, PairUnique
        <5>5. x[2] <= p[1]
          BY <3>2, <5>1, <5>2, <5>4
        <5>6. QED BY <3>2, <3>4, <5>1, <5>2, <5>5
      <4>2. q = <<0, 0>>
        BY <2>3, <4>1
      <4>3. r.high = 0
        BY <2>1, <2>5, <4>2
      <4>4. m.initialLow <= anchor
        BY <2>1, <3>2, <3>4
      <4>5. QED BY <4>3, <4>4 DEF m, r
    <3>5. QED BY <3>3, <3>4
  <2>8. QED BY <2>6, <2>7
<1>2. SeriesInv => AnchoredRecovery
  BY <1>1 DEF SeriesInv, AnchoredRecovery
<1>3. QED BY SeriesInvariance, <1>2, PTL

\* The facts of a series never do what MarketFacts does not allow, and every
\* series may be the one to start with: what holds of the advisor and the
\* simulator for all facts holds for all candles, of any number and any pivot
\* window.
THEOREM FactsAreAbstracted ==
  ASSUME FactsUnrestricted
  PROVE  Spec => FactsAdvance
<1>1. ASSUME SeriesInv, NextDay, NEW p, NEW q
      PROVE  /\ Facts(candles', q) \in NextFacts(Facts(candles, p), Price(candles'), q)
             /\ Facts(candles', q) \in FirstFacts(Len(candles'), {Price(candles')}, {q})
  <2>1. PICK c \in Candles : candles' = Append(candles, c)
    BY <1>1 DEF NextDay
  <2>2. candles \in Seq(Candles) /\ Len(candles) < MaxDays /\ MaxDays \in Nat
    BY <1>1, StructureAssumptions DEF SeriesInv, NextDay
  <2>3. candles' \in Seq(Candles) /\ Len(candles') <= MaxDays
    BY <2>1, <2>2, WindowKept
  <2>4. Facts(candles', q) \in NextFacts(Facts(candles, p), Price(candles'), q)
    BY <2>1, <2>2, FactsFollow
  <2>5. Facts(candles', q) \in FirstFacts(Len(candles'), {Price(candles')}, {q})
    BY <2>3, FactsStart
  <2>6. QED BY <2>4, <2>5
<1>2. SeriesInv /\ [Next]_candles =>
        [\A p \in ReferencePeaks(candles, Len(candles)),
            q \in ReferencePeaks(candles', Len(candles')) :
           /\ Facts(candles', q) \in NextFacts(Facts(candles, p), Price(candles'), q)
           /\ Facts(candles', q) \in FirstFacts(Len(candles'), {Price(candles')}, {q})]_candles
  BY <1>1 DEF Next
<1>3. QED BY SeriesInvariance, <1>2, PTL DEF Spec, FactsAdvance

-----------------------------------------------------------------------------
(***************************************************************************)
(* The reference peaks.  The selection is a recursive function, which is   *)
(* first shown to exist; what holds of the choices after k picks is then   *)
(* shown for the least k at which it could fail.                           *)
(***************************************************************************)
Left(cs, day, sel) == {d \in PeakCandidates(cs, day) \ sel : \A e \in sel : Apart(d, e)}

Best(cs, day, sel) ==
  {d \in Left(cs, day, sel) : \A e \in Left(cs, day, sel) : cs[e].high <= cs[d].high}

\* The selections after one more pick.
Grown(cs, day, picks) ==
  UNION {IF Best(cs, day, sel) = {} THEN {sel}
         ELSE {sel \union {d} : d \in Best(cs, day, sel)} : sel \in picks}

\* The selections after each number of picks up to n.
PicksTo(cs, day, n, pick) ==
  pick = [k \in 0..n |-> IF k = 0 THEN {{}} ELSE Grown(cs, day, pick[k - 1])]

Picks(cs, day) == CHOOSE pick : PicksTo(cs, day, PeakCount, pick)

LEMMA SelectionIsPicked ==
  ASSUME NEW cs, NEW day
  PROVE  SelectedPeaks(cs, day) = Picks(cs, day)[PeakCount]
  BY DEF SelectedPeaks, Picks, PicksTo, Grown, Best, Left

\* A number that fails a property up to PeakCount has a least one.
LEMMA LeastPick ==
  ASSUME NEW S \in SUBSET (0..PeakCount), S # {}
  PROVE  \E x \in S : \A y \in S : x <= y
<1> DEFINE T == {PeakCount + 1 - x : x \in S}
<1>1. PeakCount \in Nat
  BY StructureAssumptions
<1>2. T \in SUBSET (1..PeakCount + 1) /\ T # {} /\ PeakCount + 1 \in Nat
  <2>1. ASSUME NEW x \in S PROVE PeakCount + 1 - x \in 1..PeakCount + 1
    <3>1. x \in Nat /\ x <= PeakCount
      BY <1>1
    <3>2. QED BY <1>1, <3>1
  <2>2. T \subseteq 1..PeakCount + 1
    BY <2>1
  <2>3. T # {}
    OBVIOUS
  <2>4. PeakCount + 1 \in Nat
    BY <1>1
  <2> HIDE DEF T
  <2>5. QED BY <2>2, <2>3, <2>4
<1>3. PICK m \in T : \A k \in T : k <= m
  <2> HIDE DEF T
  <2>1. QED BY <1>2, LargestDay
<1>4. PICK x \in S : m = PeakCount + 1 - x
  OBVIOUS
<1>5. ASSUME NEW y \in S PROVE x <= y
  <2>1. PeakCount + 1 - y <= PeakCount + 1 - x
    BY <1>3, <1>4
  <2>2. x \in Nat /\ y \in Nat
    OBVIOUS
  <2>3. QED BY <1>1, <2>1, <2>2
<1>6. QED BY <1>5

LEMMA PicksExist ==
  ASSUME NEW cs, NEW day
  PROVE  /\ Picks(cs, day)[0] = {{}}
         /\ \A k \in 1..PeakCount : Picks(cs, day)[k] = Grown(cs, day, Picks(cs, day)[k - 1])
<1> DEFINE C == {n \in 0..PeakCount : ~ \E pick : PicksTo(cs, day, n, pick)}
<1>1. PeakCount \in Nat
  BY StructureAssumptions
<1>2. C = {}
  <2> SUFFICES ASSUME C # {} PROVE FALSE
    OBVIOUS
  <2>1. PICK n \in C : \A k \in C : n <= k
    <3>1. C \in SUBSET (0..PeakCount)
      OBVIOUS
    <3> HIDE DEF C
    <3>2. QED BY <3>1, LeastPick
  <2>2. n \in Nat /\ n <= PeakCount /\ ~ \E pick : PicksTo(cs, day, n, pick)
    OBVIOUS
  <2>3. CASE n = 0
    <3> DEFINE pick == [k \in 0..0 |-> {{}}]
    <3>1. PicksTo(cs, day, 0, pick)
      BY DEF PicksTo
    <3>2. QED BY <2>2, <2>3, <3>1
  <2>4. CASE n # 0
    <3>1. n - 1 \in 0..PeakCount /\ ~(n <= n - 1)
      BY <1>1, <2>2, <2>4
    <3>2. n - 1 \notin C
      BY <2>1, <3>1
    <3>3. PICK old : PicksTo(cs, day, n - 1, old)
      BY <3>1, <3>2
    <3> DEFINE new == [k \in 0..n |-> IF k < n THEN old[k] ELSE Grown(cs, day, old[n - 1])]
    <3>4. ASSUME NEW k \in 0..n
          PROVE  new[k] = IF k = 0 THEN {{}} ELSE Grown(cs, day, new[k - 1])
      <4>1. k \in Nat /\ k <= n /\ n \in Nat
        BY <2>2
      <4>2. CASE k = 0
        <5>1. new[0] = old[0] /\ 0 \in 0..n - 1
          BY <2>4, <4>1
        <5>2. old[0] = {{}}
          BY <3>3, <5>1 DEF PicksTo
        <5>3. QED BY <4>2, <5>1, <5>2
      <4>3. CASE k # 0 /\ k < n
        <5>1. /\ k \in 0..n - 1 /\ k - 1 \in 0..n /\ k - 1 < n
              /\ new[k] = old[k] /\ new[k - 1] = old[k - 1]
          BY <4>1, <4>3
        <5>2. old[k] = Grown(cs, day, old[k - 1])
          BY <3>3, <4>3, <5>1 DEF PicksTo
        <5>3. QED BY <4>3, <5>1, <5>2
      <4>4. CASE k = n
        <5>1. /\ n - 1 \in 0..n /\ n - 1 < n /\ ~(n < n) /\ n \in 0..n
          BY <2>4, <4>1
        <5>2. new[n] = Grown(cs, day, old[n - 1]) /\ new[n - 1] = old[n - 1]
          BY <5>1
        <5>3. QED BY <2>4, <4>4, <5>2
      <4>5. QED BY <4>1, <4>2, <4>3, <4>4
    <3>5. new = [k \in 0..n |-> new[k]]
      OBVIOUS
    <3> HIDE DEF new
    <3>6. PicksTo(cs, day, n, new)
      BY <3>4, <3>5 DEF PicksTo
    <3>7. QED BY <2>2, <3>6
  <2>5. QED BY <2>3, <2>4
<1>3. PeakCount \in 0..PeakCount
  BY <1>1
<1>4. \E pick : PicksTo(cs, day, PeakCount, pick)
  BY <1>2, <1>3
<1>5. PicksTo(cs, day, PeakCount, Picks(cs, day))
  BY <1>4 DEF Picks
<1>6. 0 \in 0..PeakCount /\ \A k \in 1..PeakCount : k \in 0..PeakCount /\ k # 0
  BY <1>1
<1>7. QED BY <1>5, <1>6 DEF PicksTo

\* Of the days left one is the highest.
LEMMA HighestLeft ==
  ASSUME NEW cs \in Seq(Candles), NEW day, NEW sel, Left(cs, day, sel) # {}
  PROVE  Best(cs, day, sel) # {}
<1> DEFINE S == Left(cs, day, sel)
           Higher(d) == {e \in S : cs[e].high > cs[d].high}
           T == {Higher(d) : d \in S}
<1>1. IsFiniteSet(S) /\ \A d \in S : cs[d].high \in Nat
  <2>1. S \subseteq 1..Len(cs) /\ Len(cs) \in Nat
    BY DEF Left, PeakCandidates, Before
  <2>2. IsFiniteSet(1..Len(cs))
    BY <2>1, FS_Interval
  <2>3. \A d \in 1..Len(cs) : cs[d] \in Candles
    OBVIOUS
  <2>4. \A c \in Candles : c.high \in Nat
    BY StructureAssumptions
  <2>5. QED BY <2>1, <2>2, <2>3, <2>4, FS_Subset
<1> HIDE DEF S
<1> DEFINE R == StrictSubsetOrdering(S)
<1>2. IsWellFoundedOn(R, FiniteSubsetsOf(S))
  BY FS_StrictSubsetOrderingWellFounded
<1>3. T \subseteq FiniteSubsetsOf(S) /\ T # {}
  <2>1. \A d \in S : Higher(d) \in SUBSET S /\ IsFiniteSet(Higher(d))
    BY <1>1, FS_Subset
  <2>2. S # {}
    BY DEF S
  <2> HIDE DEF Higher
  <2>3. QED BY <2>1, <2>2 DEF FiniteSubsetsOf
<1>4. PICK F \in T : \A G \in T : ~(<<G, F>> \in R)
  <2> HIDE DEF R, T
  <2>1. QED BY <1>2, <1>3, WFMin
<1>5. PICK x \in S : F = Higher(x)
  OBVIOUS
<1>6. ASSUME NEW y \in S PROVE cs[y].high <= cs[x].high
  <2> SUFFICES ASSUME cs[y].high > cs[x].high PROVE FALSE
    BY <1>1
  <2>1. Higher(y) \subseteq Higher(x)
    BY <1>1
  <2>2. y \in Higher(x) /\ y \notin Higher(y)
    BY <1>1
  <2>3. Higher(y) \in SUBSET S /\ Higher(x) \in SUBSET S /\ Higher(y) \in T
    OBVIOUS
  <2> HIDE DEF Higher, T
  <2>4. <<Higher(y), Higher(x)>> \in R
    BY <2>1, <2>2, <2>3 DEF StrictSubsetOrdering
  <2> HIDE DEF R
  <2>5. QED BY <1>4, <1>5, <2>3, <2>4
<1>7. QED BY <1>6 DEF Best, S

\* What holds of a selection after k picks: its days are spaced, and every
\* other day is near a higher one of them, or none of them is lower and all k
\* picks were used.
Justified(cs, day, k, sel) ==
  /\ IsFiniteSet(sel) /\ sel \subseteq PeakCandidates(cs, day)
  /\ \A d, e \in sel : d # e => Apart(d, e)
  /\ \A d \in PeakCandidates(cs, day) \ sel :
       \/ (Cardinality(sel) = k /\ \A e \in sel : cs[e].high >= cs[d].high)
       \/ \E e \in sel : cs[e].high >= cs[d].high /\ ~Apart(d, e)

LEMMA PickJustified ==
  ASSUME NEW cs \in Seq(Candles), NEW day, NEW k \in Nat, NEW sel,
         Justified(cs, day, k, sel), NEW new \in Grown(cs, day, {sel})
  PROVE  Justified(cs, day, k + 1, new)
<1> DEFINE P == PeakCandidates(cs, day)
<1>1. /\ IsFiniteSet(sel) /\ sel \subseteq P
      /\ \A d, e \in sel : d # e => Apart(d, e)
      /\ \A d \in P \ sel :
           \/ (Cardinality(sel) = k /\ \A e \in sel : cs[e].high >= cs[d].high)
           \/ \E e \in sel : cs[e].high >= cs[d].high /\ ~Apart(d, e)
  BY DEF Justified
<1>2. \A d \in P : d \in Int /\ cs[d].high \in Nat
  <2>1. P \subseteq 1..Len(cs) /\ Len(cs) \in Nat
    BY DEF PeakCandidates, Before
  <2>2. \A d \in 1..Len(cs) : d \in Int /\ cs[d] \in Candles
    OBVIOUS
  <2>3. \A c \in Candles : c.high \in Nat
    BY StructureAssumptions
  <2> HIDE DEF P
  <2>4. QED BY <2>1, <2>2, <2>3
<1>3. \/ Best(cs, day, sel) = {} /\ new = sel
      \/ \E d \in Best(cs, day, sel) : new = sel \union {d}
  BY DEF Grown
<1>4. Left(cs, day, sel) = {d \in P \ sel : \A e \in sel : Apart(d, e)}
  BY DEF Left
<1> HIDE DEF P
<1>5. CASE Best(cs, day, sel) = {} /\ new = sel
  <2>1. Left(cs, day, sel) = {}
    BY <1>5, HighestLeft
  <2>2. ASSUME NEW d \in P \ sel
        PROVE  \E e \in sel : cs[e].high >= cs[d].high /\ ~Apart(d, e)
    <3>1. \E e \in sel : ~Apart(d, e)
      BY <1>4, <2>1
    <3>2. QED BY <1>1, <3>1
  <2>3. QED BY <1>1, <1>5, <2>2 DEF Justified, P
<1>6. ASSUME NEW top \in Best(cs, day, sel), new = sel \union {top}
      PROVE  Justified(cs, day, k + 1, new)
  <2>1. /\ top \in P /\ top \notin sel /\ \A e \in sel : Apart(top, e)
        /\ \A e \in Left(cs, day, sel) : cs[e].high <= cs[top].high
    BY <1>4 DEF Best
  <2>2. IsFiniteSet(new) /\ Cardinality(new) = Cardinality(sel) + 1 /\ new \subseteq P
    BY <1>1, <1>6, <2>1, FS_AddElement
  <2>3. ASSUME NEW d \in new, NEW e \in new, d # e PROVE Apart(d, e)
    <3>1. CASE d \in sel /\ e \in sel
      BY <1>1, <2>3, <3>1
    <3>2. CASE d = top /\ e \in sel
      BY <2>1, <3>2
    <3>3. CASE e = top /\ d \in sel
      BY <1>1, <1>2, <2>1, <3>3 DEF Apart
    <3>4. QED BY <1>6, <2>3, <3>1, <3>2, <3>3
  <2>4. ASSUME NEW d \in P \ new
        PROVE  \/ (Cardinality(new) = k + 1 /\ \A e \in new : cs[e].high >= cs[d].high)
               \/ \E e \in new : cs[e].high >= cs[d].high /\ ~Apart(d, e)
    <3>1. d \in P \ sel /\ d # top
      BY <1>6
    <3>2. CASE \E e \in sel : cs[e].high >= cs[d].high /\ ~Apart(d, e)
      BY <1>6, <3>2
    <3>3. CASE Cardinality(sel) = k /\ \A e \in sel : cs[e].high >= cs[d].high
      <4>1. CASE d \in Left(cs, day, sel)
        <5>1. cs[d].high <= cs[top].high
          BY <2>1, <4>1
        <5>2. cs[top].high >= cs[d].high
          BY <1>2, <2>1, <3>1, <5>1
        <5>3. QED BY <1>6, <2>2, <3>3, <5>2
      <4>2. CASE d \notin Left(cs, day, sel)
        BY <1>4, <1>6, <3>1, <3>3, <4>2
      <4>3. QED BY <4>1, <4>2
    <3>4. QED BY <1>1, <3>1, <3>2, <3>3
  <2>5. QED BY <2>2, <2>3, <2>4 DEF Justified, P
<1>7. QED BY <1>3, <1>5, <1>6

LEMMA PicksJustified ==
  ASSUME NEW cs \in Seq(Candles), NEW day
  PROVE  /\ SelectedPeaks(cs, day) # {}
         /\ \A sel \in SelectedPeaks(cs, day) : Justified(cs, day, PeakCount, sel)
<1> DEFINE picks(k) == Picks(cs, day)[k]
           good(k)  == /\ picks(k) # {}
                       /\ \A sel \in picks(k) : Justified(cs, day, k, sel)
           C == {k \in 0..PeakCount : ~good(k)}
<1>1. PeakCount \in Nat
  BY StructureAssumptions
<1>2. picks(0) = {{}} /\ \A k \in 1..PeakCount : picks(k) = Grown(cs, day, picks(k - 1))
  BY PicksExist
<1> HIDE DEF picks
<1>3. C = {}
  <2> SUFFICES ASSUME C # {} PROVE FALSE
    OBVIOUS
  <2>1. PICK k \in C : \A j \in C : k <= j
    <3>1. C \in SUBSET (0..PeakCount)
      OBVIOUS
    <3> HIDE DEF C
    <3>2. QED BY <3>1, LeastPick
  <2>2. k \in 0..PeakCount /\ ~good(k)
    OBVIOUS
  <2>3. good(0)
    <3>1. Justified(cs, day, 0, {})
      BY FS_EmptySet DEF Justified
    <3>2. QED BY <1>2, <3>1
  <2>4. CASE k # 0
    <3>1. k \in 1..PeakCount /\ k - 1 \in 0..PeakCount /\ ~(k <= k - 1) /\ k - 1 \in Nat
          /\ (k - 1) + 1 = k
      BY <1>1, <2>2, <2>4
    <3>2. good(k - 1)
      BY <2>1, <3>1
    <3>3. picks(k) = Grown(cs, day, picks(k - 1))
      BY <1>2, <3>1
    <3>4. ASSUME NEW new \in picks(k) PROVE Justified(cs, day, k, new)
      <4>1. PICK sel \in picks(k - 1) : new \in Grown(cs, day, {sel})
        BY <3>3 DEF Grown
      <4>2. Justified(cs, day, k - 1, sel)
        BY <3>2
      <4>3. Justified(cs, day, (k - 1) + 1, new)
        BY <3>1, <4>1, <4>2, PickJustified
      <4>4. QED BY <3>1, <4>3
    <3>5. picks(k) # {}
      <4>1. PICK sel : sel \in picks(k - 1)
        BY <3>2
      <4>2. CASE Best(cs, day, sel) = {}
        BY <3>3, <4>1, <4>2 DEF Grown
      <4>3. CASE Best(cs, day, sel) # {}
        <5>1. PICK d : d \in Best(cs, day, sel)
          BY <4>3
        <5>2. sel \union {d} \in Grown(cs, day, picks(k - 1))
          BY <4>1, <4>3, <5>1 DEF Grown
        <5>3. QED BY <3>3, <5>2
      <4>4. QED BY <4>2, <4>3
    <3>6. QED BY <2>2, <3>4, <3>5
  <2>5. QED BY <2>2, <2>3, <2>4
<1>4. good(PeakCount)
  BY <1>1, <1>3
<1>5. QED BY <1>4, SelectionIsPicked DEF picks

\* Whatever the candles, the number of peaks and their spacing: there is a
\* selection, its days are spaced, and a day outside it is missing only for a
\* higher peak too close to it or because the count is reached by days that are
\* no lower.
THEOREM PeaksAlwaysJustified ==
  Spec => [](PeaksJustified /\ SelectedPeaks(candles, Len(candles)) # {})
<1>1. ASSUME SeriesInv
      PROVE  PeaksJustified /\ SelectedPeaks(candles, Len(candles)) # {}
  <2> DEFINE n == Len(candles)
  <2>1. candles \in Seq(Candles) /\ n \in Nat /\ PeakSpacing \in Nat \ {0}
    BY <1>1, StructureAssumptions DEF SeriesInv
  <2>2. PeakCandidates(candles, n) = 1..(n - 1)
    BY <2>1 DEF PeakCandidates, Before
  <2>3. /\ SelectedPeaks(candles, n) # {}
        /\ \A sel \in SelectedPeaks(candles, n) : Justified(candles, n, PeakCount, sel)
    BY <2>1, PicksJustified
  <2> HIDE DEF n
  <2>4. \A d, e \in 1..(n - 1) : d - e \in (-PeakSpacing + 1)..(PeakSpacing - 1) <=> ~Apart(d, e)
    BY <2>1 DEF Apart
  <2>5. ASSUME NEW sel \in SelectedPeaks(candles, n)
        PROVE  /\ \A d, e \in sel :
                    d # e => d - e \notin (-PeakSpacing + 1)..(PeakSpacing - 1)
               /\ \A d \in 1..(n - 1) \ sel :
                    \/ Cardinality(sel) = PeakCount
                       /\ \A e \in sel : candles[e].high >= candles[d].high
                    \/ \E e \in sel : /\ candles[e].high >= candles[d].high
                                      /\ d - e \in (-PeakSpacing + 1)..(PeakSpacing - 1)
    <3>1. /\ sel \subseteq 1..(n - 1) /\ \A d, e \in sel : d # e => Apart(d, e)
          /\ \A d \in 1..(n - 1) \ sel :
               \/ (Cardinality(sel) = PeakCount
                   /\ \A e \in sel : candles[e].high >= candles[d].high)
               \/ \E e \in sel : candles[e].high >= candles[d].high /\ ~Apart(d, e)
      BY <2>2, <2>3 DEF Justified
    <3>2. QED BY <2>4, <3>1
  <2>6. QED BY <2>3, <2>5 DEF PeaksJustified, n
<1>2. QED BY <1>1, SeriesInvariance, PTL
=============================================================================
