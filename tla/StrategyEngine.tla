--------------------------- MODULE StrategyEngine ---------------------------
(***************************************************************************)
(* The pure rule engine of the advisor (backend/internal/strategy): what   *)
(* one evaluation recommends and which state it hands back, for Recovery   *)
(* Breakout and for Dip Accumulation.  No state lives here; the live       *)
(* advisor and the backtest simulator both evaluate these operators.       *)
(*                                                                         *)
(* Prices are positive integers, days count completed daily candles and 0  *)
(* stands for "none" (a zero float or a zero time).  Percentages are       *)
(* compared by cross-multiplication, so no rounding is modelled.           *)
(*                                                                         *)
(* What the engine reads from the candle series is the record m:           *)
(*   day, close     the latest completed candle (day 0: no candle yet)     *)
(*   localHigh,     day of the newest confirmed local high, and whether    *)
(*   eligible       the latest close is a large enough pullback below it   *)
(*   initialLow,    the newest pair of rising lows: day of its first low,  *)
(*   recovery       and its identity (the day of its second low), 0 when   *)
(*                  the pair encloses no recovery high                     *)
(*   breakout       how the latest close relates to that recovery high and *)
(*                  to the trend filter                                    *)
(*   peak           average of the spaced historical peaks before the day  *)
(***************************************************************************)
EXTENDS Integers, FiniteSets

RecoveryBreakout == "RECOVERY_BREAKOUT"
DipAccumulation  == "DIP_ACCUMULATION"
Strategies       == {RecoveryBreakout, DipAccumulation}

Stages == 1..3
Levels == 1..3

AdvisoryStates == {"CASH", "CORRECTION", "RECOVERY_PENDING", "ENTRY_PENDING",
                   "PARTIAL_POSITION", "FULL_POSITION", "PROFIT_PROTECTION",
                   "EXITING", "WAITING_FOR_REENTRY"}

Sells   == {"SELL_PROFIT", "SELL_DRAWDOWN"}
Actions == {"HOLD", "WAIT", "BUY"} \union Sells

BreakoutFacts == {"UNCONFIRMED", "FILTERED", "CONFIRMED"}

Markets == [day : Nat, close : Nat, localHigh : Nat, eligible : BOOLEAN,
            initialLow : Nat, recovery : Nat, breakout : BreakoutFacts,
            peak : Nat]

Positions == [held : BOOLEAN, avg : Nat]

(***************************************************************************)
(* One strategy profile, as ValidateConfig admits it.                      *)
(***************************************************************************)
Percent == 1..100

Configs ==
  [entry : [Stages -> Percent], profitTrigger : Percent, profitTake : Percent,
   drawdown : [Levels -> -100 .. -1], drawdownSell : [Levels -> Percent],
   dip : [2..3 -> Percent], feeBps : 0..9999, floor : BOOLEAN, intraday : BOOLEAN,
   peakDiscount : 0..99]

ValidConfig(c) ==
  /\ c \in Configs
  /\ c.entry[1] + c.entry[2] + c.entry[3] <= 100
  /\ c.drawdown[1] > c.drawdown[2] /\ c.drawdown[2] > c.drawdown[3]
  /\ c.dip[3] > c.dip[2]

(***************************************************************************)
(* What is persisted between evaluations.                                  *)
(***************************************************************************)
PersistedStates ==
  [state : AdvisoryStates, highestPrice : Nat, firstEntryRef : Nat,
   lastDipEntryAt : Nat, correctionHighAt : Nat, lastBreakout : Nat,
   reentryAfter : Nat, entryStep : 0..3, profitTaken : BOOLEAN,
   drawdowns : SUBSET Levels, positionOpen : BOOLEAN]

FreshState ==
  [state |-> "CASH", highestPrice |-> 0, firstEntryRef |-> 0,
   lastDipEntryAt |-> 0, correctionHighAt |-> 0, lastBreakout |-> 0,
   reentryAfter |-> 0, entryStep |-> 0, profitTaken |-> FALSE,
   drawdowns |-> {}, positionOpen |-> FALSE]

\* Fault: the position outlives the campaign.
ResetKeepingPosition(day) ==
  [FreshState EXCEPT !.state = "WAITING_FOR_REENTRY", !.reentryAfter = day,
                     !.positionOpen = TRUE]

ResetForReentry(day) ==
  [FreshState EXCEPT !.state = "WAITING_FOR_REENTRY", !.reentryAfter = day]

In(st, label) == [st EXCEPT !.state = label]

(***************************************************************************)
(* An evaluation's outcome: the advice and the next state.  level names    *)
(* the drawdown level of a drawdown sale and ath an entry of the           *)
(* historical-peak override, which the code tells by its reason text.      *)
(***************************************************************************)
Advice(action, pct, price, st) ==
  [action |-> action, pct |-> pct, price |-> price, level |-> 0, floor |-> 0,
   ath |-> FALSE, next |-> st]

Hold(m, st) == Advice("HOLD", 0, m.close, st)
Wait(m, st) == Advice("WAIT", 0, m.close, st)

SellDrawdown(c, level, price, floor, st) ==
  [Advice("SELL_DRAWDOWN", c.drawdownSell[level], price, st) EXCEPT
     !.level = level, !.floor = floor]

TakeProfit(c, m, st) ==
  Advice("SELL_PROFIT", c.profitTake, m.close,
         [st EXCEPT !.profitTaken = TRUE, !.state = "PROFIT_PROTECTION"])

(***************************************************************************)
(* Exits.                                                                  *)
(***************************************************************************)
Observed(m, st) ==
  [st EXCEPT !.positionOpen = TRUE,
             !.highestPrice = IF m.close > @ THEN m.close ELSE @]

ProfitReached(c, m, pos, st) ==
  /\ ~st.profitTaken
  /\ pos.avg > 0
  /\ (m.close - pos.avg) * 100 >= c.profitTrigger * pos.avg

Crossed(c, high, price) ==
  {k \in Levels : (price - high) * 100 <= c.drawdown[k] * high}

Deepest(S) == IF S = {} THEN 0 ELSE CHOOSE k \in S : \A j \in S : j <= k

DrawdownAction(c, price, st) ==
  Deepest(Crossed(c, st.highestPrice, price) \ st.drawdowns)

\* Faults: only the level reached is consumed; one level too many is.
MarkReachedLevelOnly(st, level) == [st EXCEPT !.drawdowns = @ \union {level}]
MarkFromZero(st, level)         == [st EXCEPT !.drawdowns = @ \union 0..level]

MarkDrawdownTriggered(st, level) ==
  [st EXCEPT !.drawdowns = @ \union 1..level]

DipHoldingState(st) ==
  IF st.profitTaken
  THEN IF st.drawdowns # {} THEN "EXITING" ELSE "PROFIT_PROTECTION"
  ELSE IF st.entryStep >= 3 THEN "FULL_POSITION" ELSE "PARTIAL_POSITION"

BreakEvenFloor(c, pos) == IF c.floor /\ c.feeBps < 10000 THEN pos.avg ELSE 0

BelowFloor(c, pos, price) ==
  /\ BreakEvenFloor(c, pos) > 0
  /\ price * (10000 - c.feeBps) < BreakEvenFloor(c, pos) * 10000

(***************************************************************************)
(* Entries.                                                                *)
(***************************************************************************)
\* Fault: a correction from before the exit anchors the next cycle.
AnchorAnyCorrection(m, st) ==
  IF st.correctionHighAt # 0 THEN st.correctionHighAt
  ELSE IF m.eligible THEN m.localHigh ELSE 0

\* A correction once anchored keeps its high until the cycle is reset.
CorrectionAnchor(m, st) ==
  IF st.correctionHighAt # 0 THEN st.correctionHighAt
  ELSE IF m.eligible /\ m.localHigh > st.reentryAfter THEN m.localHigh ELSE 0

EntryPhase(m, st) ==
  LET anchor == CorrectionAnchor(m, st) IN
  IF anchor = 0
  THEN IF st.reentryAfter = 0 THEN "CASH" ELSE "WAITING_FOR_REENTRY"
  ELSE IF m.recovery = 0 \/ m.initialLow <= anchor THEN "CORRECTION"
  ELSE IF m.breakout = "UNCONFIRMED" THEN "RECOVERY_PENDING"
  ELSE IF m.breakout = "FILTERED" THEN "ENTRY_PENDING"
  ELSE IF st.lastBreakout = m.recovery THEN "PARTIAL_POSITION"
  ELSE "READY"

PeakGateOpen(c, m) ==
  \/ c.peakDiscount = 0
  \/ m.peak > 0 /\ m.close * 100 <= m.peak * (100 - c.peakDiscount)

BreakoutEntry(c, m, st) ==
  LET phase == EntryPhase(m, st)
      t     == [st EXCEPT !.correctionHighAt = CorrectionAnchor(m, st)]
      step  == st.entryStep + 1
  IN  IF phase = "PARTIAL_POSITION" THEN Hold(m, In(t, phase))
      ELSE IF phase # "READY" THEN Wait(m, In(t, phase))
      ELSE IF step = 1 /\ ~PeakGateOpen(c, m) THEN Wait(m, In(t, "ENTRY_PENDING"))
      ELSE Advice("BUY", c.entry[step], m.close,
             [t EXCEPT !.entryStep = step, !.lastBreakout = m.recovery,
                       !.state = IF step = 3 THEN "FULL_POSITION"
                                             ELSE "PARTIAL_POSITION"])

DipFirstEntry(c, m, st) ==
  LET first == BreakoutEntry(c, m, st)
  IN  IF first.action # "BUY" THEN first
      ELSE [first EXCEPT !.next.firstEntryRef = m.close,
                         !.next.lastDipEntryAt = m.day]

DipEntryReady(c, m, st) ==
  /\ ~st.profitTaken
  /\ st.firstEntryRef > 0
  /\ st.lastDipEntryAt # m.day
  /\ st.entryStep \in 1..2
  /\ m.close * 100 <= st.firstEntryRef * (100 - c.dip[st.entryStep + 1])

DipEntry(c, m, st) ==
  LET step == st.entryStep + 1
  IN  Advice("BUY", c.entry[step], m.close,
        [st EXCEPT !.entryStep = step, !.lastDipEntryAt = m.day,
                   !.state = IF step = 3 THEN "FULL_POSITION"
                                         ELSE "PARTIAL_POSITION"])

(***************************************************************************)
(* The historical-peak override: a first entry ahead of either ruleset.    *)
(***************************************************************************)
\* Fault: a position the engine has not observed yet does not block the entry.
AthEntryDespitePosition(rule, m, pos, st) ==
  /\ rule.enabled /\ m.peak > 0 /\ m.day > 0
  /\ st.entryStep = 0 /\ ~st.positionOpen
  /\ m.close * 100 <= m.peak * rule.threshold

AthEntryApplies(rule, m, pos, st) ==
  /\ rule.enabled /\ m.peak > 0 /\ m.day > 0
  /\ st.entryStep = 0 /\ ~st.positionOpen /\ ~pos.held
  /\ m.close * 100 <= m.peak * rule.threshold

AthEntry(c, m, st) ==
  [Advice("BUY", c.entry[1], m.close,
     [st EXCEPT !.state = "PARTIAL_POSITION", !.entryStep = 1,
                !.positionOpen = TRUE, !.firstEntryRef = m.close,
                !.lastDipEntryAt = m.day]) EXCEPT !.ath = TRUE]

(***************************************************************************)
(* The two rulesets, each a list of rules of which the first that applies  *)
(* decides.                                                                *)
(***************************************************************************)
EvaluateRecoveryBreakout(c, m, pos, st, quote) ==
  LET s     == IF pos.held THEN Observed(m, st) ELSE st
      alert == IF c.intraday /\ quote > 0 THEN DrawdownAction(c, quote, s) ELSE 0
      level == DrawdownAction(c, m.close, s)
  IN  IF m.day = 0 THEN Wait(m, st)
      ELSE IF st.positionOpen /\ ~pos.held THEN Wait(m, ResetForReentry(m.day))
      ELSE IF pos.held /\ alert # 0
           THEN SellDrawdown(c, alert, quote, 0, In(s, "EXITING"))
      ELSE IF pos.held /\ level # 0
           THEN SellDrawdown(c, level, m.close, 0,
                             In(MarkDrawdownTriggered(s, level), "EXITING"))
      ELSE IF pos.held /\ ProfitReached(c, m, pos, s) THEN TakeProfit(c, m, s)
      ELSE IF pos.held /\ s.profitTaken THEN Hold(m, In(s, DipHoldingState(s)))
      ELSE IF pos.held /\ s.entryStep = 0 THEN Hold(m, In(s, "PARTIAL_POSITION"))
      ELSE IF s.entryStep >= 3
           THEN Hold(m, IF s.state \in {"PROFIT_PROTECTION", "EXITING"}
                        THEN s ELSE In(s, "FULL_POSITION"))
      ELSE BreakoutEntry(c, m, s)

ProtectedExit(c, m, pos, s, level) ==
  IF level = 0 \/ BelowFloor(c, pos, m.close)
  THEN Hold(m, In(s, DipHoldingState(s)))
  ELSE SellDrawdown(c, level, m.close, BreakEvenFloor(c, pos),
                    In(MarkDrawdownTriggered(s, level), "EXITING"))

IntradayExit(c, m, pos, s, quote, level) ==
  IF BelowFloor(c, pos, quote) THEN Hold(m, In(s, "PROFIT_PROTECTION"))
  ELSE SellDrawdown(c, level, quote, BreakEvenFloor(c, pos),
                    In(s, "PROFIT_PROTECTION"))

EvaluateDipAccumulation(c, m, pos, st, quote) ==
  LET s     == IF pos.held THEN Observed(m, st) ELSE st
      alert == IF c.intraday /\ quote > 0 THEN DrawdownAction(c, quote, s) ELSE 0
  IN  IF m.day = 0 THEN Wait(m, st)
      ELSE IF st.positionOpen /\ ~pos.held THEN Wait(m, ResetForReentry(m.day))
      ELSE IF pos.held /\ ProfitReached(c, m, pos, s) THEN TakeProfit(c, m, s)
      ELSE IF pos.held /\ s.profitTaken /\ alert # 0
           THEN IntradayExit(c, m, pos, s, quote, alert)
      ELSE IF pos.held /\ DipEntryReady(c, m, s) THEN DipEntry(c, m, s)
      ELSE IF pos.held /\ s.profitTaken
           THEN ProtectedExit(c, m, pos, s, DrawdownAction(c, m.close, s))
      ELSE IF pos.held /\ s.entryStep = 0 THEN Hold(m, In(s, "PARTIAL_POSITION"))
      ELSE IF s.entryStep >= 3
           THEN Hold(m, IF s.profitTaken /\ s.state \in {"PROFIT_PROTECTION", "EXITING"}
                        THEN s ELSE In(s, "FULL_POSITION"))
      ELSE IF pos.held THEN Hold(m, In(s, "PARTIAL_POSITION"))
      ELSE IF s.entryStep > 0 THEN Wait(m, In(s, "PARTIAL_POSITION"))
      ELSE DipFirstEntry(c, m, s)

EvaluateWithIntradayPrice(strategy, c, rule, m, pos, st, quote) ==
  IF AthEntryApplies(rule, m, pos, st) THEN AthEntry(c, m, st)
  ELSE IF strategy = RecoveryBreakout
       THEN EvaluateRecoveryBreakout(c, m, pos, st, quote)
  ELSE EvaluateDipAccumulation(c, m, pos, st, quote)
=============================================================================
