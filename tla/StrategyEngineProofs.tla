------------------------ MODULE StrategyEngineProofs ------------------------
(***************************************************************************)
(* Proofs about the rule engine and the facts it reads, for every valid    *)
(* configuration, price and market: what one evaluation returns.  The      *)
(* live advisor and the simulator both rest on these lemmas.               *)
(***************************************************************************)
EXTENDS MarketFacts, TLAPS

\* What one evaluation can return.
Outcomes == [action : Actions, pct : Nat, price : Nat, level : 0..3, floor : Nat,
             ath : BOOLEAN, next : PersistedStates]

\* What the engine reads of a configuration as numbers.
Percentages(c) ==
  /\ c.entry \in [Stages -> Percent] /\ c.drawdownSell \in [Levels -> Percent]
  /\ c.profitTake \in Percent

\* What every rule keeps of a persisted state.
Sound(s, st) ==
  /\ st.correctionHighAt # 0 => st.correctionHighAt > st.reentryAfter
  /\ \A k \in st.drawdowns : 1..k \subseteq st.drawdowns
  /\ st.drawdowns # {} => st.highestPrice > 0
  /\ st.highestPrice > 0 => st.positionOpen
  /\ s = DipAccumulation /\ st.entryStep > 0 => st.firstEntryRef > 0

SoundOutcome(s, d) ==
  /\ d \in Outcomes
  /\ Sound(s, d.next)
  /\ d.ath => d.action = "BUY"

-----------------------------------------------------------------------------
(***************************************************************************)
(* Lemmas about the engine's operators.                                    *)
(***************************************************************************)
\* The levels newly crossed give a level, or 0.
LEMMA DeepestLevel ==
  ASSUME NEW S \in SUBSET Levels
  PROVE  /\ Deepest(S) \in 0..3
         /\ Deepest(S) # 0 => Deepest(S) \in S
<1>1. CASE S = {}
  BY <1>1 DEF Deepest
<1>2. CASE S # {}
  <2>1. \E k \in S : \A j \in S : j <= k
    <3>1. CASE 3 \in S
      BY <3>1 DEF Levels
    <3>2. CASE 3 \notin S /\ 2 \in S
      BY <3>2 DEF Levels
    <3>3. CASE 3 \notin S /\ 2 \notin S
      <4>1. \A k \in S : k = 1
        BY <3>3 DEF Levels
      <4>2. QED BY <4>1, <1>2
    <3>4. QED BY <3>1, <3>2, <3>3
  <2>2. Deepest(S) \in S
    BY <1>2, <2>1 DEF Deepest
  <2>3. Deepest(S) \in 1..3
    BY <2>2 DEF Levels
  <2>4. QED BY <2>2, <2>3
<1>3. QED BY <1>1, <1>2

LEMMA DrawdownLevel ==
  ASSUME NEW c, NEW price, NEW st
  PROVE  DrawdownAction(c, price, st) \in 0..3
<1>1. Crossed(c, st.highestPrice, price) \ st.drawdowns \in SUBSET Levels
  BY DEF Crossed
<1>2. QED BY <1>1, DeepestLevel DEF DrawdownAction

LEMMA FreshSound ==
  ASSUME NEW s, NEW day \in Nat
  PROVE  /\ FreshState \in PersistedStates /\ Sound(s, FreshState)
         /\ ResetForReentry(day) \in PersistedStates /\ Sound(s, ResetForReentry(day))
<1>1. /\ FreshState \in PersistedStates /\ FreshState.correctionHighAt = 0
      /\ FreshState.drawdowns = {} /\ FreshState.highestPrice = 0
      /\ FreshState.entryStep = 0
  BY DEF FreshState, PersistedStates, AdvisoryStates, Levels
<1>2. /\ ResetForReentry(day) \in PersistedStates
      /\ ResetForReentry(day).correctionHighAt = 0
      /\ ResetForReentry(day).drawdowns = {} /\ ResetForReentry(day).highestPrice = 0
      /\ ResetForReentry(day).entryStep = 0
  BY <1>1 DEF ResetForReentry, PersistedStates, AdvisoryStates
<1>3. QED BY <1>1, <1>2 DEF Sound

LEMMA InSound ==
  ASSUME NEW s, NEW st \in PersistedStates, Sound(s, st), NEW label \in AdvisoryStates
  PROVE  In(st, label) \in PersistedStates /\ Sound(s, In(st, label))
  BY DEF In, PersistedStates, Sound

LEMMA QuietSound ==
  ASSUME NEW s, NEW st \in PersistedStates, Sound(s, st), NEW m \in Markets
  PROVE  SoundOutcome(s, Hold(m, st)) /\ SoundOutcome(s, Wait(m, st))
  BY DEF Hold, Wait, Advice, SoundOutcome, Outcomes, Actions, Markets

LEMMA ObservedSound ==
  ASSUME NEW s, NEW st \in PersistedStates, Sound(s, st),
         NEW m \in Markets, m.close > 0
  PROVE  /\ Observed(m, st) \in PersistedStates /\ Sound(s, Observed(m, st))
         /\ Observed(m, st).positionOpen /\ Observed(m, st).highestPrice > 0
<1> DEFINE new == Observed(m, st)
<1>1. new.highestPrice \in Nat /\ new.highestPrice > 0
  BY DEF Observed, PersistedStates, Markets
<1>2. new \in PersistedStates /\ new.positionOpen
  BY DEF Observed, PersistedStates, Markets
<1>3. /\ new.correctionHighAt = st.correctionHighAt /\ new.reentryAfter = st.reentryAfter
      /\ new.drawdowns = st.drawdowns /\ new.entryStep = st.entryStep
      /\ new.firstEntryRef = st.firstEntryRef
  BY DEF Observed, PersistedStates
<1>4. QED BY <1>1, <1>2, <1>3 DEF Sound

LEMMA MarkSound ==
  ASSUME NEW s, NEW st \in PersistedStates, Sound(s, st), NEW level \in 0..3,
         st.highestPrice > 0
  PROVE  /\ MarkDrawdownTriggered(st, level) \in PersistedStates
         /\ Sound(s, MarkDrawdownTriggered(st, level))
<1> DEFINE new == MarkDrawdownTriggered(st, level)
<1>1. new \in PersistedStates
  BY DEF MarkDrawdownTriggered, PersistedStates, Levels
<1>2. new.drawdowns = st.drawdowns \union 1..level
  BY DEF MarkDrawdownTriggered, PersistedStates
<1>3. \A k \in new.drawdowns : 1..k \subseteq new.drawdowns
  BY <1>2 DEF Sound, PersistedStates, Levels
<1>4. /\ new.correctionHighAt = st.correctionHighAt /\ new.reentryAfter = st.reentryAfter
      /\ new.highestPrice = st.highestPrice /\ new.positionOpen = st.positionOpen
      /\ new.entryStep = st.entryStep /\ new.firstEntryRef = st.firstEntryRef
  BY DEF MarkDrawdownTriggered, PersistedStates
<1>5. QED BY <1>1, <1>3, <1>4 DEF Sound

\* The updates the entries make keep the type.
LEMMA EntryUpdates ==
  ASSUME NEW st \in PersistedStates, NEW label \in AdvisoryStates,
         NEW step \in 0..3, NEW ref \in Nat, NEW at \in Nat
  PROVE  /\ [st EXCEPT !.entryStep = step, !.lastBreakout = at, !.state = label]
               \in PersistedStates
         /\ [st EXCEPT !.entryStep = step, !.lastDipEntryAt = at, !.state = label]
               \in PersistedStates
         /\ [st EXCEPT !.state = label, !.entryStep = step, !.positionOpen = TRUE,
                       !.firstEntryRef = ref, !.lastDipEntryAt = at] \in PersistedStates
<1> DEFINE first  == [st EXCEPT !.entryStep = step, !.lastBreakout = at]
           later  == [st EXCEPT !.entryStep = step, !.lastDipEntryAt = at]
           peak   == [st EXCEPT !.entryStep = step, !.positionOpen = TRUE,
                                !.firstEntryRef = ref, !.lastDipEntryAt = at]
<1>1. first \in PersistedStates /\ later \in PersistedStates
  BY DEF PersistedStates
<1>2. peak \in PersistedStates
  BY DEF PersistedStates
<1>3. /\ [st EXCEPT !.entryStep = step, !.lastBreakout = at, !.state = label]
           = [first EXCEPT !.state = label]
      /\ [st EXCEPT !.entryStep = step, !.lastDipEntryAt = at, !.state = label]
           = [later EXCEPT !.state = label]
  BY DEF PersistedStates
<1>4. [st EXCEPT !.state = label, !.entryStep = step, !.positionOpen = TRUE,
                 !.firstEntryRef = ref, !.lastDipEntryAt = at]
        = [peak EXCEPT !.state = label]
  BY DEF PersistedStates
<1> HIDE DEF first, later, peak
<1>5. \A u \in PersistedStates : [u EXCEPT !.state = label] \in PersistedStates
  BY DEF PersistedStates
<1>6. QED BY <1>1, <1>2, <1>3, <1>4, <1>5

\* The percentages of a valid configuration are numbers.
LEMMA ConfigNumbers ==
  ASSUME NEW c, Percentages(c)
  PROVE  /\ \A k \in Levels : c.drawdownSell[k] \in Nat
         /\ \A k \in Stages : c.entry[k] \in Nat
         /\ c.profitTake \in Nat
<1>1. \A p \in Percent : p \in Nat
  BY DEF Percent
<1>2. QED BY <1>1 DEF Percentages

\* They stay so when a simulation evaluates with a fee of its own.
LEMMA ValidPercentages ==
  ASSUME NEW c, ValidConfig(c), NEW fee
  PROVE  Percentages(c) /\ Percentages([c EXCEPT !.feeBps = fee])
  BY DEF ValidConfig, Configs, Percentages

LEMMA SaleSound ==
  ASSUME NEW s, NEW st \in PersistedStates, Sound(s, st), NEW m \in Markets,
         NEW c, Percentages(c), NEW level \in Levels, NEW price \in Nat,
         NEW floor \in Nat
  PROVE  /\ SoundOutcome(s, SellDrawdown(c, level, price, floor, st))
         /\ SoundOutcome(s, TakeProfit(c, m, st))
<1>1. c.drawdownSell[level] \in Nat /\ c.profitTake \in Nat
  BY ConfigNumbers
<1>2. SoundOutcome(s, SellDrawdown(c, level, price, floor, st))
  <2> DEFINE d == SellDrawdown(c, level, price, floor, st)
  <2>1. d = [action |-> "SELL_DRAWDOWN", pct |-> c.drawdownSell[level], price |-> price,
             level |-> level, floor |-> floor, ath |-> FALSE, next |-> st]
    <3> DEFINE a == Advice("SELL_DRAWDOWN", c.drawdownSell[level], price, st)
    <3>1. a = [action |-> "SELL_DRAWDOWN", pct |-> c.drawdownSell[level], price |-> price,
               level |-> 0, floor |-> 0, ath |-> FALSE, next |-> st]
      BY DEF Advice
    <3>2. d = [a EXCEPT !.level = level, !.floor = floor]
      BY DEF SellDrawdown
    <3> HIDE DEF a, d
    <3>3. QED BY <3>1, <3>2
  <2> HIDE DEF d
  <2>2. level \in 0..3 /\ "SELL_DRAWDOWN" \in Actions
    BY DEF Levels, Actions, Sells
  <2>3. QED BY <1>1, <2>1, <2>2 DEF SoundOutcome, Outcomes, d
<1> DEFINE new == [st EXCEPT !.profitTaken = TRUE, !.state = "PROFIT_PROTECTION"]
<1>a. new \in PersistedStates
  BY DEF PersistedStates, AdvisoryStates
<1>b. /\ new.correctionHighAt = st.correctionHighAt /\ new.reentryAfter = st.reentryAfter
      /\ new.drawdowns = st.drawdowns /\ new.highestPrice = st.highestPrice
      /\ new.positionOpen = st.positionOpen /\ new.entryStep = st.entryStep
      /\ new.firstEntryRef = st.firstEntryRef
  BY DEF PersistedStates
<1>3. new \in PersistedStates /\ Sound(s, new)
  BY <1>a, <1>b DEF Sound
<1>c. TakeProfit(c, m, st) = Advice("SELL_PROFIT", c.profitTake, m.close, new)
  BY DEF TakeProfit
<1> HIDE DEF new
<1>4. SoundOutcome(s, Advice("SELL_PROFIT", c.profitTake, m.close, new))
  BY <1>1, <1>3 DEF Advice, SoundOutcome, Outcomes, Actions, Sells, Markets
<1>5. QED BY <1>2, <1>4, <1>c

\* An anchored correction began after the latest exit.
LEMMA AnchorAfterExit ==
  ASSUME NEW s, NEW st \in PersistedStates, Sound(s, st), NEW m \in Markets
  PROVE  /\ CorrectionAnchor(m, st) \in Nat
         /\ CorrectionAnchor(m, st) # 0 => CorrectionAnchor(m, st) > st.reentryAfter
  BY DEF CorrectionAnchor, Sound, PersistedStates, Markets

LEMMA EntryPhaseLabel ==
  ASSUME NEW m, NEW st, EntryPhase(m, st) # "READY"
  PROVE  EntryPhase(m, st) \in AdvisoryStates
  BY DEF EntryPhase, AdvisoryStates

LEMMA BreakoutEntrySound ==
  ASSUME NEW s, NEW st \in PersistedStates, Sound(s, st), NEW m \in Markets,
         NEW c, Percentages(c), st.entryStep < 3
  PROVE  LET d == BreakoutEntry(c, m, st) IN
         /\ SoundOutcome(RecoveryBreakout, d)
         /\ d.action # "BUY" => SoundOutcome(s, d)
         /\ ~d.ath
<1> DEFINE anchor == CorrectionAnchor(m, st)
           phase  == EntryPhase(m, st)
           t      == [st EXCEPT !.correctionHighAt = anchor]
           step   == st.entryStep + 1
           label  == IF step = 3 THEN "FULL_POSITION" ELSE "PARTIAL_POSITION"
           bought == [t EXCEPT !.entryStep = step, !.lastBreakout = m.recovery,
                               !.state = label]
<1>1. t \in PersistedStates /\ Sound(s, t) /\ Sound(RecoveryBreakout, t)
  <2> HIDE DEF anchor
  <2>1. anchor \in Nat /\ (anchor # 0 => anchor > st.reentryAfter)
    BY AnchorAfterExit DEF anchor
  <2>2. t \in PersistedStates
    BY <2>1 DEF PersistedStates
  <2>3. /\ t.correctionHighAt = anchor /\ t.reentryAfter = st.reentryAfter
        /\ t.drawdowns = st.drawdowns /\ t.highestPrice = st.highestPrice
        /\ t.positionOpen = st.positionOpen /\ t.entryStep = st.entryStep
        /\ t.firstEntryRef = st.firstEntryRef
    BY DEF PersistedStates
  <2>4. QED BY <2>1, <2>2, <2>3 DEF Sound, RecoveryBreakout, DipAccumulation
<1>2. step \in 1..3 /\ c.entry[step] \in Nat
  BY ConfigNumbers DEF Stages, PersistedStates
<1>3. bought \in PersistedStates /\ Sound(RecoveryBreakout, bought)
  <2>4. label \in AdvisoryStates
    BY DEF AdvisoryStates
  <2> HIDE DEF t, step, label
  <2>1. bought \in PersistedStates
    <3>1. m.recovery \in Nat /\ step \in 0..3
      BY <1>2 DEF Markets
    <3>2. QED BY <1>1, <2>4, <3>1, EntryUpdates
  <2>2. /\ bought.correctionHighAt = t.correctionHighAt
        /\ bought.reentryAfter = t.reentryAfter /\ bought.drawdowns = t.drawdowns
        /\ bought.highestPrice = t.highestPrice /\ bought.positionOpen = t.positionOpen
    BY <1>1 DEF PersistedStates
  <2>5. QED BY <1>1, <2>1, <2>2 DEF Sound, RecoveryBreakout, DipAccumulation
<1>4. CASE phase = "PARTIAL_POSITION"
  <2>1. BreakoutEntry(c, m, st) = Hold(m, In(t, phase))
    BY <1>4 DEF BreakoutEntry
  <2>2. QED BY <2>1, <1>1, <1>4, InSound, QuietSound DEF AdvisoryStates, Hold, Advice
<1>5. CASE phase # "PARTIAL_POSITION" /\ phase # "READY"
  <2>1. BreakoutEntry(c, m, st) = Wait(m, In(t, phase))
    BY <1>5 DEF BreakoutEntry
  <2>2. QED BY <2>1, <1>1, <1>5, EntryPhaseLabel, InSound, QuietSound DEF Wait, Advice
<1>6. CASE phase = "READY" /\ step = 1 /\ ~PeakGateOpen(c, m)
  <2>1. BreakoutEntry(c, m, st) = Wait(m, In(t, "ENTRY_PENDING"))
    BY <1>6 DEF BreakoutEntry
  <2>2. QED BY <2>1, <1>1, InSound, QuietSound DEF AdvisoryStates, Wait, Advice
<1>7. CASE phase = "READY" /\ ~(step = 1 /\ ~PeakGateOpen(c, m))
  <2>1. BreakoutEntry(c, m, st) = Advice("BUY", c.entry[step], m.close, bought)
    BY <1>7 DEF BreakoutEntry
  <2> HIDE DEF bought, step
  <2>2. QED BY <2>1, <1>2, <1>3 DEF Advice, SoundOutcome, Outcomes, Actions, Markets
<1>8. QED BY <1>4, <1>5, <1>6, <1>7

LEMMA DipEntriesSound ==
  ASSUME NEW st \in PersistedStates, Sound(DipAccumulation, st), NEW m \in Markets,
         m.close > 0, NEW c, Percentages(c)
  PROVE  /\ st.entryStep < 3 => SoundOutcome(DipAccumulation, DipFirstEntry(c, m, st))
         /\ DipEntryReady(c, m, st) => SoundOutcome(DipAccumulation, DipEntry(c, m, st))
<1>1. ASSUME st.entryStep < 3
      PROVE  SoundOutcome(DipAccumulation, DipFirstEntry(c, m, st))
  <2> DEFINE first == BreakoutEntry(c, m, st)
  <2>1. /\ SoundOutcome(RecoveryBreakout, first) /\ ~first.ath
        /\ first.action # "BUY" => SoundOutcome(DipAccumulation, first)
    BY <1>1, BreakoutEntrySound
  <2>2. CASE first.action # "BUY"
    BY <2>1, <2>2 DEF DipFirstEntry
  <2>3. CASE first.action = "BUY"
    <3> DEFINE new == [first.next EXCEPT !.firstEntryRef = m.close,
                                         !.lastDipEntryAt = m.day]
    <3>1. DipFirstEntry(c, m, st) = [first EXCEPT !.next = new]
      BY <2>1, <2>3 DEF DipFirstEntry, SoundOutcome, Outcomes
    <3>2. first \in Outcomes /\ first.next \in PersistedStates
          /\ Sound(RecoveryBreakout, first.next)
      BY <2>1 DEF SoundOutcome, Outcomes
    <3>3. new \in PersistedStates /\ Sound(DipAccumulation, new)
      BY <3>2 DEF PersistedStates, Sound, Markets
    <3>4. QED BY <3>1, <3>2, <3>3, <2>1, <2>3 DEF SoundOutcome, Outcomes
  <2>4. QED BY <2>2, <2>3
<1>2. ASSUME DipEntryReady(c, m, st)
      PROVE  SoundOutcome(DipAccumulation, DipEntry(c, m, st))
  <2> DEFINE step  == st.entryStep + 1
             label == IF step = 3 THEN "FULL_POSITION" ELSE "PARTIAL_POSITION"
             new   == [st EXCEPT !.entryStep = step, !.lastDipEntryAt = m.day,
                                 !.state = label]
  <2>1. step \in 2..3 /\ c.entry[step] \in Nat /\ st.firstEntryRef > 0
    BY <1>2, ConfigNumbers DEF DipEntryReady, Stages, PersistedStates
  <2>a. new \in PersistedStates
    <3>1. label \in AdvisoryStates
      BY DEF AdvisoryStates
    <3> HIDE DEF label, step
    <3>2. m.day \in Nat /\ step \in 0..3
      BY <2>1 DEF Markets
    <3>3. QED BY <3>1, <3>2, EntryUpdates
  <2>b. /\ new.correctionHighAt = st.correctionHighAt /\ new.reentryAfter = st.reentryAfter
        /\ new.drawdowns = st.drawdowns /\ new.highestPrice = st.highestPrice
        /\ new.positionOpen = st.positionOpen /\ new.firstEntryRef = st.firstEntryRef
    BY DEF PersistedStates
  <2>2. new \in PersistedStates /\ Sound(DipAccumulation, new)
    BY <2>1, <2>a, <2>b DEF Sound
  <2>3. DipEntry(c, m, st) = Advice("BUY", c.entry[step], m.close, new)
    BY DEF DipEntry
  <2> HIDE DEF new, step
  <2>4. QED BY <2>1, <2>2, <2>3 DEF Advice, SoundOutcome, Outcomes, Actions, Markets
<1>3. QED BY <1>1, <1>2

LEMMA AthEntrySound ==
  ASSUME NEW s, NEW st \in PersistedStates, Sound(s, st), NEW m \in Markets,
         m.close > 0, NEW c, Percentages(c)
  PROVE  SoundOutcome(s, AthEntry(c, m, st))
<1> DEFINE new == [st EXCEPT !.state = "PARTIAL_POSITION", !.entryStep = 1,
                     !.positionOpen = TRUE, !.firstEntryRef = m.close,
                     !.lastDipEntryAt = m.day]
<1>1. c.entry[1] \in Nat
  BY ConfigNumbers DEF Stages
<1>a. new \in PersistedStates
  <2>1. m.close \in Nat /\ m.day \in Nat /\ "PARTIAL_POSITION" \in AdvisoryStates
    BY DEF Markets, AdvisoryStates
  <2>2. 1 \in 0..3
    OBVIOUS
  <2>3. QED BY <2>1, <2>2, EntryUpdates
<1>b. /\ new.correctionHighAt = st.correctionHighAt /\ new.reentryAfter = st.reentryAfter
      /\ new.drawdowns = st.drawdowns /\ new.highestPrice = st.highestPrice
      /\ new.positionOpen /\ new.firstEntryRef = m.close
  BY DEF PersistedStates
<1>2. new \in PersistedStates /\ Sound(s, new)
  BY <1>a, <1>b DEF Sound, Markets
<1>3. AthEntry(c, m, st) = [Advice("BUY", c.entry[1], m.close, new) EXCEPT !.ath = TRUE]
  BY DEF AthEntry
<1> HIDE DEF new
<1> DEFINE d == AthEntry(c, m, st)
<1>4. d = [action |-> "BUY", pct |-> c.entry[1], price |-> m.close, level |-> 0,
           floor |-> 0, ath |-> TRUE, next |-> new]
  BY <1>3 DEF Advice
<1> HIDE DEF d
<1>5. m.close \in Nat /\ "BUY" \in Actions
  BY DEF Markets, Actions
<1>6. QED BY <1>1, <1>2, <1>4, <1>5 DEF SoundOutcome, Outcomes, d

-----------------------------------------------------------------------------
(***************************************************************************)
(* The rulesets.                                                           *)
(***************************************************************************)
LEMMA HoldingLabels ==
  ASSUME NEW st
  PROVE  DipHoldingState(st) \in AdvisoryStates
  BY DEF DipHoldingState, AdvisoryStates

LEMMA RecoveryBreakoutSound ==
  ASSUME NEW st \in PersistedStates, Sound(RecoveryBreakout, st),
         NEW m \in Markets, m.close > 0, NEW pos \in Positions,
         NEW c, Percentages(c), NEW price \in Nat
  PROVE  SoundOutcome(RecoveryBreakout, EvaluateRecoveryBreakout(c, m, pos, st, price))
<1> DEFINE s     == IF pos.held THEN Observed(m, st) ELSE st
           alert == IF c.intraday /\ price > 0 THEN DrawdownAction(c, price, s) ELSE 0
           level == DrawdownAction(c, m.close, s)
           d     == EvaluateRecoveryBreakout(c, m, pos, st, price)
<1>1. /\ s \in PersistedStates /\ Sound(RecoveryBreakout, s)
      /\ pos.held => s.positionOpen /\ s.highestPrice > 0
  BY ObservedSound
<1>2. alert \in 0..3 /\ level \in 0..3 /\ m.close \in Nat /\ m.day \in Nat
  BY DrawdownLevel DEF Markets
<1>3. CASE m.day = 0
  BY <1>3, QuietSound DEF EvaluateRecoveryBreakout
<1>4. CASE m.day # 0 /\ st.positionOpen /\ ~pos.held
  BY <1>2, <1>4, FreshSound, QuietSound DEF EvaluateRecoveryBreakout
<1> DEFINE live == m.day # 0 /\ ~(st.positionOpen /\ ~pos.held)
<1>5. CASE live /\ pos.held /\ alert # 0
  <2>1. d = SellDrawdown(c, alert, price, 0, In(s, "EXITING"))
    BY <1>5 DEF EvaluateRecoveryBreakout
  <2> HIDE DEF s, alert, d
  <2>2. "EXITING" \in AdvisoryStates /\ alert \in Levels /\ 0 \in Nat
    BY <1>2, <1>5 DEF AdvisoryStates, Levels
  <2>3. In(s, "EXITING") \in PersistedStates /\ Sound(RecoveryBreakout, In(s, "EXITING"))
    BY <1>1, <2>2, InSound
  <2>4. SoundOutcome(RecoveryBreakout, d)
    BY <2>1, <2>2, <2>3, SaleSound
  <2>5. QED BY <2>4 DEF d
<1>6. CASE live /\ pos.held /\ alert = 0 /\ level # 0
  <2> DEFINE marked == MarkDrawdownTriggered(s, level)
  <2>1. d = SellDrawdown(c, level, m.close, 0, In(marked, "EXITING"))
    BY <1>6 DEF EvaluateRecoveryBreakout
  <2> HIDE DEF s, level, d
  <2>2. marked \in PersistedStates /\ Sound(RecoveryBreakout, marked)
    BY <1>1, <1>2, <1>6, MarkSound
  <2>3. "EXITING" \in AdvisoryStates /\ level \in Levels /\ 0 \in Nat
    BY <1>2, <1>6 DEF AdvisoryStates, Levels
  <2> HIDE DEF marked
  <2>4. /\ In(marked, "EXITING") \in PersistedStates
        /\ Sound(RecoveryBreakout, In(marked, "EXITING"))
    BY <2>2, <2>3, InSound
  <2>5. SoundOutcome(RecoveryBreakout, d)
    BY <1>2, <2>1, <2>3, <2>4, SaleSound
  <2>6. QED BY <2>5 DEF d
<1> DEFINE quiet == live /\ (pos.held => alert = 0 /\ level = 0)
<1>7. CASE quiet /\ pos.held /\ ProfitReached(c, m, pos, s)
  <2>1. d = TakeProfit(c, m, s)
    BY <1>7 DEF EvaluateRecoveryBreakout
  <2> HIDE DEF s, d
  <2>2. 1 \in Levels /\ 0 \in Nat
    BY DEF Levels
  <2>3. SoundOutcome(RecoveryBreakout, d)
    BY <1>1, <2>1, <2>2, SaleSound
  <2>4. QED BY <2>3 DEF d
<1>8. CASE quiet /\ pos.held /\ ~ProfitReached(c, m, pos, s) /\ s.profitTaken
  <2>1. d = Hold(m, In(s, DipHoldingState(s)))
    BY <1>8 DEF EvaluateRecoveryBreakout
  <2> HIDE DEF s, d
  <2>2. SoundOutcome(RecoveryBreakout, d)
    BY <1>1, <2>1, HoldingLabels, InSound, QuietSound
  <2>3. QED BY <2>2 DEF d
<1> DEFINE open == quiet /\ (pos.held => ~ProfitReached(c, m, pos, s) /\ ~s.profitTaken)
<1>9. CASE open /\ pos.held /\ s.entryStep = 0
  <2>1. d = Hold(m, In(s, "PARTIAL_POSITION"))
    BY <1>9 DEF EvaluateRecoveryBreakout
  <2> HIDE DEF s, d
  <2>2. "PARTIAL_POSITION" \in AdvisoryStates
    BY DEF AdvisoryStates
  <2>3. SoundOutcome(RecoveryBreakout, d)
    BY <1>1, <2>1, <2>2, InSound, QuietSound
  <2>4. QED BY <2>3 DEF d
<1>10. CASE open /\ ~(pos.held /\ s.entryStep = 0) /\ s.entryStep >= 3
  <2>1. d = Hold(m, s) \/ d = Hold(m, In(s, "FULL_POSITION"))
    BY <1>10 DEF EvaluateRecoveryBreakout
  <2> HIDE DEF s, d
  <2>2. "FULL_POSITION" \in AdvisoryStates
    BY DEF AdvisoryStates
  <2>3. SoundOutcome(RecoveryBreakout, d)
    BY <1>1, <2>1, <2>2, InSound, QuietSound
  <2>4. QED BY <2>3 DEF d
<1>11. CASE open /\ ~(pos.held /\ s.entryStep = 0) /\ ~(s.entryStep >= 3)
  <2>1. d = BreakoutEntry(c, m, s)
    BY <1>11 DEF EvaluateRecoveryBreakout
  <2> HIDE DEF s, d
  <2>2. s.entryStep < 3
    BY <1>1, <1>11 DEF PersistedStates
  <2>3. SoundOutcome(RecoveryBreakout, d)
    BY <1>1, <2>1, <2>2, BreakoutEntrySound
  <2>4. QED BY <2>3 DEF d
<1>12. QED BY <1>3, <1>4, <1>5, <1>6, <1>7, <1>8, <1>9, <1>10, <1>11

LEMMA ExitsSound ==
  ASSUME NEW s \in PersistedStates, Sound(DipAccumulation, s), s.highestPrice > 0,
         NEW m \in Markets, NEW pos \in Positions, NEW c, Percentages(c),
         NEW price \in Nat, NEW level \in 0..3
  PROVE  /\ SoundOutcome(DipAccumulation, ProtectedExit(c, m, pos, s, level))
         /\ level # 0 => SoundOutcome(DipAccumulation, IntradayExit(c, m, pos, s, price, level))
<1>1. BreakEvenFloor(c, pos) \in Nat /\ m.close \in Nat
  BY DEF BreakEvenFloor, Positions, Markets
<1>2. {"EXITING", "PROFIT_PROTECTION"} \subseteq AdvisoryStates
  BY DEF AdvisoryStates
<1>3. /\ SoundOutcome(DipAccumulation, Hold(m, In(s, DipHoldingState(s))))
      /\ SoundOutcome(DipAccumulation, Hold(m, In(s, "PROFIT_PROTECTION")))
  BY <1>2, HoldingLabels, InSound, QuietSound
<1> DEFINE marked == MarkDrawdownTriggered(s, level)
<1>4. /\ In(marked, "EXITING") \in PersistedStates
      /\ Sound(DipAccumulation, In(marked, "EXITING"))
  <2>1. marked \in PersistedStates /\ Sound(DipAccumulation, marked)
    BY MarkSound
  <2> HIDE DEF marked
  <2>2. QED BY <2>1, <1>2, InSound
<1>5. ASSUME level # 0
      PROVE  SoundOutcome(DipAccumulation, SellDrawdown(c, level, m.close,
               BreakEvenFloor(c, pos), In(marked, "EXITING")))
  <2> HIDE DEF marked
  <2>1. level \in Levels
    BY <1>5 DEF Levels
  <2>2. QED BY <2>1, <1>1, <1>4, SaleSound
<1>6. ASSUME level # 0
      PROVE  SoundOutcome(DipAccumulation, SellDrawdown(c, level, price,
               BreakEvenFloor(c, pos), In(s, "PROFIT_PROTECTION")))
  <2>1. level \in Levels
    BY <1>6 DEF Levels
  <2>2. /\ In(s, "PROFIT_PROTECTION") \in PersistedStates
        /\ Sound(DipAccumulation, In(s, "PROFIT_PROTECTION"))
    BY <1>2, InSound
  <2>3. QED BY <2>1, <2>2, <1>1, SaleSound
<1>7. QED BY <1>3, <1>5, <1>6 DEF ProtectedExit, IntradayExit

LEMMA DipAccumulationSound ==
  ASSUME NEW st \in PersistedStates, Sound(DipAccumulation, st),
         NEW m \in Markets, m.close > 0, NEW pos \in Positions,
         NEW c, Percentages(c), NEW price \in Nat
  PROVE  SoundOutcome(DipAccumulation, EvaluateDipAccumulation(c, m, pos, st, price))
<1> DEFINE s     == IF pos.held THEN Observed(m, st) ELSE st
           alert == IF c.intraday /\ price > 0 THEN DrawdownAction(c, price, s) ELSE 0
           level == DrawdownAction(c, m.close, s)
           d     == EvaluateDipAccumulation(c, m, pos, st, price)
<1>1. /\ s \in PersistedStates /\ Sound(DipAccumulation, s)
      /\ pos.held => s.positionOpen /\ s.highestPrice > 0
  BY ObservedSound
<1>2. alert \in 0..3 /\ level \in 0..3 /\ m.close \in Nat /\ m.day \in Nat
  BY DrawdownLevel DEF Markets
<1>3. CASE m.day = 0
  BY <1>3, QuietSound DEF EvaluateDipAccumulation
<1>4. CASE m.day # 0 /\ st.positionOpen /\ ~pos.held
  BY <1>2, <1>4, FreshSound, QuietSound DEF EvaluateDipAccumulation
<1> DEFINE live == m.day # 0 /\ ~(st.positionOpen /\ ~pos.held)
<1>5. CASE live /\ pos.held /\ ProfitReached(c, m, pos, s)
  <2>1. d = TakeProfit(c, m, s)
    BY <1>5 DEF EvaluateDipAccumulation
  <2> HIDE DEF s, d
  <2>2. 1 \in Levels /\ 0 \in Nat
    BY DEF Levels
  <2>3. SoundOutcome(DipAccumulation, d)
    BY <1>1, <2>1, <2>2, SaleSound
  <2>4. QED BY <2>3 DEF d
<1> DEFINE open == live /\ (pos.held => ~ProfitReached(c, m, pos, s))
<1>6. CASE open /\ pos.held /\ s.profitTaken /\ alert # 0
  <2>1. d = IntradayExit(c, m, pos, s, price, alert)
    BY <1>6 DEF EvaluateDipAccumulation
  <2> HIDE DEF s, alert, d
  <2>2. SoundOutcome(DipAccumulation, d)
    BY <1>1, <1>2, <1>6, <2>1, ExitsSound
  <2>3. QED BY <2>2 DEF d
<1> DEFINE quiet == open /\ (pos.held /\ s.profitTaken => alert = 0)
<1>7. CASE quiet /\ pos.held /\ DipEntryReady(c, m, s)
  <2>1. d = DipEntry(c, m, s)
    BY <1>7 DEF EvaluateDipAccumulation
  <2> HIDE DEF s, d
  <2>2. SoundOutcome(DipAccumulation, d)
    BY <1>1, <1>7, <2>1, DipEntriesSound
  <2>3. QED BY <2>2 DEF d
<1>8. CASE quiet /\ pos.held /\ ~DipEntryReady(c, m, s) /\ s.profitTaken
  <2>1. d = ProtectedExit(c, m, pos, s, level)
    BY <1>8 DEF EvaluateDipAccumulation
  <2> HIDE DEF s, level, d
  <2>2. SoundOutcome(DipAccumulation, d)
    BY <1>1, <1>2, <1>8, <2>1, ExitsSound
  <2>3. QED BY <2>2 DEF d
<1> DEFINE rest == quiet /\ (pos.held => ~DipEntryReady(c, m, s) /\ ~s.profitTaken)
<1>9. CASE rest /\ pos.held
  <2>1. \/ d = Hold(m, In(s, "PARTIAL_POSITION"))
        \/ d = Hold(m, s) \/ d = Hold(m, In(s, "FULL_POSITION"))
    BY <1>9 DEF EvaluateDipAccumulation
  <2> HIDE DEF s, d
  <2>2. {"PARTIAL_POSITION", "FULL_POSITION"} \subseteq AdvisoryStates
    BY DEF AdvisoryStates
  <2>3. SoundOutcome(DipAccumulation, d)
    BY <1>1, <2>1, <2>2, InSound, QuietSound
  <2>4. QED BY <2>3 DEF d
<1>10. CASE rest /\ ~pos.held /\ s.entryStep > 0
  <2>1. \/ d = Wait(m, In(s, "PARTIAL_POSITION"))
        \/ d = Hold(m, s) \/ d = Hold(m, In(s, "FULL_POSITION"))
    BY <1>10 DEF EvaluateDipAccumulation
  <2> HIDE DEF s, d
  <2>2. {"PARTIAL_POSITION", "FULL_POSITION"} \subseteq AdvisoryStates
    BY DEF AdvisoryStates
  <2>3. SoundOutcome(DipAccumulation, d)
    BY <1>1, <2>1, <2>2, InSound, QuietSound
  <2>4. QED BY <2>3 DEF d
<1>11. CASE rest /\ ~pos.held /\ ~(s.entryStep > 0)
  <2>1. s.entryStep < 3 /\ ~(s.entryStep >= 3)
    BY <1>1, <1>11 DEF PersistedStates
  <2>2. d = DipFirstEntry(c, m, s)
    BY <1>11, <2>1 DEF EvaluateDipAccumulation
  <2> HIDE DEF s, d
  <2>3. SoundOutcome(DipAccumulation, d)
    BY <1>1, <2>1, <2>2, DipEntriesSound
  <2>4. QED BY <2>3 DEF d
<1>12. QED BY <1>3, <1>4, <1>5, <1>6, <1>7, <1>8, <1>9, <1>10, <1>11

\* One evaluation, whatever the strategy, keeps the persisted state sound.
LEMMA EvaluationSound ==
  ASSUME NEW s \in Strategies, NEW st \in PersistedStates, Sound(s, st),
         NEW m \in Markets, m.close > 0, NEW pos \in Positions,
         NEW c, Percentages(c), NEW rule, NEW price \in Nat
  PROVE  SoundOutcome(s, EvaluateWithIntradayPrice(s, c, rule, m, pos, st, price))
<1>1. CASE AthEntryApplies(rule, m, pos, st)
  BY <1>1, AthEntrySound DEF EvaluateWithIntradayPrice
<1>2. CASE ~AthEntryApplies(rule, m, pos, st) /\ s = RecoveryBreakout
  BY <1>2, RecoveryBreakoutSound DEF EvaluateWithIntradayPrice
<1>3. CASE ~AthEntryApplies(rule, m, pos, st) /\ s = DipAccumulation
  BY <1>3, DipAccumulationSound
     DEF EvaluateWithIntradayPrice, RecoveryBreakout, DipAccumulation
<1>4. QED BY <1>1, <1>2, <1>3 DEF Strategies

-----------------------------------------------------------------------------
(***************************************************************************)
(* The campaign in an evaluation at a close, where no quote is read.       *)
(***************************************************************************)
\* What the evaluation of an open position keeps of the campaign: it stays
\* open, no level sold becomes available and none is advised again.
KeepsCampaign(s, d) ==
  /\ d.next.positionOpen /\ d.next.highestPrice = s.highestPrice /\ ~d.ath
  /\ s.drawdowns \subseteq d.next.drawdowns
  /\ d.action = "SELL_DRAWDOWN" => d.level \in d.next.drawdowns \ s.drawdowns

\* Dip Accumulation also keeps the reference of its first entry, and protects
\* every drawdown sale by the floor of the position.
KeepsReference(c, pos, s, d) ==
  /\ d.next.firstEntryRef = s.firstEntryRef
  /\ d.action = "BUY" => d.next.entryStep # 1
  /\ d.action = "SELL_DRAWDOWN" => d.floor = BreakEvenFloor(c, pos)

\* Without a position a campaign is open only for an entry of the override,
\* there is nothing to sell, and a first entry is the first.
BeginsCampaign(s, d) ==
  /\ d.next.positionOpen <=> d.ath
  /\ d.action \notin Sells
  /\ s = DipAccumulation /\ d.action = "BUY" => d.next.entryStep = 1

LEMMA ObservedKeeps ==
  ASSUME NEW st \in PersistedStates, NEW m \in Markets, m.close > 0
  PROVE  LET s == Observed(m, st) IN
         /\ s \in PersistedStates /\ s.positionOpen /\ s.highestPrice > 0
         /\ s.drawdowns = st.drawdowns /\ s.firstEntryRef = st.firstEntryRef
         /\ s.entryStep = st.entryStep
<1> DEFINE s == Observed(m, st)
<1>1. s.highestPrice \in Nat /\ s.highestPrice > 0
  BY DEF Observed, PersistedStates, Markets
<1>2. s \in PersistedStates /\ s.positionOpen
  BY DEF Observed, PersistedStates, Markets
<1>3. /\ s.drawdowns = st.drawdowns /\ s.firstEntryRef = st.firstEntryRef
      /\ s.entryStep = st.entryStep
  BY DEF Observed, PersistedStates
<1>4. QED BY <1>1, <1>2, <1>3

\* A level that is advised is not consumed yet.
LEMMA NewLevel ==
  ASSUME NEW c, NEW price, NEW st, DrawdownAction(c, price, st) # 0
  PROVE  DrawdownAction(c, price, st) \in Levels \ st.drawdowns
<1>1. Crossed(c, st.highestPrice, price) \ st.drawdowns \in SUBSET Levels
  BY DEF Crossed
<1>2. QED BY <1>1, DeepestLevel DEF DrawdownAction

\* Advice without a sale leaves the campaign as it is.
LEMMA QuietKeeps ==
  ASSUME NEW s \in PersistedStates, s.positionOpen, NEW m, NEW label, NEW c, NEW pos
  PROVE  /\ KeepsCampaign(s, Hold(m, s)) /\ KeepsCampaign(s, Hold(m, In(s, label)))
         /\ KeepsReference(c, pos, s, Hold(m, s))
         /\ KeepsReference(c, pos, s, Hold(m, In(s, label)))
<1>1. /\ In(s, label).positionOpen /\ In(s, label).highestPrice = s.highestPrice
      /\ In(s, label).drawdowns = s.drawdowns
      /\ In(s, label).firstEntryRef = s.firstEntryRef
  BY DEF In, PersistedStates
<1>2. QED BY <1>1 DEF Hold, Advice, KeepsCampaign, KeepsReference

\* A profit sale keeps the campaign open and all its levels.
LEMMA ProfitKeeps ==
  ASSUME NEW s \in PersistedStates, s.positionOpen, NEW c, NEW m, NEW pos
  PROVE  /\ KeepsCampaign(s, TakeProfit(c, m, s))
         /\ KeepsReference(c, pos, s, TakeProfit(c, m, s))
<1> DEFINE taken == [s EXCEPT !.profitTaken = TRUE, !.state = "PROFIT_PROTECTION"]
<1>1. /\ taken.positionOpen /\ taken.highestPrice = s.highestPrice
      /\ taken.drawdowns = s.drawdowns /\ taken.firstEntryRef = s.firstEntryRef
  BY DEF PersistedStates
<1>2. QED BY <1>1 DEF TakeProfit, Advice, KeepsCampaign, KeepsReference

\* A drawdown sale keeps the campaign open and consumes the level it reports.
LEMMA DrawdownKeeps ==
  ASSUME NEW s \in PersistedStates, s.positionOpen, NEW c, NEW pos,
         NEW level \in Levels \ s.drawdowns, NEW floor, NEW price
  PROVE  LET sale == SellDrawdown(c, level, price, floor,
                       In(MarkDrawdownTriggered(s, level), "EXITING")) IN
         /\ KeepsCampaign(s, sale)
         /\ floor = BreakEvenFloor(c, pos) => KeepsReference(c, pos, s, sale)
<1> DEFINE after == In(MarkDrawdownTriggered(s, level), "EXITING")
           sale  == SellDrawdown(c, level, price, floor, after)
<1>1. /\ after.positionOpen /\ after.highestPrice = s.highestPrice
      /\ after.drawdowns = s.drawdowns \union 1..level
      /\ after.firstEntryRef = s.firstEntryRef
  BY DEF In, MarkDrawdownTriggered, PersistedStates
<1> HIDE DEF after
<1>2. /\ sale.next = after /\ ~sale.ath /\ sale.level = level /\ sale.floor = floor
      /\ sale.action = "SELL_DRAWDOWN"
  BY DEF SellDrawdown, Advice
<1>3. level \in 1..level
  BY DEF Levels
<1> HIDE DEF sale
<1>4. /\ KeepsCampaign(s, sale)
      /\ floor = BreakEvenFloor(c, pos) => KeepsReference(c, pos, s, sale)
  BY <1>1, <1>2, <1>3 DEF KeepsCampaign, KeepsReference
<1>5. QED BY <1>4 DEF sale, after

\* An entry on a breakout changes neither the position nor what was sold.
LEMMA BreakoutEntryKeeps ==
  ASSUME NEW st \in PersistedStates, NEW m, NEW c
  PROVE  LET d == BreakoutEntry(c, m, st) IN
         /\ d.next.positionOpen = st.positionOpen
         /\ d.next.highestPrice = st.highestPrice /\ d.next.drawdowns = st.drawdowns
         /\ d.action \in {"HOLD", "WAIT", "BUY"} /\ ~d.ath
         /\ d.action = "BUY" => d.next.entryStep = st.entryStep + 1
<1> DEFINE anchor == CorrectionAnchor(m, st)
           phase  == EntryPhase(m, st)
           t      == [st EXCEPT !.correctionHighAt = anchor]
           step   == st.entryStep + 1
           label  == IF step = 3 THEN "FULL_POSITION" ELSE "PARTIAL_POSITION"
           bought == [t EXCEPT !.entryStep = step, !.lastBreakout = m.recovery,
                               !.state = label]
           d      == BreakoutEntry(c, m, st)
<1>1. \A l : /\ In(t, l).positionOpen = st.positionOpen
             /\ In(t, l).highestPrice = st.highestPrice
             /\ In(t, l).drawdowns = st.drawdowns
  BY DEF In, PersistedStates
<1>2. /\ bought.positionOpen = st.positionOpen /\ bought.highestPrice = st.highestPrice
      /\ bought.drawdowns = st.drawdowns /\ bought.entryStep = step
  BY DEF PersistedStates
<1>3. \/ \E l : d = Hold(m, In(t, l)) \/ d = Wait(m, In(t, l))
      \/ d = Advice("BUY", c.entry[step], m.close, bought)
  BY DEF BreakoutEntry
<1> HIDE DEF bought, d, t
<1>4. QED BY <1>1, <1>2, <1>3 DEF Hold, Wait, Advice, d

\* Recovery Breakout at a close.
LEMMA RecoveryBreakoutCampaign ==
  ASSUME NEW st \in PersistedStates, NEW m \in Markets, m.close > 0, m.day > 0,
         NEW pos \in Positions, NEW c
  PROVE  LET d == EvaluateRecoveryBreakout(c, m, pos, st, 0) IN
         /\ pos.held => KeepsCampaign(Observed(m, st), d)
         /\ ~pos.held => BeginsCampaign(RecoveryBreakout, d)
<1> DEFINE s     == Observed(m, st)
           level == DrawdownAction(c, m.close, s)
           d     == EvaluateRecoveryBreakout(c, m, pos, st, 0)
<1>1. s \in PersistedStates /\ s.positionOpen
  BY ObservedKeeps
<1>2. ASSUME pos.held PROVE KeepsCampaign(s, d)
  <2>1. CASE level # 0
    <3>1. d = SellDrawdown(c, level, m.close, 0,
                           In(MarkDrawdownTriggered(s, level), "EXITING"))
      BY <1>2, <2>1 DEF EvaluateRecoveryBreakout
    <3>2. level \in Levels \ s.drawdowns
      BY <2>1, NewLevel
    <3> HIDE DEF s, level, d
    <3>3. QED BY <1>1, <3>1, <3>2, DrawdownKeeps
  <2>2. CASE level = 0
    <3>1. \/ d = TakeProfit(c, m, s)
          \/ d = Hold(m, s) \/ \E l : d = Hold(m, In(s, l))
          \/ d = BreakoutEntry(c, m, s)
      BY <1>2, <2>2 DEF EvaluateRecoveryBreakout
    <3> HIDE DEF s, level, d
    <3>2. CASE d = TakeProfit(c, m, s)
      BY <1>1, <3>2, ProfitKeeps
    <3>3. CASE d = Hold(m, s) \/ \E l : d = Hold(m, In(s, l))
      BY <1>1, <3>3, QuietKeeps
    <3>4. CASE d = BreakoutEntry(c, m, s)
      BY <1>1, <3>4, BreakoutEntryKeeps DEF KeepsCampaign
    <3>5. QED BY <3>1, <3>2, <3>3, <3>4
  <2>3. QED BY <2>1, <2>2
<1>3. ASSUME ~pos.held PROVE BeginsCampaign(RecoveryBreakout, d)
  <2>1. CASE st.positionOpen
    <3>1. d = Wait(m, ResetForReentry(m.day))
      BY <1>3, <2>1 DEF EvaluateRecoveryBreakout, Markets
    <3>2. ~ResetForReentry(m.day).positionOpen
      BY DEF ResetForReentry, FreshState
    <3>3. QED
      BY <3>1, <3>2 DEF Wait, Advice, BeginsCampaign, Sells, RecoveryBreakout, DipAccumulation
  <2>2. CASE ~st.positionOpen
    <3>1. \/ d = Hold(m, st) \/ d = Hold(m, In(st, "FULL_POSITION"))
          \/ d = BreakoutEntry(c, m, st)
      BY <1>3, <2>2 DEF EvaluateRecoveryBreakout, Markets
    <3>2. ~In(st, "FULL_POSITION").positionOpen
      BY <2>2 DEF In, PersistedStates
    <3> HIDE DEF d
    <3>3. CASE d = BreakoutEntry(c, m, st)
      BY <2>2, <3>3, BreakoutEntryKeeps
         DEF BeginsCampaign, Sells, RecoveryBreakout, DipAccumulation
    <3>4. CASE d = Hold(m, st) \/ d = Hold(m, In(st, "FULL_POSITION"))
      BY <2>2, <3>2, <3>4
         DEF Hold, Advice, BeginsCampaign, Sells, RecoveryBreakout, DipAccumulation
    <3>5. QED BY <3>1, <3>3, <3>4
  <2>3. QED BY <2>1, <2>2
<1>4. QED BY <1>2, <1>3

\* Dip Accumulation at a close.
LEMMA DipAccumulationCampaign ==
  ASSUME NEW st \in PersistedStates, Sound(DipAccumulation, st),
         NEW m \in Markets, m.close > 0, m.day > 0,
         NEW pos \in Positions, NEW c, Percentages(c)
  PROVE  LET d == EvaluateDipAccumulation(c, m, pos, st, 0) IN
         /\ pos.held => /\ KeepsCampaign(Observed(m, st), d)
                        /\ KeepsReference(c, pos, Observed(m, st), d)
         /\ ~pos.held => BeginsCampaign(DipAccumulation, d)
<1> DEFINE s     == Observed(m, st)
           level == DrawdownAction(c, m.close, s)
           d     == EvaluateDipAccumulation(c, m, pos, st, 0)
<1>1. s \in PersistedStates /\ s.positionOpen
  BY ObservedKeeps
<1>2. ASSUME pos.held PROVE KeepsCampaign(s, d) /\ KeepsReference(c, pos, s, d)
  <2>1. \/ d = TakeProfit(c, m, s)
        \/ DipEntryReady(c, m, s) /\ d = DipEntry(c, m, s)
        \/ d = ProtectedExit(c, m, pos, s, level)
        \/ d = Hold(m, s) \/ \E l : d = Hold(m, In(s, l))
    BY <1>2 DEF EvaluateDipAccumulation, Markets
  <2> HIDE DEF s, d
  <2>2. CASE d = TakeProfit(c, m, s)
    BY <1>1, <2>2, ProfitKeeps
  <2>3. CASE DipEntryReady(c, m, s) /\ d = DipEntry(c, m, s)
    <3> DEFINE step  == s.entryStep + 1
               label == IF step = 3 THEN "FULL_POSITION" ELSE "PARTIAL_POSITION"
               new   == [s EXCEPT !.entryStep = step, !.lastDipEntryAt = m.day,
                                  !.state = label]
    <3>1. step # 1
      BY <2>3 DEF DipEntryReady
    <3>2. /\ new.positionOpen /\ new.highestPrice = s.highestPrice
          /\ new.drawdowns = s.drawdowns /\ new.firstEntryRef = s.firstEntryRef
          /\ new.entryStep = step
      BY <1>1 DEF PersistedStates
    <3>3. d = Advice("BUY", c.entry[step], m.close, new)
      BY <2>3 DEF DipEntry
    <3> HIDE DEF new, step
    <3>4. QED BY <3>1, <3>2, <3>3 DEF Advice, KeepsCampaign, KeepsReference
  <2>4. CASE d = ProtectedExit(c, m, pos, s, level)
    <3>1. \/ \E l : d = Hold(m, In(s, l))
          \/ /\ level # 0
             /\ d = SellDrawdown(c, level, m.close, BreakEvenFloor(c, pos),
                                In(MarkDrawdownTriggered(s, level), "EXITING"))
      BY <2>4 DEF ProtectedExit
    <3>2. level # 0 => level \in Levels \ s.drawdowns
      BY NewLevel
    <3> HIDE DEF level
    <3>3. QED BY <1>1, <3>1, <3>2, QuietKeeps, DrawdownKeeps
  <2>5. CASE d = Hold(m, s) \/ \E l : d = Hold(m, In(s, l))
    BY <1>1, <2>5, QuietKeeps
  <2>6. QED BY <2>1, <2>2, <2>3, <2>4, <2>5
<1>3. ASSUME ~pos.held PROVE BeginsCampaign(DipAccumulation, d)
  <2>1. CASE st.positionOpen
    <3>1. d = Wait(m, ResetForReentry(m.day))
      BY <1>3, <2>1 DEF EvaluateDipAccumulation, Markets
    <3>2. ~ResetForReentry(m.day).positionOpen
      BY DEF ResetForReentry, FreshState
    <3>3. QED BY <3>1, <3>2 DEF Wait, Advice, BeginsCampaign, Sells
  <2>2. CASE ~st.positionOpen
    <3>1. \/ d = Hold(m, st) \/ \E l : d = Hold(m, In(st, l)) \/ d = Wait(m, In(st, l))
          \/ ~(st.entryStep > 0) /\ d = DipFirstEntry(c, m, st)
      BY <1>3, <2>2 DEF EvaluateDipAccumulation, Markets
    <3>2. \A l : ~In(st, l).positionOpen
      BY <2>2 DEF In, PersistedStates
    <3> HIDE DEF d
    <3>3. CASE ~(st.entryStep > 0) /\ d = DipFirstEntry(c, m, st)
      <4> DEFINE first == BreakoutEntry(c, m, st)
      <4>1. /\ ~first.next.positionOpen /\ ~first.ath
            /\ first.action \in {"HOLD", "WAIT", "BUY"}
            /\ first.action = "BUY" => first.next.entryStep = 1
        BY <2>2, <3>3, BreakoutEntryKeeps DEF PersistedStates
      <4>2. \/ d = first
            \/ d = [first EXCEPT !.next.firstEntryRef = m.close,
                                 !.next.lastDipEntryAt = m.day]
        BY <3>3 DEF DipFirstEntry
      <4>3. CASE d = first
        BY <4>1, <4>3 DEF BeginsCampaign, Sells
      <4>4. CASE d = [first EXCEPT !.next.firstEntryRef = m.close,
                                   !.next.lastDipEntryAt = m.day]
        <5>1. first \in Outcomes /\ first.next \in PersistedStates
          BY <3>3, BreakoutEntrySound DEF SoundOutcome, Outcomes, PersistedStates
        <5>2. QED BY <4>1, <4>4, <5>1 DEF BeginsCampaign, Sells, Outcomes, PersistedStates
      <4>5. QED BY <4>2, <4>3, <4>4
    <3>4. CASE d = Hold(m, st) \/ \E l : d = Hold(m, In(st, l)) \/ d = Wait(m, In(st, l))
      BY <2>2, <3>2, <3>4 DEF Hold, Wait, Advice, BeginsCampaign, Sells
    <3>5. QED BY <3>1, <3>3, <3>4
  <2>3. QED BY <2>1, <2>2
<1>4. QED BY <1>2, <1>3

\* One evaluation at a close: an open position keeps its campaign, and without
\* one only an entry of the override opens a campaign.
LEMMA EvaluationCampaign ==
  ASSUME NEW s \in Strategies, NEW st \in PersistedStates, Sound(s, st),
         NEW m \in Markets, m.close > 0, m.day > 0, NEW pos \in Positions,
         NEW c, Percentages(c), NEW rule
  PROVE  LET d == EvaluateWithIntradayPrice(s, c, rule, m, pos, st, 0) IN
         /\ pos.held => /\ KeepsCampaign(Observed(m, st), d)
                        /\ s = DipAccumulation => KeepsReference(c, pos, Observed(m, st), d)
         /\ ~pos.held => BeginsCampaign(s, d)
<1>1. CASE AthEntryApplies(rule, m, pos, st)
  <2> DEFINE new == [st EXCEPT !.state = "PARTIAL_POSITION", !.entryStep = 1,
                       !.positionOpen = TRUE, !.firstEntryRef = m.close,
                       !.lastDipEntryAt = m.day]
             d   == AthEntry(c, m, st)
  <2>1. new.positionOpen /\ new.entryStep = 1
    BY DEF PersistedStates
  <2>2. d.ath /\ d.next = new /\ d.action = "BUY"
    BY DEF AthEntry, Advice
  <2>3. ~pos.held /\ EvaluateWithIntradayPrice(s, c, rule, m, pos, st, 0) = d
    BY <1>1 DEF AthEntryApplies, EvaluateWithIntradayPrice
  <2> HIDE DEF new, d
  <2>4. QED BY <2>1, <2>2, <2>3 DEF BeginsCampaign, Sells
<1>2. CASE ~AthEntryApplies(rule, m, pos, st) /\ s = RecoveryBreakout
  BY <1>2, RecoveryBreakoutCampaign
     DEF EvaluateWithIntradayPrice, RecoveryBreakout, DipAccumulation
<1>3. CASE ~AthEntryApplies(rule, m, pos, st) /\ s = DipAccumulation
  BY <1>3, DipAccumulationCampaign
     DEF EvaluateWithIntradayPrice, RecoveryBreakout, DipAccumulation
<1>4. QED BY <1>1, <1>2, <1>3 DEF Strategies

-----------------------------------------------------------------------------
(***************************************************************************)
(* What may be advised with and without a position.                        *)
(***************************************************************************)
FitsPosition(s, pos, d) ==
  /\ d.action \in Sells => pos.held
  /\ d.ath => ~pos.held
  /\ s = DipAccumulation /\ d.action = "BUY" /\ d.next.entryStep > 1 => pos.held

\* Advice that neither sells nor buys, and a sale of a position, always fit.
LEMMA PlainFits ==
  ASSUME NEW s, NEW pos, NEW m, NEW st, NEW c
  PROVE  /\ FitsPosition(s, pos, Hold(m, st)) /\ FitsPosition(s, pos, Wait(m, st))
         /\ pos.held => FitsPosition(s, pos, TakeProfit(c, m, st))
         /\ pos.held => \A level, price, floor :
              FitsPosition(s, pos, SellDrawdown(c, level, price, floor, st))
<1>1. /\ FitsPosition(s, pos, Hold(m, st)) /\ FitsPosition(s, pos, Wait(m, st))
  BY DEF Hold, Wait, Advice, FitsPosition, Sells
<1>2. pos.held => FitsPosition(s, pos, TakeProfit(c, m, st))
  BY DEF TakeProfit, Advice, FitsPosition
<1>3. ASSUME pos.held, NEW level, NEW price, NEW floor
      PROVE  FitsPosition(s, pos, SellDrawdown(c, level, price, floor, st))
  <2>1. /\ SellDrawdown(c, level, price, floor, st).action = "SELL_DRAWDOWN"
        /\ SellDrawdown(c, level, price, floor, st).ath = FALSE
    BY DEF SellDrawdown, Advice
  <2>2. QED BY <1>3, <2>1 DEF FitsPosition
<1>4. QED BY <1>1, <1>2, <1>3

LEMMA RecoveryBreakoutFits ==
  ASSUME NEW st \in PersistedStates, NEW m \in Markets, NEW pos, NEW c, NEW quote
  PROVE  FitsPosition(RecoveryBreakout, pos, EvaluateRecoveryBreakout(c, m, pos, st, quote))
<1> DEFINE s == IF pos.held THEN Observed(m, st) ELSE st
           d == EvaluateRecoveryBreakout(c, m, pos, st, quote)
<1>1. s \in PersistedStates
  BY DEF Observed, PersistedStates, Markets
<1>2. \/ \E t : d = Wait(m, t) \/ d = Hold(m, t)
      \/ pos.held /\ \E level, price, t : d = SellDrawdown(c, level, price, 0, t)
      \/ pos.held /\ d = TakeProfit(c, m, s)
      \/ d = BreakoutEntry(c, m, s)
  BY DEF EvaluateRecoveryBreakout
<1> HIDE DEF d, s
<1>3. CASE d = BreakoutEntry(c, m, s)
  <2>1. d.action \in {"HOLD", "WAIT", "BUY"} /\ ~d.ath
    BY <1>1, <1>3, BreakoutEntryKeeps
  <2>2. QED BY <2>1 DEF FitsPosition, Sells, RecoveryBreakout, DipAccumulation, d
<1>4. CASE d # BreakoutEntry(c, m, s)
  <2>1. FitsPosition(RecoveryBreakout, pos, d)
    BY <1>2, <1>4, PlainFits
  <2>2. QED BY <2>1 DEF d
<1>5. QED BY <1>3, <1>4

LEMMA DipAccumulationFits ==
  ASSUME NEW st \in PersistedStates, NEW m \in Markets, NEW pos, NEW c, NEW quote,
         Sound(DipAccumulation, st), Percentages(c)
  PROVE  FitsPosition(DipAccumulation, pos, EvaluateDipAccumulation(c, m, pos, st, quote))
<1> DEFINE s == IF pos.held THEN Observed(m, st) ELSE st
           d == EvaluateDipAccumulation(c, m, pos, st, quote)
<1>1. \/ \E t : d = Wait(m, t) \/ d = Hold(m, t)
      \/ pos.held /\ \E level, price, floor, t : d = SellDrawdown(c, level, price, floor, t)
      \/ pos.held /\ d = TakeProfit(c, m, s)
      \/ pos.held /\ d = DipEntry(c, m, s)
      \/ ~pos.held /\ s = st /\ ~(st.entryStep > 0) /\ d = DipFirstEntry(c, m, st)
  BY DEF EvaluateDipAccumulation, IntradayExit, ProtectedExit
<1> HIDE DEF d, s
<1>2. CASE pos.held /\ d = DipEntry(c, m, s)
  <2>1. d.action = "BUY" /\ d.ath = FALSE
    BY <1>2 DEF DipEntry, Advice
  <2>2. QED BY <1>2, <2>1 DEF FitsPosition, Sells, d
<1>3. CASE ~(st.entryStep > 0) /\ d = DipFirstEntry(c, m, st)
  <2> DEFINE first == BreakoutEntry(c, m, st)
  <2>1. /\ first.action \in {"HOLD", "WAIT", "BUY"} /\ ~first.ath
        /\ first.action = "BUY" => first.next.entryStep = 1
    BY <1>3, BreakoutEntryKeeps DEF PersistedStates
  <2>2. first \in Outcomes /\ first.next \in PersistedStates
    BY <1>3, BreakoutEntrySound DEF SoundOutcome, Outcomes, PersistedStates
  <2>3. \/ d = first
        \/ d = [first EXCEPT !.next.firstEntryRef = m.close, !.next.lastDipEntryAt = m.day]
    BY <1>3 DEF DipFirstEntry
  <2> HIDE DEF first
  <2>4. d.action = first.action /\ d.ath = first.ath /\ d.next.entryStep = first.next.entryStep
    BY <2>2, <2>3 DEF Outcomes, PersistedStates
  <2>5. QED BY <2>1, <2>4 DEF FitsPosition, Sells, d
<1>4. CASE ~(pos.held /\ d = DipEntry(c, m, s)) /\ ~(~(st.entryStep > 0) /\ d = DipFirstEntry(c, m, st))
  <2>1. FitsPosition(DipAccumulation, pos, d)
    BY <1>1, <1>4, PlainFits
  <2>2. QED BY <2>1 DEF d
<1>5. QED BY <1>2, <1>3, <1>4

\* Whatever it evaluates, with an intraday price or without: a sale and a later
\* dip entry need a position, an override entry needs that there is none.
LEMMA EvaluationFits ==
  ASSUME NEW s \in Strategies, NEW st \in PersistedStates, Sound(s, st),
         NEW m \in Markets, m.close > 0, NEW pos, NEW c, Percentages(c), NEW rule, NEW quote
  PROVE  FitsPosition(s, pos, EvaluateWithIntradayPrice(s, c, rule, m, pos, st, quote))
<1>1. CASE AthEntryApplies(rule, m, pos, st)
  <2> DEFINE d == AthEntry(c, m, st)
  <2>1. d.action = "BUY" /\ d.next.entryStep = 1
    BY DEF AthEntry, Advice, PersistedStates
  <2>2. ~pos.held /\ EvaluateWithIntradayPrice(s, c, rule, m, pos, st, quote) = d
    BY <1>1 DEF AthEntryApplies, EvaluateWithIntradayPrice
  <2> HIDE DEF d
  <2>3. QED BY <2>1, <2>2 DEF FitsPosition, Sells
<1>2. CASE ~AthEntryApplies(rule, m, pos, st) /\ s = RecoveryBreakout
  BY <1>2, RecoveryBreakoutFits DEF EvaluateWithIntradayPrice
<1>3. CASE ~AthEntryApplies(rule, m, pos, st) /\ s = DipAccumulation
  BY <1>3, DipAccumulationFits DEF EvaluateWithIntradayPrice, RecoveryBreakout, DipAccumulation
<1>4. QED BY <1>1, <1>2, <1>3 DEF Strategies

-----------------------------------------------------------------------------
(***************************************************************************)
(* The stages of the entries.                                              *)
(***************************************************************************)
\* A buy takes the next stage and its share of the budget; any other advice on
\* a position leaves the stages where they are.
TakesStage(c, st, held, d) ==
  IF d.action = "BUY"
  THEN /\ d.next.entryStep = st.entryStep + 1 /\ d.next.entryStep \in Stages
       /\ d.pct = c.entry[d.next.entryStep]
  ELSE held => d.next.entryStep = st.entryStep

LEMMA QuietStage ==
  ASSUME NEW st \in PersistedStates, NEW m, NEW c, NEW held, NEW label
  PROVE  /\ TakesStage(c, st, held, Hold(m, st)) /\ TakesStage(c, st, held, Wait(m, st))
         /\ TakesStage(c, st, held, Hold(m, In(st, label)))
         /\ TakesStage(c, st, held, Wait(m, In(st, label)))
         /\ TakesStage(c, st, held, TakeProfit(c, m, st))
<1>1. In(st, label).entryStep = st.entryStep
  BY DEF In, PersistedStates
<1> DEFINE taken == [st EXCEPT !.profitTaken = TRUE, !.state = "PROFIT_PROTECTION"]
<1>2. taken.entryStep = st.entryStep
  BY DEF PersistedStates
<1>3. QED BY <1>1, <1>2 DEF Hold, Wait, TakeProfit, Advice, TakesStage

LEMMA SaleStage ==
  ASSUME NEW st \in PersistedStates, NEW c, NEW held, NEW level, NEW price, NEW floor,
         NEW label
  PROVE  /\ TakesStage(c, st, held, SellDrawdown(c, level, price, floor, In(st, label)))
         /\ TakesStage(c, st, held, SellDrawdown(c, level, price, floor,
              In(MarkDrawdownTriggered(st, level), label)))
<1>1. /\ In(st, label).entryStep = st.entryStep
      /\ In(MarkDrawdownTriggered(st, level), label).entryStep = st.entryStep
  BY DEF In, MarkDrawdownTriggered, PersistedStates
<1>2. QED BY <1>1 DEF SellDrawdown, Advice, TakesStage

LEMMA BreakoutEntryStage ==
  ASSUME NEW st \in PersistedStates, st.entryStep < 3, NEW m, NEW c, NEW held
  PROVE  TakesStage(c, st, held, BreakoutEntry(c, m, st))
<1> DEFINE t      == [st EXCEPT !.correctionHighAt = CorrectionAnchor(m, st)]
           step   == st.entryStep + 1
           label  == IF step = 3 THEN "FULL_POSITION" ELSE "PARTIAL_POSITION"
           bought == [t EXCEPT !.entryStep = step, !.lastBreakout = m.recovery,
                               !.state = label]
           d      == BreakoutEntry(c, m, st)
<1>1. \A l : In(t, l).entryStep = st.entryStep
  BY DEF In, PersistedStates
<1>2. bought.entryStep = step /\ step \in Stages
  BY DEF PersistedStates, Stages
<1>3. \/ \E l : d = Hold(m, In(t, l)) \/ d = Wait(m, In(t, l))
      \/ d = Advice("BUY", c.entry[step], m.close, bought)
  BY DEF BreakoutEntry
<1> HIDE DEF bought, d, t
<1>4. TakesStage(c, st, held, d)
  BY <1>1, <1>2, <1>3 DEF Hold, Wait, Advice, TakesStage
<1>5. QED BY <1>4 DEF d

LEMMA RecoveryBreakoutStage ==
  ASSUME NEW st \in PersistedStates, NEW m \in Markets, NEW pos, NEW c, NEW quote
  PROVE  TakesStage(c, st, pos.held, EvaluateRecoveryBreakout(c, m, pos, st, quote))
<1> DEFINE s == IF pos.held THEN Observed(m, st) ELSE st
           d == EvaluateRecoveryBreakout(c, m, pos, st, quote)
<1>1. s \in PersistedStates /\ s.entryStep = st.entryStep
  BY DEF Observed, PersistedStates, Markets
<1>2. \/ d = Wait(m, st) \/ (~pos.held /\ \E t : d = Wait(m, t))
      \/ d = Hold(m, s) \/ \E l : d = Hold(m, In(s, l))
      \/ \E level, price, l : \/ d = SellDrawdown(c, level, price, 0, In(s, l))
                              \/ d = SellDrawdown(c, level, price, 0,
                                       In(MarkDrawdownTriggered(s, level), l))
      \/ d = TakeProfit(c, m, s)
      \/ ~(s.entryStep >= 3) /\ d = BreakoutEntry(c, m, s)
  BY DEF EvaluateRecoveryBreakout
<1> HIDE DEF d, s
<1>3. TakesStage(c, st, pos.held, d) <=> TakesStage(c, s, pos.held, d)
  BY <1>1 DEF TakesStage
<1>4. CASE ~pos.held /\ \E t : d = Wait(m, t)
  BY <1>4 DEF Wait, Advice, TakesStage, d
<1>5. CASE ~(s.entryStep >= 3) /\ d = BreakoutEntry(c, m, s)
  <2>1. s.entryStep < 3
    BY <1>1, <1>5 DEF PersistedStates
  <2>2. QED BY <1>1, <1>3, <1>5, <2>1, BreakoutEntryStage DEF d
<1>6. CASE d = Wait(m, st)
  BY <1>6, QuietStage DEF d
<1>7. CASE \/ d = Hold(m, s) \/ \E l : d = Hold(m, In(s, l))
           \/ d = TakeProfit(c, m, s)
  BY <1>1, <1>3, <1>7, QuietStage DEF d
<1>8. CASE \E level, price, l : \/ d = SellDrawdown(c, level, price, 0, In(s, l))
                                \/ d = SellDrawdown(c, level, price, 0,
                                         In(MarkDrawdownTriggered(s, level), l))
  BY <1>1, <1>3, <1>8, SaleStage DEF d
<1>9. QED BY <1>2, <1>4, <1>5, <1>6, <1>7, <1>8

LEMMA DipAccumulationStage ==
  ASSUME NEW st \in PersistedStates, Sound(DipAccumulation, st), NEW m \in Markets,
         NEW pos, NEW c, Percentages(c), NEW quote
  PROVE  TakesStage(c, st, pos.held, EvaluateDipAccumulation(c, m, pos, st, quote))
<1> DEFINE s == IF pos.held THEN Observed(m, st) ELSE st
           d == EvaluateDipAccumulation(c, m, pos, st, quote)
<1>1. s \in PersistedStates /\ s.entryStep = st.entryStep
  BY DEF Observed, PersistedStates, Markets
<1>2. \/ d = Wait(m, st) \/ (~pos.held /\ \E t : d = Wait(m, t))
      \/ d = Hold(m, s) \/ \E l : d = Hold(m, In(s, l)) \/ d = Wait(m, In(s, l))
      \/ \E level, price, floor, l : \/ d = SellDrawdown(c, level, price, floor, In(s, l))
                                     \/ d = SellDrawdown(c, level, price, floor,
                                              In(MarkDrawdownTriggered(s, level), l))
      \/ d = TakeProfit(c, m, s)
      \/ DipEntryReady(c, m, s) /\ d = DipEntry(c, m, s)
      \/ s = st /\ ~(st.entryStep > 0) /\ d = DipFirstEntry(c, m, st)
  BY DEF EvaluateDipAccumulation, IntradayExit, ProtectedExit
<1> HIDE DEF d, s
<1>3. TakesStage(c, st, pos.held, d) <=> TakesStage(c, s, pos.held, d)
  BY <1>1 DEF TakesStage
<1>4. CASE ~pos.held /\ \E t : d = Wait(m, t)
  BY <1>4 DEF Wait, Advice, TakesStage, d
<1>5. CASE DipEntryReady(c, m, s) /\ d = DipEntry(c, m, s)
  <2> DEFINE step  == s.entryStep + 1
             label == IF step = 3 THEN "FULL_POSITION" ELSE "PARTIAL_POSITION"
             new   == [s EXCEPT !.entryStep = step, !.lastDipEntryAt = m.day,
                                !.state = label]
  <2>1. new.entryStep = step /\ step \in Stages
    BY <1>1, <1>5 DEF PersistedStates, DipEntryReady, Stages
  <2>2. d = Advice("BUY", c.entry[step], m.close, new)
    BY <1>5 DEF DipEntry
  <2> HIDE DEF new
  <2>3. TakesStage(c, s, pos.held, d)
    BY <2>1, <2>2 DEF Advice, TakesStage
  <2>4. QED BY <1>3, <2>3 DEF d
<1>6. CASE s = st /\ ~(st.entryStep > 0) /\ d = DipFirstEntry(c, m, st)
  <2> DEFINE first == BreakoutEntry(c, m, st)
  <2>1. TakesStage(c, st, pos.held, first)
    BY <1>6, BreakoutEntryStage DEF PersistedStates
  <2>2. first \in Outcomes /\ first.next \in PersistedStates
    BY <1>6, BreakoutEntrySound DEF SoundOutcome, Outcomes, PersistedStates
  <2>3. \/ d = first
        \/ d = [first EXCEPT !.next.firstEntryRef = m.close, !.next.lastDipEntryAt = m.day]
    BY <1>6 DEF DipFirstEntry
  <2> HIDE DEF first
  <2>4. d.action = first.action /\ d.pct = first.pct /\ d.next.entryStep = first.next.entryStep
    BY <2>2, <2>3 DEF Outcomes, PersistedStates
  <2>5. QED BY <2>1, <2>4 DEF TakesStage, d
<1>7. CASE d = Wait(m, st)
  BY <1>7, QuietStage DEF d
<1>8. CASE \/ d = Hold(m, s) \/ d = TakeProfit(c, m, s)
           \/ \E l : d = Hold(m, In(s, l)) \/ d = Wait(m, In(s, l))
  BY <1>1, <1>3, <1>8, QuietStage DEF d
<1>9. CASE \E level, price, floor, l :
             \/ d = SellDrawdown(c, level, price, floor, In(s, l))
             \/ d = SellDrawdown(c, level, price, floor, In(MarkDrawdownTriggered(s, level), l))
  BY <1>1, <1>3, <1>9, SaleStage DEF d
<1>10. QED BY <1>2, <1>4, <1>5, <1>6, <1>7, <1>8, <1>9

\* Every evaluation takes the stages one by one.
LEMMA EvaluationStage ==
  ASSUME NEW s \in Strategies, NEW st \in PersistedStates, Sound(s, st),
         NEW m \in Markets, NEW pos, NEW c, Percentages(c), NEW rule, NEW quote
  PROVE  TakesStage(c, st, pos.held, EvaluateWithIntradayPrice(s, c, rule, m, pos, st, quote))
<1>1. CASE AthEntryApplies(rule, m, pos, st)
  <2> DEFINE d == AthEntry(c, m, st)
  <2>1. d.action = "BUY" /\ d.next.entryStep = 1 /\ d.pct = c.entry[1]
    BY DEF AthEntry, Advice, PersistedStates
  <2>2. st.entryStep = 0 /\ EvaluateWithIntradayPrice(s, c, rule, m, pos, st, quote) = d
    BY <1>1 DEF AthEntryApplies, EvaluateWithIntradayPrice
  <2> HIDE DEF d
  <2>3. QED BY <2>1, <2>2 DEF TakesStage, Stages
<1>2. CASE ~AthEntryApplies(rule, m, pos, st) /\ s = RecoveryBreakout
  BY <1>2, RecoveryBreakoutStage DEF EvaluateWithIntradayPrice
<1>3. CASE ~AthEntryApplies(rule, m, pos, st) /\ s = DipAccumulation
  BY <1>3, DipAccumulationStage DEF EvaluateWithIntradayPrice, RecoveryBreakout, DipAccumulation
<1>4. QED BY <1>1, <1>2, <1>3 DEF Strategies

-----------------------------------------------------------------------------
(***************************************************************************)
(* The level a drawdown sale is measured at.                               *)
(***************************************************************************)
\* The high-water mark that is saved with a drawdown sale, and the price of
\* the sale, cross exactly the level it reports: measuring them once more
\* consumes that level and no deeper one.
MeasuredSale(c, d) ==
  d.action = "SELL_DRAWDOWN" =>
    d.next.highestPrice > 0 /\ Deepest(Crossed(c, d.next.highestPrice, d.price)) = d.level

\* Whether the levels already consumed are left out makes no difference to
\* the level reached, because a consumed one has consumed all shallower ones.
LEMMA DeepestIsNew ==
  ASSUME NEW S \in SUBSET Levels, NEW T, \A k \in T : 1..k \subseteq T,
         Deepest(S \ T) # 0
  PROVE  Deepest(S) = Deepest(S \ T)
<1> DEFINE k == Deepest(S \ T)
           j == Deepest(S)
<1>1. k \in S \ T
  BY DeepestLevel
<1>2. \A i \in S \ T : i <= k
  <2>1. S \ T # {}
    BY <1>1
  <2>2. \E i \in S \ T : \A l \in S \ T : l <= i
    <3>1. CASE 3 \in S \ T
      BY <3>1 DEF Levels
    <3>2. CASE 3 \notin S \ T /\ 2 \in S \ T
      BY <3>2 DEF Levels
    <3>3. CASE 3 \notin S \ T /\ 2 \notin S \ T
      <4>1. \A i \in S \ T : i = 1
        BY <3>3 DEF Levels
      <4>2. QED BY <2>1, <4>1
    <3>4. QED BY <3>1, <3>2, <3>3
  <2>3. k = CHOOSE i \in S \ T : \A l \in S \ T : l <= i
    BY <2>1 DEF Deepest
  <2> HIDE DEF k
  <2>4. QED BY <2>2, <2>3
<1>3. \A i \in S : i <= k
  <2> SUFFICES ASSUME NEW i \in S, ~(i <= k) PROVE FALSE
    OBVIOUS
  <2>1. i \in T
    BY <1>2
  <2> HIDE DEF k
  <2>2. k \in 1..i
    BY <1>1 DEF Levels
  <2>3. k \in T
    BY <2>1, <2>2
  <2>4. QED BY <1>1, <2>3
<1>4. j = CHOOSE i \in S : \A l \in S : l <= i
  BY <1>1 DEF Deepest
<1> HIDE DEF j, k
<1>5. k \in S
  BY <1>1
<1>6. j \in S /\ \A l \in S : l <= j
  BY <1>3, <1>4, <1>5
<1>7. j <= k /\ k <= j /\ j \in 1..3 /\ k \in 1..3
  BY <1>3, <1>5, <1>6 DEF Levels
<1>8. j = k
  BY <1>7
<1>9. QED BY <1>8 DEF j, k

\* A sale at a newly crossed level is measured, whether it consumes the level
\* at once (at a close) or leaves that to the answer (at a quote).
LEMMA SaleMeasured ==
  ASSUME NEW s, NEW st \in PersistedStates, Sound(s, st), st.highestPrice > 0,
         NEW c, NEW price, NEW floor, NEW label, DrawdownAction(c, price, st) # 0
  PROVE  LET level == DrawdownAction(c, price, st) IN
         /\ MeasuredSale(c, SellDrawdown(c, level, price, floor, In(st, label)))
         /\ MeasuredSale(c, SellDrawdown(c, level, price, floor,
              In(MarkDrawdownTriggered(st, level), label)))
<1> DEFINE level == DrawdownAction(c, price, st)
           S     == Crossed(c, st.highestPrice, price)
<1>1. Deepest(S) = level
  <2>1. S \in SUBSET Levels /\ Deepest(S \ st.drawdowns) # 0
    BY DEF Crossed, DrawdownAction
  <2>2. \A k \in st.drawdowns : 1..k \subseteq st.drawdowns
    BY DEF Sound
  <2> HIDE DEF S
  <2>3. Deepest(S) = Deepest(S \ st.drawdowns)
    BY <2>1, <2>2, DeepestIsNew
  <2>4. QED BY <2>3 DEF DrawdownAction, S
<1>2. /\ In(st, label).highestPrice = st.highestPrice
      /\ In(MarkDrawdownTriggered(st, level), label).highestPrice = st.highestPrice
  BY DEF In, MarkDrawdownTriggered, PersistedStates
<1> HIDE DEF level
<1>3. QED BY <1>1, <1>2 DEF SellDrawdown, Advice, MeasuredSale, level

\* Every drawdown sale either ruleset advises is measured, at a close or at a
\* quote of any age.
LEMMA EvaluationMeasured ==
  ASSUME NEW s \in Strategies, NEW st \in PersistedStates, Sound(s, st),
         NEW m \in Markets, m.close > 0, NEW pos, NEW c, NEW rule, NEW quote
  PROVE  MeasuredSale(c, EvaluateWithIntradayPrice(s, c, rule, m, pos, st, quote))
<1> DEFINE o == Observed(m, st)
           d == EvaluateWithIntradayPrice(s, c, rule, m, pos, st, quote)
           Sale(price, level) ==
             /\ level = DrawdownAction(c, price, o) /\ level # 0
             /\ \E floor, label :
                  \/ d = SellDrawdown(c, level, price, floor, In(o, label))
                  \/ d = SellDrawdown(c, level, price, floor,
                           In(MarkDrawdownTriggered(o, level), label))
<1>1. o \in PersistedStates /\ Sound(s, o) /\ o.highestPrice > 0
  BY ObservedSound
<1>2. \A price, level : Sale(price, level) => MeasuredSale(c, d)
  BY <1>1, SaleMeasured
<1>3. \A x, y, t : /\ Wait(m, t).action # "SELL_DRAWDOWN" /\ Hold(m, t).action # "SELL_DRAWDOWN"
                   /\ TakeProfit(c, m, t).action # "SELL_DRAWDOWN"
                   /\ Advice("BUY", x, y, t).action # "SELL_DRAWDOWN"
  BY DEF Wait, Hold, TakeProfit, Advice
<1>4. \A t : BreakoutEntry(c, m, t).action # "SELL_DRAWDOWN"
  BY <1>3 DEF BreakoutEntry
<1>5. CASE AthEntryApplies(rule, m, pos, st)
  <2>1. d.action = "BUY"
    BY <1>5 DEF AthEntry, Advice, EvaluateWithIntradayPrice
  <2>2. QED BY <2>1 DEF MeasuredSale
<1>6. CASE ~AthEntryApplies(rule, m, pos, st) /\ s = RecoveryBreakout
  <2>1. d = EvaluateRecoveryBreakout(c, m, pos, st, quote)
    BY <1>6 DEF EvaluateWithIntradayPrice
  <2>2. \/ \E t : d = Wait(m, t) \/ d = Hold(m, t) \/ d = TakeProfit(c, m, t)
      \/ \E t : d = BreakoutEntry(c, m, t)
      \/ \E price, level : Sale(price, level)
    BY <2>1 DEF EvaluateRecoveryBreakout
  <2> SUFFICES MeasuredSale(c, d)
    OBVIOUS
  <2> HIDE DEF d, Sale
  <2>3. CASE \E price, level : Sale(price, level)
    BY <1>2, <2>3
  <2>4. CASE ~\E price, level : Sale(price, level)
    <3>1. d.action # "SELL_DRAWDOWN"
      BY <1>3, <1>4, <2>2, <2>4
    <3>2. QED BY <3>1 DEF MeasuredSale
  <2>5. QED BY <2>3, <2>4
<1>7. CASE ~AthEntryApplies(rule, m, pos, st) /\ s = DipAccumulation
  <2>1. d = EvaluateDipAccumulation(c, m, pos, st, quote)
    BY <1>7 DEF EvaluateWithIntradayPrice, RecoveryBreakout, DipAccumulation
  <2>2. \A t : DipEntry(c, m, t).action # "SELL_DRAWDOWN"
    BY <1>3 DEF DipEntry
  <2>3. \A t : DipFirstEntry(c, m, t).action # "SELL_DRAWDOWN"
    BY <1>3, <1>4 DEF DipFirstEntry
  <2>4. \/ \E t : d = Wait(m, t) \/ d = Hold(m, t) \/ d = TakeProfit(c, m, t)
        \/ \E t : d = DipEntry(c, m, t) \/ d = DipFirstEntry(c, m, t)
        \/ \E price, level : Sale(price, level)
    BY <2>1 DEF EvaluateDipAccumulation, IntradayExit, ProtectedExit
  <2> SUFFICES MeasuredSale(c, d)
    OBVIOUS
  <2> HIDE DEF d, Sale
  <2>5. CASE \E price, level : Sale(price, level)
    BY <1>2, <2>5
  <2>6. CASE ~\E price, level : Sale(price, level)
    <3>1. d.action # "SELL_DRAWDOWN"
      BY <1>3, <2>2, <2>3, <2>4, <2>6
    <3>2. QED BY <3>1 DEF MeasuredSale
  <2>7. QED BY <2>5, <2>6
<1>8. QED BY <1>5, <1>6, <1>7 DEF Strategies

-----------------------------------------------------------------------------
(***************************************************************************)
(* The facts of the market.                                                *)
(***************************************************************************)
\* The facts of the first candles, and of every later one, are well formed.
LEMMA FirstFactsTyped ==
  ASSUME NEW day \in Nat, NEW closes \in SUBSET Nat, NEW peaks \in SUBSET Nat,
         NEW m \in FirstFacts(day, closes, peaks)
  PROVE  m \in Markets /\ m.close \in closes
<1>1. /\ m \in [day : {day}, close : closes, localHigh : KnownPivots(day),
                eligible : BOOLEAN, initialLow : KnownPivots(day),
                recovery : KnownPivots(day), breakout : Breakouts, peak : peaks]
  BY DEF FirstFacts
<1>2. \A d \in KnownPivots(day) : d \in Nat
  <2>1. \A d \in PivotDays : d \in Nat
    BY MarketAssumptions
  <2>2. QED BY <2>1 DEF KnownPivots
<1>3. \A b \in Breakouts : b \in BreakoutFacts
  BY MarketAssumptions
<1>4. QED BY <1>1, <1>2, <1>3 DEF Markets

LEMMA NextFactsTyped ==
  ASSUME NEW m \in Markets, NEW close \in Nat, NEW peak \in Nat,
         NEW n \in NextFacts(m, close, peak)
  PROVE  n \in Markets /\ n.close = close /\ n.day = m.day + 1
<1>1. PICK pair \in RisingPairs(m) :
        n \in [day : {m.day + 1}, close : {close}, peak : {peak},
               localHigh : {m.localHigh} \union FreshPivots(m),
               eligible : BOOLEAN, initialLow : {pair[1]}, recovery : {pair[2]},
               breakout : Breakouts]
  BY DEF NextFacts
<1>2. m.day \in Nat /\ m.localHigh \in Nat /\ m.initialLow \in Nat /\ m.recovery \in Nat
  BY DEF Markets
<1>days. (\A d \in PivotDays : d \in Nat) /\ (\A d \in FreshPivots(m) : d \in Nat)
  BY MarketAssumptions DEF FreshPivots
<1>3. pair[1] \in Nat /\ pair[2] \in Nat
  <2>1. CASE pair = <<m.initialLow, m.recovery>>
    BY <1>2, <2>1
  <2>2. CASE pair \in PivotDays \X ({0} \union FreshPivots(m))
    <3>1. pair[1] \in PivotDays /\ pair[2] \in {0} \union FreshPivots(m)
      BY <2>2
    <3>2. QED BY <1>days, <3>1
  <2>3. QED BY <2>1, <2>2 DEF RisingPairs
<1>4. \A b \in Breakouts : b \in BreakoutFacts
  BY MarketAssumptions
<1>5. n.localHigh \in Nat /\ n.day \in Nat /\ n.breakout \in BreakoutFacts
  BY <1>1, <1>2, <1>days, <1>4
<1>6. n = [day |-> n.day, close |-> n.close, localHigh |-> n.localHigh,
           eligible |-> n.eligible, initialLow |-> n.initialLow,
           recovery |-> n.recovery, breakout |-> n.breakout, peak |-> n.peak]
  BY <1>1
<1>7. QED BY <1>1, <1>3, <1>5, <1>6 DEF Markets
=============================================================================
