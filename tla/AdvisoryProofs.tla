--------------------------- MODULE AdvisoryProofs ---------------------------
(***************************************************************************)
(* Proofs about the live advisor, for every price set, configuration,      *)
(* number of settings requests and bound.                                  *)
(*                                                                         *)
(* The argument is one inductive invariant, IInv: the types, a condition   *)
(* on each strategy's persisted state (Sound) and a condition on the       *)
(* pending recommendations.  Sound adds to what the runs check that a      *)
(* high-water mark exists only in an open campaign; without it nothing     *)
(* says that an acknowledged drawdown sale meets an open campaign.         *)
(*                                                                         *)
(* What an answer consumes and what a switch keeps also depend on when the *)
(* settings are saved; those two theorems name the condition they need.    *)
(***************************************************************************)
EXTENDS Advisory, StrategyEngineProofs

-----------------------------------------------------------------------------
(***************************************************************************)
(* The inductive invariant.                                                *)
(***************************************************************************)
PendingSound ==
  /\ OnePendingPerStrategy
  /\ \A r \in pending : r.ath => r.action = "BUY"

IInv ==
  /\ TypeOK
  /\ market.close > 0
  /\ \A s \in Strategies : Sound(s, states[s])
  /\ PendingSound

LEMMA InitIInv == Init => IInv
<1> SUFFICES ASSUME Init PROVE IInv
  OBVIOUS
<1> USE AdvisoryAssumptions
<1>1. market \in Markets /\ market.close > 0
  <2>1. StartDay \in Nat /\ Closes \subseteq Nat /\ Peaks \subseteq Nat
    OBVIOUS
  <2>2. market \in Markets /\ market.close \in Closes
    BY <2>1, FirstFactsTyped DEF Init
  <2>3. \A p \in Closes : p > 0
    OBVIOUS
  <2>4. QED BY <2>2, <2>3
<1>2. position \in Positions
  BY DEF Init, NoPosition, Positions
<1>3. states \in [Strategies -> PersistedStates] /\ \A s \in Strategies : Sound(s, states[s])
  BY FreshSound DEF Init
<1>4. writers \in [Writers -> Requests]
  BY DEF Init, Requests
<1>5. quote \in Nat /\ settings \in Settings /\ pending = {} /\ nextId \in Nat /\ events = {}
  BY DEF Init
<1>6. QED BY <1>1, <1>2, <1>3, <1>4, <1>5 DEF IInv, TypeOK, PendingSound, OnePendingPerStrategy

\* The decision of an evaluation is sound.
LEMMA DecisionSound ==
  ASSUME IInv, NEW st \in PersistedStates, Sound(settings.selected, st)
  PROVE  SoundOutcome(settings.selected, Decision(st))
<1>1. /\ settings.selected \in Strategies
      /\ settings.config[settings.selected] \in Profiles
  BY DEF IInv, TypeOK, Settings
<1>2. Percentages(settings.config[settings.selected])
  BY <1>1, AdvisoryAssumptions, ValidPercentages
<1>3. market \in Markets /\ market.close > 0 /\ position \in Positions /\ quote \in Nat
  BY DEF IInv, TypeOK
<1>4. QED BY <1>1, <1>2, <1>3, EvaluationSound DEF Decision

LEMMA EvaluateFromIInv ==
  ASSUME IInv, NEW st \in PersistedStates, Sound(settings.selected, st),
         NEW kept \in SUBSET pending,
         \A r \in kept : r.strategy # settings.selected,
         EvaluateFrom(st, kept), UNCHANGED <<market, quote, position, settings, writers>>
  PROVE  IInv'
<1> DEFINE d == Decision(st)
           s == settings.selected
<1>1. SoundOutcome(s, d) /\ s \in Strategies
  BY DecisionSound DEF IInv, TypeOK, Settings
<1>2. states' = [states EXCEPT ![s] = d.next]
  BY DEF EvaluateFrom
<1> HIDE DEF d
<1>3. /\ d.action \in Actions /\ d.pct \in Nat /\ d.price \in Nat /\ d.level \in 0..3
      /\ d.ath \in BOOLEAN /\ d.next \in PersistedStates /\ Sound(s, d.next)
      /\ d.ath => d.action = "BUY"
  BY <1>1 DEF SoundOutcome, Outcomes
<1>4. /\ states' \in [Strategies -> PersistedStates]
      /\ \A k \in Strategies : Sound(k, states'[k])
  BY <1>1, <1>2, <1>3 DEF IInv, TypeOK
<1>5. Fingerprint \in Fingerprints
  BY DEF IInv, TypeOK, Settings, Fingerprints, Fingerprint
<1>6. CASE pending' = kept /\ UNCHANGED <<nextId, events>>
  <2>1. pending' \subseteq pending
    BY <1>6
  <2>2. PendingSound'
    BY <2>1 DEF IInv, PendingSound, OnePendingPerStrategy
  <2>3. TypeOK'
    BY <1>4, <1>6, <2>1 DEF IInv, TypeOK
  <2>4. QED BY <1>4, <2>2, <2>3 DEF IInv
<1>7. CASE AppendStrategyEvent(d) /\ CreatePendingRecommendation(d, kept)
  <2> DEFINE new == [id |-> nextId, strategy |-> s, action |-> d.action, pct |-> d.pct,
                     price |-> d.price, level |-> d.level, ath |-> d.ath,
                     fingerprint |-> Fingerprint]
             event == [strategy |-> s, day |-> market.day, action |-> d.action,
                       ath |-> d.ath, state |-> d.next.state, pct |-> d.pct,
                       price |-> d.price]
  <2>1. pending' = kept \union {new} /\ nextId' = nextId + 1
    BY <1>7 DEF CreatePendingRecommendation
  <2>2. new \in Recommendations /\ nextId \in Nat
    BY <1>1, <1>3, <1>5 DEF IInv, TypeOK, Recommendations
  <2>3. event \in Events
    BY <1>1, <1>3 DEF IInv, TypeOK, Events, Markets, PersistedStates
  <2>4. events' \subseteq events \union {event}
    BY <1>7 DEF AppendStrategyEvent
  <2>5. new.strategy = s /\ (new.ath => new.action = "BUY")
    BY <1>3
  <2> HIDE DEF new, event
  <2>6. PendingSound'
    BY <2>1, <2>5 DEF IInv, PendingSound, OnePendingPerStrategy
  <2>7. TypeOK'
    BY <1>4, <2>1, <2>2, <2>3, <2>4 DEF IInv, TypeOK
  <2>8. QED BY <1>4, <2>6, <2>7 DEF IInv
<1>8. QED BY <1>6, <1>7 DEF EvaluateFrom, d

LEMMA EvaluateIInv ==
  ASSUME IInv, EvaluateStrategyAtomically
  PROVE  IInv'
<1> DEFINE s == settings.selected
           found == PendingFor(s)
<1>1. /\ s \in Strategies /\ states[s] \in PersistedStates /\ Sound(s, states[s])
      /\ market.day \in Nat
  BY DEF IInv, TypeOK, Settings, Markets
<1>2. UNCHANGED <<market, quote, position, settings, writers>>
  BY DEF EvaluateStrategyAtomically
<1>3. CASE found = {} /\ EvaluateFrom(states[s], pending)
  <2>1. \A r \in pending : r.strategy # s
    BY <1>3 DEF PendingFor
  <2>2. pending \in SUBSET pending
    OBVIOUS
  <2>3. QED BY <1>1, <1>2, <1>3, <2>1, <2>2, EvaluateFromIInv
<1>4. CASE found # {} /\ EvaluateFrom(ResetForReentry(market.day), pending \ {Newest(found)})
  <2> DEFINE kept == pending \ {Newest(found)}
  <2>1. PICK q \in found : TRUE
    BY <1>4
  <2>2. found = {q} /\ q.id \in Nat
    BY <2>1 DEF IInv, PendingSound, OnePendingPerStrategy, PendingFor, TypeOK, Recommendations
  <2>3. Newest(found) = q
    BY <2>2 DEF Newest
  <2>4. \A r \in kept : r.strategy # s
    BY <2>2, <2>3 DEF PendingFor
  <2>5. kept \in SUBSET pending
    OBVIOUS
  <2>6. /\ ResetForReentry(market.day) \in PersistedStates
        /\ Sound(s, ResetForReentry(market.day))
    BY <1>1, FreshSound
  <2>7. EvaluateFrom(ResetForReentry(market.day), kept)
    BY <1>4
  <2> HIDE DEF kept
  <2>8. QED BY <1>2, <2>4, <2>5, <2>6, <2>7, EvaluateFromIInv
<1>5. CASE UNCHANGED <<states, pending, nextId, events>>
  BY <1>2, <1>5 DEF IInv, TypeOK, PendingSound, OnePendingPerStrategy
<1>6. QED BY <1>3, <1>4, <1>5 DEF EvaluateStrategyAtomically

\* The environment's steps touch neither the states nor the recommendations.
LEMMA EnvironmentIInv ==
  ASSUME IInv,
         \/ \E close \in Closes, peak \in Peaks : NewCandle(close, peak)
         \/ \E price \in Quotes : NewQuote(price)
         \/ \E pos \in UserPositions : SavePortfolio(pos)
  PROVE  IInv'
<1> USE AdvisoryAssumptions
<1>1. CASE \E close \in Closes, peak \in Peaks : NewCandle(close, peak)
  <2>1. PICK close \in Closes, peak \in Peaks : NewCandle(close, peak)
    BY <1>1
  <2>2. market \in Markets /\ close \in Nat /\ close > 0 /\ peak \in Nat
    BY DEF IInv, TypeOK
  <2>3. market' \in NextFacts(market, close, peak)
    BY <2>1 DEF NewCandle
  <2>4. market' \in Markets /\ market'.close > 0
    BY <2>2, <2>3, NextFactsTyped
  <2>5. UNCHANGED <<quote, position, settings, states, pending, nextId, events, writers>>
    BY <2>1 DEF NewCandle
  <2>6. QED BY <2>4, <2>5 DEF IInv, TypeOK, PendingSound, OnePendingPerStrategy
<1>2. CASE \E price \in Quotes : NewQuote(price)
  BY <1>2 DEF NewQuote, IInv, TypeOK, PendingSound, OnePendingPerStrategy
<1>3. CASE \E pos \in UserPositions : SavePortfolio(pos)
  <2>1. \A pos \in UserPositions : pos \in Positions
    <3>1. \A a \in Averages : a \in Nat
      OBVIOUS
    <3>2. NoPosition \in Positions
      BY DEF NoPosition, Positions
    <3>3. [held : {TRUE}, avg : Averages] \subseteq Positions
      BY <3>1 DEF Positions
    <3>4. QED BY <3>2, <3>3 DEF UserPositions
  <2>2. QED BY <1>3, <2>1 DEF SavePortfolio, IInv, TypeOK, PendingSound, OnePendingPerStrategy
<1>4. QED BY <1>1, <1>2, <1>3

\* An answer leaves the state of its strategy sound: a drawdown sale can only
\* consume levels where a high-water mark, hence an open campaign, exists.
LEMMA ExecutedSound ==
  ASSUME IInv, NEW r \in pending
  PROVE  Executed(r) \in PersistedStates /\ Sound(r.strategy, Executed(r))
<1> DEFINE s  == r.strategy
           st == states[s]
<1>1. s \in Strategies /\ st \in PersistedStates /\ Sound(s, st) /\ market.day \in Nat
  BY DEF IInv, TypeOK, Recommendations, Markets
<1>2. CASE r.pct >= 100
  <2>1. market.day + 1 \in Nat
    BY <1>1
  <2>2. QED BY <1>2, <2>1, FreshSound DEF Executed
<1>3. CASE ~(r.pct >= 100) /\ r.action = "SELL_PROFIT"
  <2> DEFINE new == [st EXCEPT !.profitTaken = TRUE]
  <2>1. Executed(r) = new
    BY <1>3 DEF Executed
  <2> HIDE DEF st
  <2>2. new \in PersistedStates
    BY <1>1 DEF PersistedStates
  <2>3. /\ new.correctionHighAt = st.correctionHighAt /\ new.reentryAfter = st.reentryAfter
        /\ new.drawdowns = st.drawdowns /\ new.highestPrice = st.highestPrice
        /\ new.positionOpen = st.positionOpen /\ new.entryStep = st.entryStep
        /\ new.firstEntryRef = st.firstEntryRef
    BY <1>1 DEF PersistedStates
  <2>4. Sound(s, new)
    BY <1>1, <2>3 DEF Sound
  <2> HIDE DEF new
  <2>5. QED BY <2>1, <2>2, <2>4
<1>4. CASE ~(r.pct >= 100) /\ r.action # "SELL_PROFIT" /\ r.action = "SELL_DRAWDOWN"
  <2> DEFINE c     == settings.config[s]
             level == Deepest(Crossed(c, st.highestPrice, r.price))
  <2>1. Executed(r) = MarkExecutedDrawdown(st, c, r.price)
    BY <1>4 DEF Executed
  <2>2. CASE st.highestPrice = 0
    BY <1>1, <2>1, <2>2 DEF MarkExecutedDrawdown
  <2>3. CASE st.highestPrice # 0
    <3>1. Executed(r) = MarkDrawdownTriggered(st, level)
      BY <2>1, <2>3 DEF MarkExecutedDrawdown
    <3>2. level \in 0..3
      <4>1. Crossed(c, st.highestPrice, r.price) \in SUBSET Levels
        BY DEF Crossed
      <4>2. QED BY <4>1, DeepestLevel
    <3> HIDE DEF level, st
    <3>3. st.highestPrice > 0
      BY <1>1, <2>3 DEF PersistedStates
    <3>4. QED BY <1>1, <3>1, <3>2, <3>3, MarkSound
  <2>4. QED BY <2>2, <2>3
<1>5. CASE ~(r.pct >= 100) /\ r.action # "SELL_PROFIT" /\ r.action # "SELL_DRAWDOWN"
  BY <1>1, <1>5 DEF Executed
<1>6. QED BY <1>2, <1>3, <1>4, <1>5

LEMMA ResolveIInv ==
  ASSUME IInv, NEW r \in pending, NEW status,
         ResolveStrategyRecommendation(r, status)
  PROVE  IInv'
<1>1. /\ r.strategy \in Strategies
      /\ Executed(r) \in PersistedStates /\ Sound(r.strategy, Executed(r))
  BY ExecutedSound DEF IInv, TypeOK, Recommendations
<1>2. \/ states' = states
      \/ states' = [states EXCEPT ![r.strategy] = Executed(r)]
  BY DEF ResolveStrategyRecommendation
<1>3. /\ states' \in [Strategies -> PersistedStates]
      /\ \A s \in Strategies : Sound(s, states'[s])
  BY <1>1, <1>2 DEF IInv, TypeOK
<1>4. /\ pending' \subseteq pending
      /\ UNCHANGED <<market, quote, position, settings, nextId, events, writers>>
  BY DEF ResolveStrategyRecommendation
<1>5. QED BY <1>3, <1>4 DEF IInv, TypeOK, PendingSound, OnePendingPerStrategy

\* A strategy switch moves a sound exit phase, and nothing of the entry phase
\* that the target's own row cannot account for.
LEMMA CarrySound ==
  ASSUME NEW s, NEW k, NEW source \in PersistedStates, NEW target \in PersistedStates,
         Sound(s, source), Sound(k, target)
  PROVE  /\ CarryOpenCampaignExitState(source, target) \in PersistedStates
         /\ Sound(k, CarryOpenCampaignExitState(source, target))
<1> DEFINE label == IF source.profitTaken THEN "PROFIT_PROTECTION" ELSE "PARTIAL_POSITION"
           entry == [target EXCEPT !.state = label, !.entryStep = 0,
                       !.positionOpen = TRUE, !.firstEntryRef = 0, !.lastDipEntryAt = 0]
           body  == [entry EXCEPT !.highestPrice = source.highestPrice,
                       !.profitTaken = source.profitTaken,
                       !.drawdowns = source.drawdowns]
           new   == CarryOpenCampaignExitState(source, target)
<1>1. entry \in PersistedStates
  <2>1. label \in AdvisoryStates
    BY DEF AdvisoryStates
  <2>2. 0 \in 0..3 /\ 0 \in Nat
    OBVIOUS
  <2> HIDE DEF label
  <2>3. \A step \in 0..3, ref \in Nat, at \in Nat :
          [target EXCEPT !.state = label, !.entryStep = step, !.positionOpen = TRUE,
                         !.firstEntryRef = ref, !.lastDipEntryAt = at] \in PersistedStates
    BY <2>1, EntryUpdates
  <2>4. QED BY <2>2, <2>3
<1>2. body \in PersistedStates
  <2>1. /\ source.highestPrice \in Nat /\ source.profitTaken \in BOOLEAN
        /\ source.drawdowns \in SUBSET Levels
    BY DEF PersistedStates
  <2> HIDE DEF entry
  <2>2. QED BY <1>1, <2>1 DEF PersistedStates
<1>3. /\ body.correctionHighAt = target.correctionHighAt
      /\ body.reentryAfter = target.reentryAfter /\ body.drawdowns = source.drawdowns
      /\ body.highestPrice = source.highestPrice /\ body.positionOpen
      /\ body.entryStep = 0
  BY DEF PersistedStates
<1>4. Sound(k, body)
  BY <1>3 DEF Sound
<1>5. new = body
  BY DEF CarryOpenCampaignExitState, PersistedStates
<1>6. QED BY <1>2, <1>4, <1>5

LEMMA SettingsIInv ==
  ASSUME IInv,
         \/ \E w \in Writers, s \in Strategies, profile \in Profiles :
              SaveStrategyConfig(w, s, profile)
         \/ \E w \in Writers, target \in Settings : LoadPrevious(w, target)
         \/ \E w \in Writers : SaveAssetStrategySettings(w)
  PROVE  IInv'
<1>1. writers \in [Writers -> Requests] /\ settings \in Settings
  BY DEF IInv, TypeOK
<1>2. CASE \E w \in Writers, s \in Strategies, profile \in Profiles :
             SaveStrategyConfig(w, s, profile)
  <2>1. PICK w \in Writers, s \in Strategies, profile \in Profiles :
          SaveStrategyConfig(w, s, profile)
    BY <1>2
  <2>2. [settings EXCEPT !.config[s] = profile] \in Settings
    BY <1>1 DEF Settings
  <2>3. writers' \in [Writers -> Requests]
    BY <1>1, <2>1, <2>2 DEF SaveStrategyConfig, Requests
  <2>4. UNCHANGED <<market, quote, position, settings, states, pending, nextId, events>>
    BY <2>1 DEF SaveStrategyConfig
  <2>5. QED BY <2>3, <2>4 DEF IInv, TypeOK, PendingSound, OnePendingPerStrategy
<1>3. CASE \E w \in Writers, target \in Settings : LoadPrevious(w, target)
  <2>1. PICK w \in Writers, target \in Settings : LoadPrevious(w, target)
    BY <1>3
  <2>2. settings.selected \in Strategies
    BY <1>1 DEF Settings
  <2>3. writers' \in [Writers -> Requests]
    BY <1>1, <2>1, <2>2 DEF LoadPrevious, Requests
  <2>4. UNCHANGED <<market, quote, position, settings, states, pending, nextId, events>>
    BY <2>1 DEF LoadPrevious
  <2>5. QED BY <2>3, <2>4 DEF IInv, TypeOK, PendingSound, OnePendingPerStrategy
<1>4. CASE \E w \in Writers : SaveAssetStrategySettings(w)
  <2>1. PICK w \in Writers : SaveAssetStrategySettings(w)
    BY <1>4
  <2> DEFINE req == writers[w]
             s   == req.target.selected
             p   == req.previous
  <2>2. req.target \in Settings /\ p \in Strategies
    BY <1>1, <2>1 DEF SaveAssetStrategySettings, Requests, Idle
  <2>3. s \in Strategies
    BY <2>2 DEF Settings
  <2>4. /\ settings' = req.target /\ states' = SwitchedStates(p, s)
        /\ writers' = [writers EXCEPT ![w] = Idle]
        /\ UNCHANGED <<market, quote, position, pending, nextId, events>>
    BY <2>1 DEF SaveAssetStrategySettings
  <2>5. writers' \in [Writers -> Requests]
    BY <1>1, <2>4 DEF Requests
  <2> HIDE DEF req, s, p
  <2>6. /\ states[p] \in PersistedStates /\ Sound(p, states[p])
        /\ states[s] \in PersistedStates /\ Sound(s, states[s])
    BY <2>2, <2>3 DEF IInv, TypeOK
  <2>7. PICK new \in PersistedStates :
          Sound(s, new) /\ (states' = states \/ states' = [states EXCEPT ![s] = new])
    BY <2>4, <2>6, CarrySound, FreshSound DEF SwitchedStates
  <2>8. /\ states' \in [Strategies -> PersistedStates]
        /\ \A k \in Strategies : Sound(k, states'[k])
    BY <2>3, <2>7 DEF IInv, TypeOK
  <2>9. QED BY <2>2, <2>4, <2>5, <2>8 DEF IInv, TypeOK, PendingSound, OnePendingPerStrategy
<1>5. QED BY <1>2, <1>3, <1>4

\* Every step, and every stuttering step, preserves the invariant.
LEMMA NextIInv == IInv /\ [Next]_vars => IInv'
<1> SUFFICES ASSUME IInv, [Next]_vars PROVE IInv'
  OBVIOUS
<1>1. CASE \/ \E close \in Closes, peak \in Peaks : NewCandle(close, peak)
           \/ \E price \in Quotes : NewQuote(price)
           \/ \E pos \in UserPositions : SavePortfolio(pos)
  BY <1>1, EnvironmentIInv
<1>2. CASE EvaluateStrategyAtomically
  BY <1>2, EvaluateIInv
<1>3. CASE \E r \in pending, status \in {"EXECUTED", "DISMISSED"} :
             ResolveStrategyRecommendation(r, status)
  BY <1>3, ResolveIInv
<1>4. CASE \/ \E w \in Writers, s \in Strategies, profile \in Profiles :
                SaveStrategyConfig(w, s, profile)
           \/ \E w \in Writers, target \in Settings : LoadPrevious(w, target)
           \/ \E w \in Writers : SaveAssetStrategySettings(w)
  BY <1>4, SettingsIInv
<1>5. CASE UNCHANGED vars
  BY <1>5 DEF vars, IInv, TypeOK, PendingSound, OnePendingPerStrategy
<1>6. QED BY <1>1, <1>2, <1>3, <1>4, <1>5 DEF Next

\* IInv holds in every reachable state.
THEOREM Invariance == Spec => []IInv
<1>1. Init => IInv
  BY InitIInv
<1>2. IInv /\ [Next]_vars => IInv'
  BY NextIInv
<1>3. QED BY <1>1, <1>2, PTL DEF Spec

-----------------------------------------------------------------------------
(***************************************************************************)
(* The safety properties.                                                  *)
(***************************************************************************)
\* Every row read back has the type the code declares for it.
THEOREM TypeCorrect == Spec => []TypeOK
<1>1. IInv => TypeOK
  BY DEF IInv
<1>2. QED BY <1>1, Invariance, PTL

\* However evaluations, answers and strategy switches interleave, a strategy
\* has at most one recommendation waiting for an answer.
THEOREM OnePending == Spec => []OnePendingPerStrategy
<1>1. IInv => OnePendingPerStrategy
  BY DEF IInv, PendingSound
<1>2. QED BY <1>1, Invariance, PTL

\* The correction of a new cycle began after the exit that ended the last one.
THEOREM NewCorrection == Spec => []ReentryNeedsNewCorrection
<1>1. IInv => ReentryNeedsNewCorrection
  BY DEF IInv, Sound, ReentryNeedsNewCorrection
<1>2. QED BY <1>1, Invariance, PTL

\* The consumed drawdown levels of a campaign are always the shallowest ones.
THEOREM Nested == Spec => []DrawdownsNested
<1>1. IInv => DrawdownsNested
  BY DEF IInv, Sound, DrawdownsNested
<1>2. QED BY <1>1, Invariance, PTL

\* No consumed level outlives its campaign: it has an open position and a
\* high-water mark.
THEOREM DrawdownsOwned == Spec => []DrawdownsBelongToCampaign
<1>1. ASSUME IInv PROVE DrawdownsBelongToCampaign
  <2> SUFFICES ASSUME NEW s \in Strategies, states[s].drawdowns # {}
               PROVE  states[s].positionOpen /\ states[s].highestPrice > 0
    BY DEF DrawdownsBelongToCampaign
  <2>1. Sound(s, states[s])
    BY <1>1 DEF IInv
  <2>2. QED BY <2>1 DEF Sound
<1>2. QED BY <1>1, Invariance, PTL

\* Dip Accumulation never has an entry without the reference its later
\* entries are measured from, so its state can always be saved.
THEOREM DipReference == Spec => []DipReferenceKnown
<1>1. ASSUME IInv PROVE DipReferenceKnown
  <2>1. Sound(DipAccumulation, states[DipAccumulation])
    BY <1>1 DEF IInv, Strategies
  <2>2. QED BY <2>1 DEF Sound, DipReferenceKnown
<1>2. QED BY <1>1, Invariance, PTL

\* A pending sale ends only by the user's answer: the one recommendation an
\* evaluation may withdraw is an override entry, which is a BUY.
THEOREM SalesKept == Spec => ExitsNeverAutoDismissed
<1> DEFINE Kept == \A r \in pending : r.action \in Sells /\ r \notin pending' =>
                     \E status \in {"EXECUTED", "DISMISSED"} :
                       ResolveStrategyRecommendation(r, status)
<1>1. ASSUME IInv, [Next]_vars PROVE Kept
  <2> SUFFICES ASSUME NEW r \in pending, r.action \in Sells, r \notin pending'
               PROVE  \E status \in {"EXECUTED", "DISMISSED"} :
                        ResolveStrategyRecommendation(r, status)
    OBVIOUS
  <2>1. CASE \E q \in pending, status \in {"EXECUTED", "DISMISSED"} :
               ResolveStrategyRecommendation(q, status)
    <3>1. PICK q \in pending, status \in {"EXECUTED", "DISMISSED"} :
            ResolveStrategyRecommendation(q, status)
      BY <2>1
    <3>2. pending' = pending \ {q}
      BY <3>1 DEF ResolveStrategyRecommendation
    <3>3. r = q
      BY <3>2
    <3>4. QED BY <3>1, <3>3
  <2>2. CASE EvaluateStrategyAtomically
    <3> DEFINE found == PendingFor(settings.selected)
               q     == Newest(found)
    <3>1. \/ pending \subseteq pending'
          \/ found # {} /\ StaleHistoricalPeakEntry(q) /\ pending \ {q} \subseteq pending'
      BY <2>2 DEF EvaluateStrategyAtomically, EvaluateFrom, CreatePendingRecommendation
    <3>2. found # {} /\ StaleHistoricalPeakEntry(q) /\ r = q
      BY <3>1
    <3>3. r.ath
      BY <3>2 DEF StaleHistoricalPeakEntry
    <3>4. r.action = "BUY"
      BY <1>1, <3>3 DEF IInv, PendingSound
    <3>5. QED BY <3>4 DEF Sells
  <2>3. CASE UNCHANGED pending
    BY <2>3
  <2>4. QED BY <1>1, <2>1, <2>2, <2>3
        DEF Next, vars, NewCandle, NewQuote, SavePortfolio, SaveStrategyConfig,
            LoadPrevious, SaveAssetStrategySettings
<1>2. QED BY <1>1, Invariance, PTL DEF Spec, ExitsNeverAutoDismissed

\* A sale is advised only for a position, a later dip entry only on top of one,
\* and an override entry only without one, for every profile, price and
\* history of answers, switches and portfolio edits.
THEOREM AdviceAlwaysFits == Spec => AdviceFitsPosition
<1> DEFINE Fit(r) == /\ r.action \in Sells => position.held
                     /\ r.ath => ~position.held
                     /\ r.strategy = DipAccumulation /\ states'[r.strategy].entryStep > 1
                          /\ r.action = "BUY" => position.held
<1>1. ASSUME IInv, NEW st \in PersistedStates, Sound(settings.selected, st),
             NEW kept \in SUBSET pending, EvaluateFrom(st, kept), NEW r \in Created
      PROVE  Fit(r)
  <2> DEFINE s == settings.selected
             d == Decision(st)
  <2>1. /\ s \in Strategies /\ settings.config[s] \in Profiles /\ market \in Markets
        /\ market.close > 0 /\ states \in [Strategies -> PersistedStates]
    BY <1>1 DEF IInv, TypeOK, Settings
  <2>2. Percentages(settings.config[s])
    BY <2>1, AdvisoryAssumptions, ValidPercentages
  <2>3. FitsPosition(s, position, d)
    BY <1>1, <2>1, <2>2, EvaluationFits DEF Decision
  <2> HIDE DEF d
  <2>4. states'[s] = d.next
    BY <1>1, <2>1 DEF EvaluateFrom, d
  <2>5. r.strategy = s /\ r.action = d.action /\ r.ath = d.ath
    BY <1>1 DEF EvaluateFrom, CreatePendingRecommendation, Created, d
  <2>6. QED BY <2>3, <2>4, <2>5 DEF FitsPosition
<1>2. ASSUME IInv, Next, NEW r \in Created PROVE Fit(r)
  <2>1. CASE EvaluateStrategyAtomically
    <3> DEFINE s     == settings.selected
               found == PendingFor(s)
    <3>1. /\ s \in Strategies /\ states[s] \in PersistedStates /\ Sound(s, states[s])
          /\ market.day \in Nat
      BY <1>2 DEF IInv, TypeOK, Settings, Markets
    <3>2. CASE EvaluateFrom(states[s], pending)
      BY <1>1, <1>2, <3>1, <3>2
    <3>3. CASE EvaluateFrom(ResetForReentry(market.day), pending \ {Newest(found)})
      <4>1. /\ ResetForReentry(market.day) \in PersistedStates
            /\ Sound(s, ResetForReentry(market.day))
            /\ pending \ {Newest(found)} \in SUBSET pending
        BY <3>1, FreshSound
      <4>2. QED BY <1>1, <1>2, <3>3, <4>1
    <3>4. CASE UNCHANGED pending
      BY <1>2, <3>4 DEF Created
    <3>5. QED BY <2>1, <3>2, <3>3, <3>4 DEF EvaluateStrategyAtomically
  <2>2. CASE pending' \subseteq pending
    BY <1>2, <2>2 DEF Created
  <2>3. QED BY <1>2, <2>1, <2>2
        DEF Next, NewCandle, NewQuote, SavePortfolio, ResolveStrategyRecommendation,
            SaveStrategyConfig, LoadPrevious, SaveAssetStrategySettings
<1>3. IInv /\ [Next]_vars => [\A r \in Created : Fit(r)]_vars
  BY <1>2
<1>4. QED BY Invariance, <1>3, PTL DEF Spec, AdviceFitsPosition

-----------------------------------------------------------------------------
(***************************************************************************)
(* The milestones across settings saves.                                   *)
(***************************************************************************)
\* The settings requests take turns: no two are between the read of the
\* previous selection and the transaction that relies on it.  Nothing in the
\* code makes them, so this is a condition on the use of the program.
SavesTakeTurns ==
  \A v, w \in Writers : writers[v].pc = "loaded" /\ writers[w].pc = "loaded" => v = w

\* A save about to begin its transaction knows the current selection.
PreviousCurrent ==
  \A w \in Writers : writers[w].pc = "loaded" => writers[w].previous = settings.selected

LEMMA PreviousStaysCurrent ==
  ASSUME IInv, SavesTakeTurns, PreviousCurrent, [Next]_vars
  PROVE  PreviousCurrent'
<1>1. writers \in [Writers -> Requests]
  BY DEF IInv, TypeOK
<1>2. CASE UNCHANGED <<settings, writers>>
  BY <1>2 DEF PreviousCurrent
<1>3. ASSUME NEW w \in Writers, NEW s \in Strategies, NEW profile \in Profiles,
             SaveStrategyConfig(w, s, profile)
      PROVE  PreviousCurrent'
  <2>1. /\ settings' = settings /\ writers'[w].pc = "merged"
        /\ \A v \in Writers : v # w => writers'[v] = writers[v]
    BY <1>1, <1>3 DEF SaveStrategyConfig
  <2>2. QED BY <2>1 DEF PreviousCurrent
<1>4. ASSUME NEW w \in Writers, NEW target \in Settings, LoadPrevious(w, target)
      PROVE  PreviousCurrent'
  <2>1. /\ settings' = settings /\ writers'[w].previous = settings.selected
        /\ \A v \in Writers : v # w => writers'[v] = writers[v]
    BY <1>1, <1>4 DEF LoadPrevious
  <2>2. QED BY <2>1 DEF PreviousCurrent
<1>5. ASSUME NEW w \in Writers, SaveAssetStrategySettings(w)
      PROVE  PreviousCurrent'
  <2>1. /\ writers[w].pc = "loaded" /\ writers'[w] = Idle
        /\ \A v \in Writers : v # w => writers'[v] = writers[v]
    BY <1>1, <1>5 DEF SaveAssetStrategySettings
  <2>2. \A v \in Writers : writers'[v].pc # "loaded"
    BY <2>1 DEF SavesTakeTurns, Idle
  <2>3. QED BY <2>2 DEF PreviousCurrent
<1>6. QED BY <1>2, <1>3, <1>4, <1>5
     DEF Next, vars, NewCandle, NewQuote, SavePortfolio, EvaluateStrategyAtomically,
         ResolveStrategyRecommendation

\* A save that knows the current selection hands the campaign over.
LEMMA SaveKeepsMilestones ==
  ASSUME IInv, PreviousCurrent, NEW w \in Writers, SaveAssetStrategySettings(w),
         states[settings.selected].positionOpen
  PROVE  LET before == states[settings.selected]
             after  == states'[settings'.selected]
         IN  /\ after.positionOpen
             /\ before.profitTaken => after.profitTaken
             /\ before.drawdowns \subseteq after.drawdowns
<1> DEFINE p == settings.selected
           s == writers[w].target.selected
<1>1. /\ settings'.selected = s /\ writers[w].previous = p
      /\ states' = SwitchedStates(p, s)
  BY DEF SaveAssetStrategySettings, PreviousCurrent
<1>2. writers[w].target \in Settings
  BY DEF IInv, TypeOK, Requests, Idle, SaveAssetStrategySettings
<1>3. s \in Strategies /\ states \in [Strategies -> PersistedStates]
  BY <1>2 DEF IInv, TypeOK, Settings
<1>4. CASE p = s
  BY <1>1, <1>4 DEF SwitchedStates
<1>5. CASE p # s
  <2> DEFINE carried == CarryOpenCampaignExitState(states[p], states[s])
  <2>1. states'[s] = carried
    BY <1>1, <1>3, <1>5 DEF SwitchedStates
  <2>2. /\ carried.positionOpen /\ carried.profitTaken = states[p].profitTaken
        /\ carried.drawdowns = states[p].drawdowns
    BY <1>3 DEF CarryOpenCampaignExitState, PersistedStates
  <2> HIDE DEF carried
  <2>3. QED BY <1>1, <2>1, <2>2
<1>6. QED BY <1>4, <1>5

\* As long as settings saves take turns, none of them forgets a milestone of
\* the open campaign, whatever it selects.  Two that overlap can: the run
\* find_stale_switch shows it.
THEOREM MilestonesKept == Spec /\ []SavesTakeTurns => MilestonesSurviveSwitch
<1> DEFINE Kept == \A w \in Writers : SaveAssetStrategySettings(w) =>
                     LET before == states[settings.selected]
                         after  == states'[settings'.selected]
                     IN before.positionOpen =>
                          /\ after.positionOpen
                          /\ before.profitTaken => after.profitTaken
                          /\ before.drawdowns \subseteq after.drawdowns
<1>1. Init => PreviousCurrent
  BY DEF Init, Idle, PreviousCurrent
<1>2. IInv /\ SavesTakeTurns /\ PreviousCurrent /\ [Next]_vars => PreviousCurrent'
  BY PreviousStaysCurrent
<1>3. IInv /\ PreviousCurrent => Kept
  BY SaveKeepsMilestones
<1>4. QED BY <1>1, <1>2, <1>3, Invariance, PTL DEF Spec, MilestonesSurviveSwitch

-----------------------------------------------------------------------------
(***************************************************************************)
(* The levels an acknowledged drawdown sale consumes.                      *)
(***************************************************************************)
\* The settings form is not saved while a drawdown sale waits for its answer.
\* The code accepts such a save, and then measures with the new profile: this
\* too is a condition on the use of the program.
AnsweredBeforeSave ==
  (\E r \in pending : r.action = "SELL_DRAWDOWN") =>
    ~ \E w \in Writers : SaveAssetStrategySettings(w)

\* What a pending drawdown sale was measured with has not changed since: its
\* strategy still has the high-water mark and the thresholds that gave its
\* level.
PendingMeasured ==
  \A r \in pending : r.action = "SELL_DRAWDOWN" =>
    LET high == states[r.strategy].highestPrice IN
    /\ high > 0
    /\ Deepest(Crossed(settings.config[r.strategy], high, r.price)) = r.level

\* A new recommendation is measured with the state it is saved with; those of
\* other strategies keep theirs.
LEMMA EvaluateFromMeasured ==
  ASSUME IInv, PendingMeasured, NEW st \in PersistedStates, Sound(settings.selected, st),
         NEW kept \in SUBSET pending,
         \A r \in kept : r.strategy # settings.selected,
         EvaluateFrom(st, kept), UNCHANGED settings
  PROVE  PendingMeasured'
<1> DEFINE d == Decision(st)
           s == settings.selected
<1>1. /\ s \in Strategies /\ market \in Markets /\ market.close > 0
      /\ states \in [Strategies -> PersistedStates]
  BY DEF IInv, TypeOK, Settings
<1>2. MeasuredSale(settings.config[s], d)
  BY <1>1, EvaluationMeasured DEF Decision
<1>3. /\ states' = [states EXCEPT ![s] = d.next]
      /\ \A r \in pending' \ kept :
           r.strategy = s /\ r.action = d.action /\ r.price = d.price /\ r.level = d.level
  BY DEF EvaluateFrom, CreatePendingRecommendation
<1> HIDE DEF d
<1> SUFFICES ASSUME NEW r \in pending', r.action = "SELL_DRAWDOWN"
             PROVE  LET high == states'[r.strategy].highestPrice IN
                    /\ high > 0
                    /\ Deepest(Crossed(settings.config[r.strategy], high, r.price)) = r.level
  BY DEF PendingMeasured
<1>4. CASE r \in kept
  <2>1. r \in pending /\ r.strategy # s /\ r.strategy \in Strategies
    BY <1>4 DEF IInv, TypeOK, Recommendations
  <2>2. states'[r.strategy] = states[r.strategy]
    BY <1>1, <1>3, <2>1
  <2>3. QED BY <2>1, <2>2 DEF PendingMeasured
<1>5. CASE r \notin kept
  <2>1. /\ r.strategy = s /\ r.action = d.action /\ r.price = d.price /\ r.level = d.level
        /\ states'[s] = d.next
    BY <1>1, <1>3, <1>5
  <2>2. QED BY <1>2, <2>1 DEF MeasuredSale
<1>6. QED BY <1>4, <1>5

LEMMA EvaluateMeasured ==
  ASSUME IInv, PendingMeasured, EvaluateStrategyAtomically
  PROVE  PendingMeasured'
<1> DEFINE s == settings.selected
           found == PendingFor(s)
           kept  == pending \ {Newest(found)}
<1>1. /\ s \in Strategies /\ states[s] \in PersistedStates /\ Sound(s, states[s])
      /\ market.day \in Nat /\ settings' = settings
  BY DEF IInv, TypeOK, Settings, Markets, EvaluateStrategyAtomically
<1>2. CASE found = {} /\ EvaluateFrom(states[s], pending)
  <2>1. pending \in SUBSET pending /\ \A r \in pending : r.strategy # s
    BY <1>2 DEF PendingFor
  <2>2. QED BY <1>1, <1>2, <2>1, EvaluateFromMeasured
<1>3. CASE found # {} /\ EvaluateFrom(ResetForReentry(market.day), kept)
  <2>1. PICK q \in found : TRUE
    BY <1>3
  <2>2. found = {q} /\ q.id \in Nat
    BY <2>1 DEF IInv, PendingSound, OnePendingPerStrategy, PendingFor, TypeOK, Recommendations
  <2>3. Newest(found) = q
    BY <2>2 DEF Newest
  <2>4. kept \in SUBSET pending /\ \A r \in kept : r.strategy # s
    BY <2>2, <2>3 DEF PendingFor
  <2>5. /\ ResetForReentry(market.day) \in PersistedStates
        /\ Sound(s, ResetForReentry(market.day))
    BY <1>1, FreshSound
  <2> HIDE DEF kept
  <2>6. QED BY <1>1, <1>3, <2>4, <2>5, EvaluateFromMeasured
<1>4. CASE UNCHANGED <<states, pending>>
  BY <1>1, <1>4 DEF PendingMeasured
<1>5. QED BY <1>2, <1>3, <1>4 DEF EvaluateStrategyAtomically

\* The answer to one recommendation touches the state of its own strategy,
\* which then has no other pending.
LEMMA ResolveMeasured ==
  ASSUME IInv, PendingMeasured, NEW q \in pending, NEW status,
         ResolveStrategyRecommendation(q, status)
  PROVE  PendingMeasured'
<1>1. /\ pending' = pending \ {q} /\ settings' = settings
      /\ states' = states \/ states' = [states EXCEPT ![q.strategy] = Executed(q)]
  BY DEF ResolveStrategyRecommendation
<1>2. states \in [Strategies -> PersistedStates]
  BY DEF IInv, TypeOK
<1>3. ASSUME NEW r \in pending'
      PROVE  r \in pending /\ states'[r.strategy] = states[r.strategy]
  <2>1. r \in pending /\ r # q /\ r.strategy \in Strategies
    BY <1>1 DEF IInv, TypeOK, Recommendations
  <2>2. r.strategy # q.strategy
    BY <2>1 DEF IInv, PendingSound, OnePendingPerStrategy
  <2>3. QED BY <1>1, <1>2, <2>1, <2>2
<1>4. QED BY <1>1, <1>3 DEF PendingMeasured

LEMMA NextMeasured ==
  ASSUME IInv, PendingMeasured, [Next]_vars, AnsweredBeforeSave
  PROVE  PendingMeasured'
<1>1. CASE EvaluateStrategyAtomically
  BY <1>1, EvaluateMeasured
<1>2. ASSUME NEW q \in pending, NEW status, ResolveStrategyRecommendation(q, status)
      PROVE  PendingMeasured'
  BY <1>2, ResolveMeasured
<1>3. ASSUME NEW w \in Writers, SaveAssetStrategySettings(w)
      PROVE  PendingMeasured'
  <2>1. pending' = pending /\ \A r \in pending : r.action # "SELL_DRAWDOWN"
    BY <1>3 DEF SaveAssetStrategySettings, AnsweredBeforeSave
  <2>2. QED BY <2>1 DEF PendingMeasured
<1>4. CASE UNCHANGED <<settings, states, pending>>
  BY <1>4 DEF PendingMeasured
<1>5. QED BY <1>1, <1>2, <1>3, <1>4
      DEF Next, vars, NewCandle, NewQuote, SavePortfolio, SaveStrategyConfig, LoadPrevious

\* As long as no settings are saved while a drawdown sale waits, its answer
\* consumes exactly the levels of the recommendation, although the code
\* measures them again: what it measures with has not moved meanwhile, and
\* levels that were already consumed do not hide the one that was advised.
THEOREM ExactlyConsumed ==
  Spec /\ [][AnsweredBeforeSave]_vars => ExecutedConsumesExactly
<1> DEFINE Exact == \A r \in pending :
                      /\ r.action = "SELL_DRAWDOWN" /\ r.pct < 100
                      /\ ResolveStrategyRecommendation(r, "EXECUTED")
                      => states'[r.strategy].drawdowns =
                           states[r.strategy].drawdowns \union 1..r.level
<1>1. Init => PendingMeasured
  BY DEF Init, PendingMeasured
<1>2. /\ IInv /\ PendingMeasured
      /\ [Next]_vars /\ [AnsweredBeforeSave]_vars
      => PendingMeasured'
  <2>1. CASE UNCHANGED vars
    BY <2>1 DEF vars, PendingMeasured
  <2>2. QED BY <2>1, NextMeasured
<1>3. ASSUME IInv, PendingMeasured PROVE Exact
  <2> SUFFICES ASSUME NEW r \in pending, r.action = "SELL_DRAWDOWN", r.pct < 100,
                      ResolveStrategyRecommendation(r, "EXECUTED")
               PROVE  states'[r.strategy].drawdowns =
                        states[r.strategy].drawdowns \union 1..r.level
    OBVIOUS
  <2> DEFINE s  == r.strategy
             st == states[s]
  <2>1. s \in Strategies /\ st \in PersistedStates /\ r.pct \in Nat
        /\ states \in [Strategies -> PersistedStates]
    BY <1>3 DEF IInv, TypeOK, Recommendations
  <2>2. states'[s] = Executed(r)
    BY <2>1 DEF ResolveStrategyRecommendation
  <2>3. /\ st.highestPrice # 0
        /\ Deepest(Crossed(settings.config[s], st.highestPrice, r.price)) = r.level
    BY <1>3, <2>1 DEF PendingMeasured, PersistedStates
  <2>4. Executed(r) = MarkDrawdownTriggered(st, r.level)
    <3>1. ~(r.pct >= 100)
      BY <2>1
    <3>2. QED BY <2>3, <3>1 DEF Executed, MarkExecutedDrawdown
  <2>5. QED BY <2>1, <2>2, <2>4 DEF MarkDrawdownTriggered, PersistedStates
<1>4. QED BY <1>1, <1>2, <1>3, Invariance, PTL DEF Spec, ExecutedConsumesExactly

-----------------------------------------------------------------------------
(***************************************************************************)
(* The refinement: the rows implement the life of a recommendation.        *)
(***************************************************************************)
AbstractOf(recs) == {Abstract(r) : r \in recs}

LEMMA AbstractTyped ==
  ASSUME NEW r \in Recommendations
  PROVE  /\ Abstract(r) \in Life!Recommendations
         /\ Abstract(r).strategy = r.strategy /\ Abstract(r).kind = Kind(r)
         /\ Abstract(r).id = r.id
  BY DEF Abstract, Kind, Recommendations, Life!Recommendations, Life!Kinds

\* Two waiting recommendations do not look the same to the abstract one, so
\* removing a row removes exactly what it stands for.
LEMMA AbstractRemoved ==
  ASSUME IInv, NEW r \in pending
  PROVE  AbstractOf(pending \ {r}) = AbstractOf(pending) \ {Abstract(r)}
<1>1. \A q \in pending : Abstract(q) = Abstract(r) => q = r
  <2> SUFFICES ASSUME NEW q \in pending, Abstract(q) = Abstract(r) PROVE q = r
    OBVIOUS
  <2>1. q.strategy = r.strategy
    BY AbstractTyped DEF IInv, TypeOK
  <2>2. QED BY <2>1 DEF IInv, PendingSound, OnePendingPerStrategy
<1>2. QED BY <1>1 DEF AbstractOf

\* An evaluation whose other recommendations are kept advises or withdraws.
LEMMA EvaluateFromLife ==
  ASSUME IInv, NEW st \in PersistedStates, Sound(settings.selected, st),
         NEW kept \in SUBSET pending, EvaluateFrom(st, kept),
         Life!Withdrawable(settings.selected),
         AbstractOf(kept) = AbstractOf(pending) \ Life!WaitingFor(settings.selected)
  PROVE  Life!LifeNext
<1> DEFINE s == settings.selected
           d == Decision(st)
<1>1. s \in Strategies /\ SoundOutcome(s, d)
  BY DecisionSound DEF IInv, TypeOK, Settings
<1>2. CASE pending' = kept /\ UNCHANGED nextId
  <2>1. AbstractOf(pending') = AbstractOf(pending) \ Life!WaitingFor(s)
    BY <1>2
  <2>2. Life!Withdraw(s)
    BY <1>2, <2>1 DEF Life!Withdraw, AbstractOf
  <2>3. QED BY <1>1, <2>2 DEF Life!LifeNext
<1>3. CASE CreatePendingRecommendation(d, kept)
  <2> DEFINE new == [id |-> nextId, strategy |-> s, action |-> d.action, pct |-> d.pct,
                     price |-> d.price, level |-> d.level, ath |-> d.ath,
                     fingerprint |-> Fingerprint]
  <2>1. pending' = kept \union {new} /\ nextId' = nextId + 1
    BY <1>3 DEF CreatePendingRecommendation
  <2>2. AbstractOf(pending') = AbstractOf(kept) \union {Abstract(new)}
    BY <2>1 DEF AbstractOf
  <2>3. Abstract(new) = [id |-> nextId, strategy |-> s, kind |-> Kind(new)]
    BY DEF Abstract
  <2>4. Kind(new) \in Life!Kinds
    BY DEF Kind, Life!Kinds
  <2> HIDE DEF new, d
  <2>5. Life!Advise(s, Kind(new))
    BY <2>1, <2>2, <2>3 DEF Life!Advise, AbstractOf
  <2>6. QED BY <1>1, <2>4, <2>5 DEF Life!LifeNext
<1>4. QED BY <1>2, <1>3 DEF EvaluateFrom

LEMMA EvaluateLife ==
  ASSUME IInv, EvaluateStrategyAtomically
  PROVE  Life!LifeNext \/ UNCHANGED <<pending, nextId>>
<1> DEFINE s     == settings.selected
           found == PendingFor(s)
<1>1. /\ s \in Strategies /\ states[s] \in PersistedStates /\ Sound(s, states[s])
      /\ market.day \in Nat
  BY DEF IInv, TypeOK, Settings, Markets
<1>2. \A a \in Life!WaitingFor(s) : \E r \in found : a = Abstract(r)
  <2> SUFFICES ASSUME NEW r \in pending, Abstract(r).strategy = s PROVE r \in found
    BY DEF Life!WaitingFor
  <2>1. QED BY AbstractTyped DEF IInv, TypeOK, PendingFor
<1>3. CASE found = {} /\ EvaluateFrom(states[s], pending)
  <2>1. Life!WaitingFor(s) = {}
    BY <1>2, <1>3
  <2>2. Life!Withdrawable(s) /\ AbstractOf(pending) = AbstractOf(pending) \ Life!WaitingFor(s)
    BY <2>1 DEF Life!Withdrawable
  <2>3. pending \in SUBSET pending
    OBVIOUS
  <2>4. QED BY <1>1, <1>3, <2>2, <2>3, EvaluateFromLife
<1>4. CASE /\ found # {} /\ StaleHistoricalPeakEntry(Newest(found))
           /\ EvaluateFrom(ResetForReentry(market.day), pending \ {Newest(found)})
  <2>1. PICK q \in found : TRUE
    BY <1>4
  <2>2. found = {q} /\ q.id \in Nat /\ q \in pending /\ q.strategy = s
    BY <2>1 DEF IInv, PendingSound, OnePendingPerStrategy, PendingFor, TypeOK, Recommendations
  <2>3. Newest(found) = q
    BY <2>2 DEF Newest
  <2>4. q.ath
    BY <1>4, <2>3 DEF StaleHistoricalPeakEntry
  <2>5. Abstract(q).strategy = s /\ Abstract(q).kind = "OVERRIDE"
    BY <2>2, <2>4, AbstractTyped DEF Kind, IInv, TypeOK
  <2>6. Life!WaitingFor(s) = {Abstract(q)}
    BY <1>2, <2>2, <2>5 DEF Life!WaitingFor
  <2>7. Life!Withdrawable(s)
    BY <2>5, <2>6 DEF Life!Withdrawable
  <2> DEFINE kept == pending \ {q}
  <2>8. AbstractOf(kept) = AbstractOf(pending) \ Life!WaitingFor(s)
    BY <2>2, <2>6, AbstractRemoved
  <2>9. /\ ResetForReentry(market.day) \in PersistedStates
        /\ Sound(s, ResetForReentry(market.day))
    BY <1>1, FreshSound
  <2>10. EvaluateFrom(ResetForReentry(market.day), kept) /\ kept \in SUBSET pending
    BY <1>4, <2>3
  <2> HIDE DEF kept
  <2>11. QED BY <2>7, <2>8, <2>9, <2>10, EvaluateFromLife
<1>5. CASE UNCHANGED <<states, pending, nextId, events>>
  BY <1>5
<1>6. QED BY <1>3, <1>4, <1>5 DEF EvaluateStrategyAtomically

\* The advisor implements the life of a recommendation: for all prices,
\* configurations and interleavings, a strategy has one recommendation at a
\* time, an answer ends the one it names, and an evaluation withdraws none
\* but a stale historical-peak entry.
THEOREM LifeImplemented == Spec => ImplementsLife
<1>1. Init => Life!LifeInit
  BY DEF Init, Life!LifeInit
<1>2. IInv /\ [Next]_vars => [Life!LifeNext]_(Life!lifeVars)
  <2> SUFFICES ASSUME IInv, [Next]_vars
               PROVE  Life!LifeNext \/ UNCHANGED <<pending, nextId>>
    BY DEF Life!lifeVars
  <2>1. CASE EvaluateStrategyAtomically
    BY <2>1, EvaluateLife
  <2>2. CASE \E r \in pending, status \in {"EXECUTED", "DISMISSED"} :
               ResolveStrategyRecommendation(r, status)
    <3>1. PICK r \in pending, status \in {"EXECUTED", "DISMISSED"} :
            ResolveStrategyRecommendation(r, status)
      BY <2>2
    <3>2. pending' = pending \ {r} /\ UNCHANGED nextId
      BY <3>1 DEF ResolveStrategyRecommendation
    <3>3. AbstractOf(pending') = AbstractOf(pending) \ {Abstract(r)}
      BY <3>2, AbstractRemoved
    <3>4. Abstract(r) \in AbstractOf(pending)
      BY DEF AbstractOf
    <3>5. Life!Answer(Abstract(r))
      BY <3>2, <3>3, <3>4 DEF Life!Answer, AbstractOf
    <3>6. QED BY <3>4, <3>5 DEF Life!LifeNext, AbstractOf
  <2>3. CASE UNCHANGED <<pending, nextId>>
    BY <2>3
  <2>4. QED BY <2>1, <2>2, <2>3
        DEF Next, vars, NewCandle, NewQuote, SavePortfolio, SaveStrategyConfig,
            LoadPrevious, SaveAssetStrategySettings
<1>3. QED BY <1>1, <1>2, Invariance, PTL DEF Spec, ImplementsLife, Life!LifeSpec
=============================================================================
