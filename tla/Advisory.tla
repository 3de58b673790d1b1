------------------------------ MODULE Advisory ------------------------------
(***************************************************************************)
(* The live advisor of one asset: the SQLite rows it keeps (settings, one  *)
(* state per strategy, the manual position, the pending recommendations    *)
(* and the History events) and the requests that change them.  The two     *)
(* assets share no row but the cash balance, which no rule reads.          *)
(*                                                                         *)
(* EvaluateStrategyAtomically and ResolveStrategyRecommendation are one    *)
(* transaction each: a write that interleaves makes SQLite refuse the      *)
(* transaction, which changes nothing.  SaveAssetStrategySettings reads    *)
(* the previous selection before its transaction begins, and the legacy    *)
(* SaveStrategyConfig reads all the settings before that, so those two     *)
(* take several steps of a writer.                                         *)
(***************************************************************************)
EXTENDS MarketFacts

CONSTANTS
  Closes,       \* prices a completed candle may have
  Quotes,       \* prices an intraday snapshot may have
  Averages,     \* average entry prices the user may type (0: none given)
  Peaks,        \* historical-peak averages (0: none known)
  Profiles,     \* strategy configurations the user may save
  Rules,        \* historical-peak override settings the user may save
  Writers,      \* concurrent settings requests
  StartDay,     \* day of the latest candle when the model starts
  MaxDay,       \* bound: the last day modelled
  MaxRecs       \* bound: the recommendations created in a behaviour

ASSUME AdvisoryAssumptions ==
  /\ Closes \subseteq Nat \ {0} /\ Closes # {}
  /\ Quotes \subseteq Nat \ {0}
  /\ Averages \subseteq Nat /\ Averages # {}
  /\ Peaks \subseteq Nat /\ Peaks # {}
  /\ Profiles # {} /\ \A c \in Profiles : ValidConfig(c)
  /\ Rules # {}
  /\ \A r \in Rules : r.enabled \in BOOLEAN /\ r.threshold \in Percent
  /\ StartDay \in Nat /\ MaxDay \in Nat /\ MaxRecs \in Nat

VARIABLES
  market,      \* what the stored daily candles show
  quote,       \* the newest intraday snapshot, 0 when there is none
  position,    \* the portfolio row
  settings,    \* the asset_strategy_settings row
  states,      \* strategy_states_v2, an absent row reading as FreshState
  pending,     \* strategy_recommendations with status PENDING
  nextId,      \* the id the next recommendation gets
  events,      \* strategy_events
  writers      \* the settings requests in progress

vars == <<market, quote, position, settings, states, pending, nextId, events,
          writers>>

Settings == [selected : Strategies, config : [Strategies -> Profiles],
             override : Rules]

Fingerprints == [strategy : Strategies, config : Profiles, override : Rules]

Recommendations ==
  [id : Nat, strategy : Strategies, action : Actions, pct : Nat, price : Nat,
   level : 0..3, ath : BOOLEAN, fingerprint : Fingerprints]

Events == [strategy : Strategies, day : Nat, action : Actions, ath : BOOLEAN,
           state : AdvisoryStates, pct : Nat, price : Nat]

\* A settings request in progress: a legacy single-profile save that has
\* merged its profile into the settings it read, or a save that has read the
\* previous selection and is about to begin its transaction.
Idle     == [pc |-> "idle"]
Requests == {Idle} \union
            [pc : {"merged"}, target : Settings] \union
            [pc : {"loaded"}, target : Settings, previous : Strategies]

TypeOK ==
  /\ market \in Markets
  /\ quote \in Nat
  /\ position \in Positions
  /\ settings \in Settings
  /\ states \in [Strategies -> PersistedStates]
  /\ pending \subseteq Recommendations
  /\ nextId \in Nat
  /\ events \subseteq Events
  /\ writers \in [Writers -> Requests]

-----------------------------------------------------------------------------
NoPosition == [held |-> FALSE, avg |-> 0]

UserPositions == {NoPosition} \union [held : {TRUE}, avg : Averages]

Init ==
  /\ market \in FirstFacts(StartDay, Closes, Peaks)
  /\ quote = 0
  /\ position = NoPosition
  /\ settings \in Settings
  /\ states = [s \in Strategies |-> FreshState]
  /\ pending = {} /\ nextId = 1 /\ events = {}
  /\ writers = [w \in Writers |-> Idle]

-----------------------------------------------------------------------------
(***************************************************************************)
(* The environment: the market refresh and the user's portfolio form.      *)
(***************************************************************************)
\* A completed daily candle is stored.
NewCandle(close, peak) ==
  /\ market.day < MaxDay
  /\ market' \in NextFacts(market, close, peak)
  /\ UNCHANGED <<quote, position, settings, states, pending, nextId, events, writers>>

\* SaveCurrentPrice stores an intraday snapshot.
NewQuote(price) ==
  /\ quote' = price
  /\ UNCHANGED <<market, position, settings, states, pending, nextId, events, writers>>

\* SavePortfolio overwrites the row; it evaluates nothing.
SavePortfolio(pos) ==
  /\ position' = pos
  /\ UNCHANGED <<market, quote, settings, states, pending, nextId, events, writers>>

-----------------------------------------------------------------------------
(***************************************************************************)
(* Evaluation.                                                             *)
(***************************************************************************)
\* Fault: only sales are looked up.
PendingSalesFor(s) == {r \in pending : r.strategy = s /\ r.action \in Sells}

PendingFor(s) == {r \in pending : r.strategy = s}

Newest(recs) == CHOOSE r \in recs : \A q \in recs : q.id <= r.id

\* A digest of the saved configuration of an override entry; the reference
\* average is left out of it.
Fingerprint == [strategy |-> settings.selected,
                config   |-> settings.config[settings.selected],
                override |-> settings.override]

\* Fault: any recommendation of a flat position may be stale.
StaleRecommendation(r) ==
  /\ market.day > 0
  /\ ~position.held
  /\ \/ ~settings.override.enabled \/ market.peak = 0
     \/ r.fingerprint # Fingerprint
     \/ r.price * 100 > market.peak * settings.override.threshold

StaleHistoricalPeakEntry(r) ==
  /\ market.day > 0
  /\ ~position.held
  /\ r.ath
  /\ \/ ~settings.override.enabled \/ market.peak = 0
     \/ r.fingerprint # Fingerprint
     \/ r.price * 100 > market.peak * settings.override.threshold

Decision(st) ==
  EvaluateWithIntradayPrice(settings.selected, settings.config[settings.selected],
                            settings.override, market, position, st, quote)

\* The INSERT of the event does nothing when its key is already there.
AppendStrategyEvent(d) ==
  LET event == [strategy |-> settings.selected, day |-> market.day,
                action |-> d.action, ath |-> d.ath, state |-> d.next.state,
                pct |-> d.pct, price |-> d.price]
      sameKey(e) == [e EXCEPT !.price = d.price] = event
  IN  events' = IF \E e \in events : sameKey(e) THEN events ELSE events \union {event}

CreatePendingRecommendation(d, kept) ==
  /\ pending' = kept \union
       {[id |-> nextId, strategy |-> settings.selected, action |-> d.action,
         pct |-> d.pct, price |-> d.price, level |-> d.level, ath |-> d.ath,
         fingerprint |-> Fingerprint]}
  /\ nextId' = nextId + 1

\* Evaluates from st with the recommendations kept, and saves what results.
EvaluateFrom(st, kept) ==
  LET d == Decision(st) IN
  /\ states' = [states EXCEPT ![settings.selected] = d.next]
  /\ \/ /\ d.action \in {"BUY"} \union Sells
        /\ nextId <= MaxRecs
        /\ AppendStrategyEvent(d)
        /\ CreatePendingRecommendation(d, kept)
     \/ /\ d.action \in {"HOLD", "WAIT"}
        /\ pending' = kept
        /\ UNCHANGED <<nextId, events>>

EvaluateStrategyAtomically ==
  LET found == PendingFor(settings.selected) IN
  /\ \/ /\ found = {}
        /\ EvaluateFrom(states[settings.selected], pending)
     \/ /\ found # {} /\ StaleHistoricalPeakEntry(Newest(found))
        /\ EvaluateFrom(ResetForReentry(market.day), pending \ {Newest(found)})
     \/ /\ found # {} /\ ~StaleHistoricalPeakEntry(Newest(found))
        /\ UNCHANGED <<states, pending, nextId, events>>
  /\ UNCHANGED <<market, quote, position, settings, writers>>

-----------------------------------------------------------------------------
(***************************************************************************)
(* Resolution by the user.                                                 *)
(***************************************************************************)
\* Fault: every level is consumed.
MarkAllLevels(st, c, price) ==
  IF st.highestPrice = 0 THEN st ELSE MarkDrawdownTriggered(st, 3)

\* The drawdown levels the price crosses under the configuration and the
\* high-water mark of the moment of resolution, shallower ones included.
MarkExecutedDrawdown(st, c, price) ==
  IF st.highestPrice = 0 THEN st
  ELSE MarkDrawdownTriggered(st, Deepest(Crossed(c, st.highestPrice, price)))

Executed(r) ==
  LET st == states[r.strategy] IN
  IF r.pct >= 100 THEN ResetForReentry(market.day + 1)   \* time.Now()
  ELSE IF r.action = "SELL_PROFIT" THEN [st EXCEPT !.profitTaken = TRUE]
  ELSE IF r.action = "SELL_DRAWDOWN"
       THEN MarkExecutedDrawdown(st, settings.config[r.strategy], r.price)
  ELSE st

ResolveStrategyRecommendation(r, status) ==
  /\ r \in pending
  /\ states' = IF status = "EXECUTED"
               THEN [states EXCEPT ![r.strategy] = Executed(r)] ELSE states
  /\ pending' = pending \ {r}
  /\ UNCHANGED <<market, quote, position, settings, nextId, events, writers>>

-----------------------------------------------------------------------------
(***************************************************************************)
(* Settings.                                                               *)
(***************************************************************************)
\* Faults: a field of the campaign is not carried, or an old one is kept.
CarryWithoutHigh(source, target) ==
  [target EXCEPT !.positionOpen = TRUE, !.entryStep = 0, !.firstEntryRef = 0,
                 !.lastDipEntryAt = 0, !.profitTaken = source.profitTaken,
                 !.drawdowns = source.drawdowns,
                 !.state = IF source.profitTaken THEN "PROFIT_PROTECTION"
                                                 ELSE "PARTIAL_POSITION"]
CarryWithoutProfit(source, target) ==
  [target EXCEPT !.positionOpen = TRUE, !.entryStep = 0, !.firstEntryRef = 0,
                 !.lastDipEntryAt = 0, !.highestPrice = source.highestPrice,
                 !.drawdowns = source.drawdowns,
                 !.state = IF target.profitTaken THEN "PROFIT_PROTECTION"
                                                 ELSE "PARTIAL_POSITION"]
CarryKeepingEntryStep(source, target) ==
  [target EXCEPT !.positionOpen = TRUE, !.firstEntryRef = 0,
                 !.lastDipEntryAt = 0, !.highestPrice = source.highestPrice,
                 !.profitTaken = source.profitTaken, !.drawdowns = source.drawdowns,
                 !.state = IF source.profitTaken THEN "PROFIT_PROTECTION"
                                                 ELSE "PARTIAL_POSITION"]

\* Only the exit phase of an open campaign moves to the new ruleset.
CarryOpenCampaignExitState(source, target) ==
  [target EXCEPT !.positionOpen = TRUE, !.entryStep = 0, !.firstEntryRef = 0,
                 !.lastDipEntryAt = 0, !.highestPrice = source.highestPrice,
                 !.profitTaken = source.profitTaken, !.drawdowns = source.drawdowns,
                 !.state = IF source.profitTaken THEN "PROFIT_PROTECTION"
                                                 ELSE "PARTIAL_POSITION"]

SwitchedStates(previous, selected) ==
  IF previous = selected THEN states
  ELSE [states EXCEPT ![selected] =
          IF states[previous].positionOpen
          THEN CarryOpenCampaignExitState(states[previous], states[selected])
          ELSE FreshState]

\* SaveStrategyConfig merges one profile into the settings it reads.
SaveStrategyConfig(w, s, profile) ==
  /\ writers[w].pc = "idle"
  /\ writers' = [writers EXCEPT ![w] =
                   [pc |-> "merged", target |-> [settings EXCEPT !.config[s] = profile]]]
  /\ UNCHANGED <<market, quote, position, settings, states, pending, nextId, events>>

\* SaveAssetStrategySettings up to the read of the previous selection.
LoadPrevious(w, target) ==
  /\ \/ writers[w].pc = "idle"
     \/ writers[w].pc = "merged" /\ target = writers[w].target
  /\ writers' = [writers EXCEPT ![w] = [pc |-> "loaded", target |-> target,
                                        previous |-> settings.selected]]
  /\ UNCHANGED <<market, quote, position, settings, states, pending, nextId, events>>

\* Its transaction.
SaveAssetStrategySettings(w) ==
  /\ writers[w].pc = "loaded"
  /\ settings' = writers[w].target
  /\ states' = SwitchedStates(writers[w].previous, writers[w].target.selected)
  /\ writers' = [writers EXCEPT ![w] = Idle]
  /\ UNCHANGED <<market, quote, position, pending, nextId, events>>

-----------------------------------------------------------------------------
Next ==
  \/ \E close \in Closes, peak \in Peaks : NewCandle(close, peak)
  \/ \E price \in Quotes : NewQuote(price)
  \/ \E pos \in UserPositions : SavePortfolio(pos)
  \/ EvaluateStrategyAtomically
  \/ \E r \in pending, status \in {"EXECUTED", "DISMISSED"} :
       ResolveStrategyRecommendation(r, status)
  \/ \E w \in Writers, s \in Strategies, profile \in Profiles :
       SaveStrategyConfig(w, s, profile)
  \/ \E w \in Writers, target \in Settings : LoadPrevious(w, target)
  \/ \E w \in Writers : SaveAssetStrategySettings(w)

Spec == Init /\ [][Next]_vars

-----------------------------------------------------------------------------
(***************************************************************************)
(* The abstract life of a recommendation that this module implements.      *)
(***************************************************************************)
Kind(r) == IF r.ath THEN "OVERRIDE" ELSE IF r.action \in Sells THEN "SALE" ELSE "ENTRY"

Abstract(r) == [id |-> r.id, strategy |-> r.strategy, kind |-> Kind(r)]

Life == INSTANCE RecommendationLife WITH
          open <- {Abstract(r) : r \in pending}, nextId <- nextId,
          Strategies <- Strategies

\* However evaluations, answers and strategy switches interleave, a strategy
\* has one recommendation at a time, an answer ends exactly the one it names,
\* and an evaluation withdraws none but a stale historical-peak entry.
ImplementsLife == Life!LifeSpec

-----------------------------------------------------------------------------
(***************************************************************************)
(* What must hold.                                                         *)
(***************************************************************************)
Created == pending' \ pending

\* A strategy never has two recommendations waiting for an answer, however
\* evaluations, answers and strategy switches interleave: the pending row is
\* looked up and the new one inserted in the same transaction.
OnePendingPerStrategy ==
  \A r, q \in pending : r.strategy = q.strategy => r = q

\* "Re-entry must not reuse a breakout that preceded the exit": whatever
\* resets a cycle, the correction it is anchored to later began after it.
ReentryNeedsNewCorrection ==
  \A s \in Strategies :
    states[s].correctionHighAt # 0 => states[s].correctionHighAt > states[s].reentryAfter

\* Dip Accumulation's entries are measured from a known first entry.  A state
\* without it could not be saved (saveStrategyState refuses it), so no
\* evaluation would ever succeed again.
DipReferenceKnown ==
  states[DipAccumulation].entryStep > 0 => states[DipAccumulation].firstEntryRef > 0

\* A consumed drawdown level has consumed every shallower one, so a gap never
\* leaves a delayed, out-of-order sale behind.
DrawdownsNested ==
  \A s \in Strategies : \A k \in states[s].drawdowns : 1..k \subseteq states[s].drawdowns

\* Consumed levels belong to a campaign that is open and has a high-water
\* mark: none leaks through a reset, a switch or a late answer into the next.
DrawdownsBelongToCampaign ==
  \A s \in Strategies :
    states[s].drawdowns # {} => states[s].positionOpen /\ states[s].highestPrice > 0

\* "Exit recommendations remain explicit user decisions and are never removed
\* automatically": only the user's answer ends a pending sale.
ExitsNeverAutoDismissed ==
  [][\A r \in pending : r.action \in Sells /\ r \notin pending' =>
       \E status \in {"EXECUTED", "DISMISSED"} :
         ResolveStrategyRecommendation(r, status)]_vars

\* A sale is advised only for a position the user holds, a later dip entry
\* only on top of one, and an override entry only without one.
AdviceFitsPosition ==
  [][\A r \in Created :
       /\ r.action \in Sells => position.held
       /\ r.ath => ~position.held
       /\ r.strategy = DipAccumulation /\ states'[r.strategy].entryStep > 1
            /\ r.action = "BUY" => position.held]_vars

\* "profit and drawdown milestones must not be forgotten merely by changing
\* UI selection": whatever a settings save selects, the milestones of the
\* open campaign are those of the strategy then selected.
MilestonesSurviveSwitch ==
  [][\A w \in Writers : SaveAssetStrategySettings(w) =>
         LET before == states[settings.selected]
             after  == states'[settings'.selected]
         IN before.positionOpen =>
              /\ after.positionOpen
              /\ before.profitTaken => after.profitTaken
              /\ before.drawdowns \subseteq after.drawdowns]_vars

\* An acknowledged drawdown sale "consumes exactly the levels crossed by the
\* resolved sell".
ExecutedConsumesExactly ==
  [][\A r \in pending :
       /\ r.action = "SELL_DRAWDOWN" /\ r.pct < 100
       /\ ResolveStrategyRecommendation(r, "EXECUTED")
       => states'[r.strategy].drawdowns =
            states[r.strategy].drawdowns \union 1..r.level]_vars
=============================================================================
