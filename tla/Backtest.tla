------------------------------ MODULE Backtest ------------------------------
(***************************************************************************)
(* The historical simulator (backend/internal/backtest): one run over the  *)
(* candles of a range.  Each candle first fills the order of the previous  *)
(* close at its open, then is evaluated at its close by the rule engine,   *)
(* whose advice becomes the next order.  The candles come in one at a      *)
(* time, so that nothing can look ahead.                                   *)
(*                                                                         *)
(* Amounts are integers: quantities in lots, cash in price units per lot,  *)
(* so a division that the code makes in floating point rounds down to one  *)
(* unit here, and what the code calls at most epsilon is 0.  Fees and      *)
(* slippage are whole percents of the request's basis points.              *)
(***************************************************************************)
EXTENDS MarketFacts, Sequences, FiniteSetsExt

CONSTANTS
  Opens, Closes,  \* prices of a candle of the range
  Peaks,          \* historical-peak averages
  Profiles,       \* strategy configurations of the request
  Rules,          \* historical-peak override of the request
  Fees, Slippages,\* percentages of the request
  StartingCash,
  FirstDay,       \* the first candle of the range, after the warm-up
  LastDay         \* the last candle of the range

ASSUME BacktestAssumptions ==
  /\ Opens \subseteq Nat \ {0} /\ Closes \subseteq Nat \ {0} /\ Peaks \subseteq Nat
  /\ \A c \in Profiles : ValidConfig(c)
  /\ \A r \in Rules : r.enabled \in BOOLEAN /\ r.threshold \in Percent
  /\ Fees \subseteq Nat /\ Slippages \subseteq Nat
  /\ StartingCash \in Nat \ {0}
  /\ FirstDay \in Nat \ {0} /\ LastDay \in Nat /\ FirstDay <= LastDay

VARIABLES
  request,   \* the validated request
  pc,        \* "close", "open" or "done": what the loop does next
  market,    \* the facts of the candles before the next close
  account,   \* cash, cycle budget, quantity, its cost and average price
  state,     \* the strategy state of the simulation
  order,     \* the pending order
  signals, trades   \* the result so far

vars == <<request, pc, market, account, state, order, signals, trades>>

Requests == [strategy : Strategies, config : Profiles, rule : Rules,
             fee : Fees, slippage : Slippages]

NoOrder == [signal |-> 0]

Statuses == {"NO_ORDER", "PENDING", "EXECUTED", "REJECTED_INSUFFICIENT_CASH",
             "REJECTED_INSUFFICIENT_QUANTITY", "REJECTED_BREAK_EVEN_FLOOR",
             "UNEXECUTED_END_OF_DATA"}

TypeOK ==
  /\ request \in Requests /\ pc \in {"close", "open", "done"}
  /\ market \in Markets
  /\ account \in [cash : Int, budget : Nat, qty : Nat, cost : Nat, avg : Nat]
  /\ state \in PersistedStates
  /\ order # NoOrder => order.signal = Len(signals) /\ order.prior \in PersistedStates
  /\ \A i \in 1..Len(signals) :
       signals[i].action \in Actions /\ signals[i].status \in Statuses
  /\ \A k \in 1..Len(trades) : trades[k].signal \in 1..Len(signals)

Init ==
  /\ request \in Requests
  /\ pc = "close"
  /\ market \in FirstFacts(FirstDay - 1, Closes, Peaks)
  /\ account = [cash |-> StartingCash, budget |-> StartingCash, qty |-> 0,
                cost |-> 0, avg |-> 0]
  /\ state = FreshState
  /\ order = NoOrder
  /\ signals = <<>> /\ trades = <<>>

-----------------------------------------------------------------------------
(***************************************************************************)
(* Execution of an order at the next open.                                 *)
(***************************************************************************)
SmallerOf(a, b) == IF a <= b THEN a ELSE b

\* The part of amount that falls to part of whole, without a large product.
Share(amount, part, whole) ==
  (amount \div whole) * part + ((amount % whole) * part) \div whole

NoFill(status) == [status |-> status, qty |-> 0, gross |-> 0, fee |-> 0]

Filled(qty, gross, feePct) ==
  [status |-> "EXECUTED", qty |-> qty, gross |-> gross,
   fee |-> (gross * feePct) \div 100]

\* Fixed at the first buy of a position cycle.
CycleBudget(a) == IF a.qty = 0 THEN a.cash ELSE a.budget

\* Fault: the fee is not set aside.
BuyGrossBeforeFee(a, pct, fee) == SmallerOf((CycleBudget(a) * pct) \div 100, a.cash)

BuyGross(a, pct, fee) ==
  SmallerOf((CycleBudget(a) * pct) \div 100, (a.cash * 100) \div (100 + fee))

BuyFill(a, pct, price, fee) ==
  LET gross == BuyGross(a, pct, fee)
  IN  IF gross <= 0 THEN NoFill("REJECTED_INSUFFICIENT_CASH")
      ELSE Filled(gross \div price, gross, fee)

\* Fault: the floor is compared before fees.
GrossBelowFloor(o, price, fee) == o.floor > 0 /\ price < o.floor

NetBelowFloor(o, price, fee) == o.floor > 0 /\ price * (100 - fee) < o.floor * 100

SellFill(o, a, price, fee) ==
  LET qty == SmallerOf((a.qty * o.pct) \div 100, a.qty)
  IN  IF qty = 0 \/ price <= 0 THEN NoFill("REJECTED_INSUFFICIENT_QUANTITY")
      ELSE IF NetBelowFloor(o, price, fee) THEN NoFill("REJECTED_BREAK_EVEN_FLOOR")
      ELSE Filled(qty, qty * price, fee)

\* A position of no lots has no cost and no average price (normalizeState).
AfterBuy(a, fill) ==
  LET cost == a.cost + fill.gross + fill.fee
      qty  == a.qty + fill.qty
      paid == [a EXCEPT !.cash = @ - fill.gross - fill.fee, !.budget = CycleBudget(a)]
  IN  IF qty = 0 THEN [paid EXCEPT !.qty = 0, !.cost = 0, !.avg = 0]
      ELSE [paid EXCEPT !.qty = qty, !.cost = cost, !.avg = cost \div qty]

\* Fault: the proceeds of a partial sale are added to the budget.
AfterSellCompounding(a, fill) ==
  LET qty  == a.qty - fill.qty
      cash == a.cash + fill.gross - fill.fee
  IN  IF qty = 0 THEN [a EXCEPT !.cash = cash, !.qty = 0, !.cost = 0, !.avg = 0]
      ELSE [a EXCEPT !.cash = cash, !.budget = @ + fill.gross - fill.fee,
                     !.qty = qty, !.cost = Share(a.cost, qty, a.qty)]

AfterSell(a, fill) ==
  LET qty  == a.qty - fill.qty
      cash == a.cash + fill.gross - fill.fee
  IN  IF qty = 0 THEN [a EXCEPT !.cash = cash, !.qty = 0, !.cost = 0, !.avg = 0]
      ELSE [a EXCEPT !.cash = cash, !.qty = qty, !.cost = Share(a.cost, qty, a.qty)]

\* Fault: a rejection re-arms every level.
RearmAllLevels(prior, st) == [st EXCEPT !.drawdowns = {}]

ReconcileRejectedProtectedDrawdown(prior, st) ==
  [st EXCEPT !.drawdowns = prior.drawdowns]

\* Fault: the reference stays at the signal's close.
KeepSignalReference(o, st, price) == st

ReconcileSimulatedFirstEntryFill(o, st, price) ==
  IF request.strategy = DipAccumulation /\ o.action = "BUY" /\ st.entryStep = 1
  THEN [st EXCEPT !.firstEntryRef = price] ELSE st

FillPrice(o, open) ==
  IF o.action = "BUY" THEN (open * (100 + request.slippage)) \div 100
  ELSE IF request.slippage >= 100 THEN 0
  ELSE (open * (100 - request.slippage)) \div 100

\* The order of the previous close meets the open of the next candle.
FillAtOpen(open) ==
  LET price == FillPrice(order, open)
      fill  == IF order.action = "BUY"
               THEN BuyFill(account, order.pct, price, request.fee)
               ELSE SellFill(order, account, price, request.fee)
      after == IF order.action = "BUY" THEN AfterBuy(account, fill)
                                       ELSE AfterSell(account, fill)
      done  == fill.status = "EXECUTED"
  IN  /\ pc = "open" /\ order # NoOrder
      /\ account' = IF done THEN after ELSE account
      /\ state' = IF fill.status = "REJECTED_BREAK_EVEN_FLOOR"
                  THEN ReconcileRejectedProtectedDrawdown(order.prior, state)
                  ELSE IF done
                  THEN ReconcileSimulatedFirstEntryFill(order, state, price)
                  ELSE state
      /\ trades' = Append(trades,
           [signal |-> order.signal, day |-> market.day + 1, action |-> order.action,
            level |-> order.level, status |-> fill.status, price |-> price,
            gross |-> fill.gross, cashAfter |-> account'.cash, qtyAfter |-> account'.qty])
      /\ signals' = [signals EXCEPT ![order.signal].status = fill.status]
      /\ order' = NoOrder
      /\ pc' = "close"
      /\ UNCHANGED <<request, market>>

\* Without an order the open changes nothing.
NoFillAtOpen ==
  /\ pc = "open" /\ order = NoOrder
  /\ pc' = "close"
  /\ UNCHANGED <<request, market, account, state, order, signals, trades>>

-----------------------------------------------------------------------------
(***************************************************************************)
(* The completed candle.                                                   *)
(***************************************************************************)
\* Dip Accumulation estimates its exits with the fee of the simulation.
EvaluationConfig ==
  IF request.strategy = DipAccumulation
  THEN [request.config EXCEPT !.feeBps = request.fee * 100]
  ELSE request.config

Actionable(d) == d.action \in {"BUY"} \union Sells

\* Fault: an order of the last candle is left pending.
StatusAlwaysPending(d, day) == IF Actionable(d) THEN "PENDING" ELSE "NO_ORDER"

SignalStatus(d, day) ==
  IF ~Actionable(d) THEN "NO_ORDER"
  ELSE IF day = LastDay THEN "UNEXECUTED_END_OF_DATA" ELSE "PENDING"

EvaluateAtClose(close, peak) ==
  /\ pc = "close"
  /\ market' \in NextFacts(market, close, peak)
  /\ LET pos == [held |-> account.qty > 0, avg |-> account.avg]
         d   == EvaluateWithIntradayPrice(request.strategy, EvaluationConfig,
                  request.rule, market', pos, state, 0)
     IN  /\ state' = d.next
         /\ signals' = Append(signals, [day |-> market'.day, action |-> d.action,
                                        status |-> SignalStatus(d, market'.day)])
         /\ order' = IF Actionable(d) /\ market'.day < LastDay
                     THEN [signal |-> Len(signals) + 1, action |-> d.action,
                           pct |-> d.pct, level |-> d.level, floor |-> d.floor,
                           ath |-> d.ath, prior |-> state]
                     ELSE NoOrder
  /\ pc' = IF market'.day = LastDay THEN "done" ELSE "open"
  /\ UNCHANGED <<request, account, trades>>

\* The counts of buildSummary.
Executed == {k \in 1..Len(trades) : trades[k].status = "EXECUTED"}

Summary ==
  [executed   |-> Cardinality(Executed),
   rejected   |-> Len(trades) - Cardinality(Executed),
   unexecuted |-> Cardinality({i \in 1..Len(signals) :
                    signals[i].status = "UNEXECUTED_END_OF_DATA"})]

Terminating == pc = "done" /\ UNCHANGED vars

Next ==
  \/ \E open \in Opens : FillAtOpen(open)
  \/ NoFillAtOpen
  \/ \E close \in Closes, peak \in Peaks : EvaluateAtClose(close, peak)
  \/ Terminating

Spec == Init /\ [][Next]_vars
-----------------------------------------------------------------------------
(***************************************************************************)
(* What must hold.                                                         *)
(***************************************************************************)
\* The assertion of normalizeState: no fill ever borrows cash, the fee of the
\* last stage of a fully invested budget included.
NoNegativeBalance == account.cash >= 0

TradesOf(i) == {k \in 1..Len(trades) : trades[k].signal = i}

SignalSettled(i) ==
  IF signals[i].action \in {"HOLD", "WAIT"}
  THEN signals[i].status = "NO_ORDER" /\ TradesOf(i) = {}
  ELSE CASE signals[i].status = "PENDING" -> TradesOf(i) = {} /\ order.signal = i
         [] signals[i].status = "UNEXECUTED_END_OF_DATA" ->
              TradesOf(i) = {} /\ pc = "done" /\ i = Len(signals)
         [] OTHER -> \E k \in TradesOf(i) : /\ TradesOf(i) = {k}
                                            /\ trades[k].status = signals[i].status
                                            /\ trades[k].day = signals[i].day + 1

\* Every signal that asks for an order gets exactly one outcome: a trade at
\* the open after it with the status the signal reports, the pending order, or,
\* on the last candle only, none; and the summary counts each of them once.
SignalsSettled ==
  /\ \A i \in 1..Len(signals) : SignalSettled(i)
  /\ pc = "done" =>
       Summary.executed + Summary.rejected + Summary.unexecuted =
         Cardinality({i \in 1..Len(signals) : signals[i].action \notin {"HOLD", "WAIT"}})

\* The position never closed from trade j until trade k.
SameCycle(j, k) == j <= k /\ \A i \in Executed \intersect (j..k - 1) : trades[i].qtyAfter > 0

\* The executed trades of the position now held.
CycleTrades == {k \in Executed : trades[k].qtyAfter > 0 /\ SameCycle(k, Len(trades))}

\* What the trades before trade k left of the starting cash.
CashBefore(k) == IF k = 1 THEN StartingCash ELSE trades[k - 1].cashAfter

\* The percentages of the first n stages together.
EntryShare(n) ==
  LET entry == request.config.entry
  IN  IF n = 0 THEN 0 ELSE IF n = 1 THEN entry[1] ELSE IF n = 2 THEN entry[1] + entry[2]
      ELSE entry[1] + entry[2] + entry[3]

\* The stages whose order met an open.
StagesMet == IF order # NoOrder /\ order.action = "BUY" THEN state.entryStep - 1
                                                        ELSE state.entryStep

\* The entries of a cycle together cost no more than the shares of their stages
\* in the cash there was before its first one: neither the proceeds of a partial
\* sale in between nor those of earlier cycles are counted twice.
SpentWithinBudget ==
  account.qty > 0 =>
    \E first \in CycleTrades :
      /\ \A k \in CycleTrades : first <= k
      /\ LET buys == {k \in CycleTrades : trades[k].action = "BUY"}
         IN  MapThenSumSet(LAMBDA k : trades[k].gross, buys) * 100
               <= CashBefore(first) * EntryShare(StagesMet)

\* The drawdown levels sold in a cycle only get deeper: a rejected sale makes
\* its level available again, an executed one never does.
LevelsSoldOnce ==
  \A j, k \in Executed :
    j < k /\ SameCycle(j, k)
          /\ trades[j].action = "SELL_DRAWDOWN" /\ trades[k].action = "SELL_DRAWDOWN"
      => trades[j].level < trades[k].level

\* Dip Accumulation measures its later entries from the actual fill of the
\* first one.
ReferenceIsFill ==
  request.strategy = DipAccumulation /\ state.entryStep > 0 /\ account.qty > 0 =>
    \E k \in CycleTrades :
      /\ trades[k].action = "BUY" /\ \A j \in CycleTrades : k <= j
      /\ state.firstEntryRef = trades[k].price

\* Between candles the engine's open campaign is the simulator's position, or
\* the override entry about to open one.
CampaignMatchesPosition ==
  pc = "open" => (state.positionOpen <=> account.qty > 0 \/ (order # NoOrder /\ order.ath))

\* A protected exit never nets less than the average entry price of the
\* position it sells, although its floor was fixed at the close before.
BreakEvenKept ==
  [][LET k == Len(trades') IN
     /\ k > Len(trades)
     /\ trades'[k].action = "SELL_DRAWDOWN" /\ trades'[k].status = "EXECUTED"
     /\ request.strategy = DipAccumulation /\ request.config.floor
     => trades'[k].price * (100 - request.fee) >= account.avg * 100]_vars
=============================================================================
