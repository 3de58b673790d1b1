--------------------------- MODULE BacktestProofs ---------------------------
(***************************************************************************)
(* Proofs about the simulator, for every price set, profile, slippage,     *)
(* starting cash and range.                                                *)
(*                                                                         *)
(* The inductive invariant SimInv has the types, the soundness of the      *)
(* strategy state that the engine's lemmas need, and what the pending      *)
(* order says of the signal and the position it came from.  The theorems   *)
(* about cash and the break-even floor are for fees below 100 percent: the *)
(* request's validation admits any fee, and a larger one makes a sale cost *)
(* more than it brings.                                                    *)
(*                                                                         *)
(* The sums over the trades of a cycle are functions on sets of trades;    *)
(* BudgetInv bounds them by the stages that the cycle has met.             *)
(***************************************************************************)
EXTENDS Backtest, StrategyEngineProofs, FiniteSetTheorems, SequenceTheorems

FeesBelowWhole == Fees \subseteq 0..99

SignalRecords == [day : Nat, action : Actions, status : Statuses]

TradeRecords ==
  [signal : Nat, day : Nat, action : Actions, level : 0..3, status : Statuses,
   price : Nat, gross : Nat, cashAfter : Int, qtyAfter : Nat]

Orders == [signal : Nat, action : {"BUY"} \union Sells, pct : Nat, level : 0..3,
           floor : Nat, ath : BOOLEAN, prior : PersistedStates]

Accounts == [cash : Int, budget : Int, qty : Nat, cost : Nat, avg : Nat]

Typed ==
  /\ request \in Requests /\ pc \in {"close", "open", "done"}
  /\ market \in Markets /\ account \in Accounts /\ state \in PersistedStates
  /\ order \in Orders \union {NoOrder}
  /\ signals \in Seq(SignalRecords) /\ trades \in Seq(TradeRecords)

\* The pending order is that of the last signal, and a sale has a position.
OrderOfSignal ==
  order # NoOrder =>
    /\ pc = "open" /\ order.signal = Len(signals) /\ order.signal > 0
    /\ signals[order.signal].day = market.day
    /\ signals[order.signal].action = order.action
    /\ signals[order.signal].status = "PENDING"
    /\ Sound(request.strategy, order.prior)
    /\ order.action \in Sells => account.qty > 0 /\ state.highestPrice > 0

\* The loop ends with the last candle.
InRange == pc # "done" => market.day < LastDay

SimInv == Typed /\ Sound(request.strategy, state) /\ OrderOfSignal /\ InRange
-----------------------------------------------------------------------------
(***************************************************************************)
(* Fills.                                                                  *)
(***************************************************************************)
LEMMA DivisionRoundsDown ==
  ASSUME NEW a \in Int, NEW b \in Nat \ {0}
  PROVE  a \div b \in Int /\ b * (a \div b) <= a /\ (a \in Nat => a \div b \in Nat)
  OBVIOUS

\* A buy costs no more than the cash, its fee included.
LEMMA BuyFillTyped ==
  ASSUME NEW a \in Accounts, NEW pct \in Nat, NEW price \in Nat \ {0}, NEW fee \in Nat
  PROVE  LET fill == BuyFill(a, pct, price, fee) IN
         /\ fill.status \in {"EXECUTED", "REJECTED_INSUFFICIENT_CASH"}
         /\ fill.qty \in Nat /\ fill.gross \in Nat /\ fill.fee \in Nat
         /\ fill.status = "EXECUTED" => fill.gross + fill.fee <= a.cash
<1> DEFINE fill  == BuyFill(a, pct, price, fee)
           gross == BuyGross(a, pct, fee)
<1>1. a.cash \in Int /\ CycleBudget(a) \in Int
  BY DEF CycleBudget, Accounts
<1> DEFINE whole == 100 + fee
           most  == (a.cash * 100) \div whole
<1>2. most \in Int /\ whole * most <= a.cash * 100
  <2>1. whole \in Nat \ {0} /\ a.cash * 100 \in Int
    BY <1>1
  <2> HIDE DEF whole
  <2>2. QED BY <2>1, DivisionRoundsDown
<1>a. gross \in Int /\ gross <= most
  <2>1. (CycleBudget(a) * pct) \div 100 \in Int
    BY <1>1
  <2>2. gross = SmallerOf((CycleBudget(a) * pct) \div 100, most)
    BY DEF BuyGross
  <2> HIDE DEF most, gross
  <2>3. QED BY <1>2, <2>1, <2>2 DEF SmallerOf
<1>3. whole * gross <= a.cash * 100
  <2> HIDE DEF most, gross
  <2>1. whole \in Nat
    OBVIOUS
  <2> HIDE DEF whole
  <2>2. \A w \in Nat, x, y \in Int : x <= y => w * x <= w * y
    OBVIOUS
  <2>3. whole * gross <= whole * most
    BY <1>2, <1>a, <2>1, <2>2
  <2>4. whole * gross \in Int /\ whole * most \in Int /\ a.cash * 100 \in Int
    BY <1>1, <1>2, <1>a, <2>1
  <2>5. QED BY <1>2, <2>3, <2>4
<1>4. CASE gross <= 0
  <2>1. fill = NoFill("REJECTED_INSUFFICIENT_CASH")
    BY <1>4 DEF BuyFill
  <2>2. QED BY <2>1 DEF NoFill
<1>5. CASE ~(gross <= 0)
  <2>1. fill = Filled(gross \div price, gross, fee)
    BY <1>5 DEF BuyFill
  <2> HIDE DEF gross, fill
  <2>2. gross \in Nat /\ gross \div price \in Nat
    BY <1>a, <1>5, DivisionRoundsDown
  <2>3. gross * fee \in Nat /\ (gross * fee) \div 100 \in Nat
    BY <2>2, DivisionRoundsDown
  <2>4. gross + (gross * fee) \div 100 <= a.cash
    <3>1. gross * 100 + gross * fee <= a.cash * 100
      BY <1>1, <1>3, <2>2
    <3>2. \A x \in Nat : 100 * (x \div 100) <= x
      OBVIOUS
    <3>3. QED BY <1>1, <2>2, <2>3, <3>1, <3>2
  <2>5. QED BY <2>1, <2>2, <2>3, <2>4 DEF Filled, fill
<1>6. QED BY <1>4, <1>5

\* A sale sells no more than the position, and below its floor not at all.
LEMMA SellFillTyped ==
  ASSUME NEW o \in Orders, NEW a \in Accounts, NEW price \in Nat, NEW fee \in Nat
  PROVE  LET fill == SellFill(o, a, price, fee) IN
         /\ fill.status \in {"EXECUTED", "REJECTED_INSUFFICIENT_QUANTITY",
                            "REJECTED_BREAK_EVEN_FLOOR"}
         /\ fill.qty \in Nat /\ fill.gross \in Nat /\ fill.fee \in Nat
         /\ fill.status = "EXECUTED" =>
              /\ fill.qty > 0 /\ fill.qty <= a.qty
              /\ ~NetBelowFloor(o, price, fee)
         /\ fee < 100 => fill.fee <= fill.gross
<1> DEFINE fill == SellFill(o, a, price, fee)
           qty  == SmallerOf((a.qty * o.pct) \div 100, a.qty)
<1>1. a.qty \in Nat /\ o.pct \in Nat
  BY DEF Accounts, Orders
<1>2. qty \in Nat /\ qty <= a.qty
  <2>1. a.qty * o.pct \in Nat
    BY <1>1
  <2>2. (a.qty * o.pct) \div 100 \in Nat
    BY <2>1, DivisionRoundsDown
  <2>3. QED BY <1>1, <2>2 DEF SmallerOf
<1>3. CASE \E status \in {"REJECTED_INSUFFICIENT_QUANTITY", "REJECTED_BREAK_EVEN_FLOOR"} :
             fill = NoFill(status)
  BY <1>3 DEF NoFill
<1>4. CASE fill = Filled(qty, qty * price, fee) /\ qty # 0 /\ ~NetBelowFloor(o, price, fee)
  <2> HIDE DEF fill, qty
  <2>1. qty * price \in Nat /\ (qty * price) * fee \in Nat
    BY <1>2
  <2>2. ((qty * price) * fee) \div 100 \in Nat
    BY <2>1, DivisionRoundsDown
  <2>3. ASSUME fee < 100 PROVE ((qty * price) * fee) \div 100 <= qty * price
    <3>1. \A g \in Nat : fee < 100 => g * fee <= g * 100
      OBVIOUS
    <3>2. (qty * price) * fee <= (qty * price) * 100
      BY <2>1, <2>3, <3>1
    <3>3. QED BY <2>1, <3>2
  <2>4. QED BY <1>2, <1>4, <2>1, <2>2, <2>3 DEF Filled, fill
<1>5. QED BY <1>3, <1>4 DEF SellFill

LEMMA FillPriceTyped ==
  ASSUME Typed, NEW open \in Opens, NEW o
  PROVE  /\ FillPrice(o, open) \in Nat /\ request.fee \in Nat
         /\ o.action = "BUY" => FillPrice(o, open) > 0
<1>1. open \in Nat \ {0} /\ request.slippage \in Nat /\ request.fee \in Nat
  BY BacktestAssumptions DEF Typed, Requests
<1>2. CASE o.action = "BUY"
  <2>1. open * (100 + request.slippage) \in Nat
    BY <1>1
  <2>2. open * 100 <= open * (100 + request.slippage)
    BY <1>1
  <2> DEFINE x == open * (100 + request.slippage)
  <2>3. FillPrice(o, open) = x \div 100
    BY <1>2 DEF FillPrice
  <2> HIDE DEF x
  <2>4. QED BY <1>1, <2>1, <2>2, <2>3 DEF x
<1>3. CASE o.action # "BUY" /\ request.slippage >= 100
  BY <1>1, <1>3 DEF FillPrice
<1>4. CASE o.action # "BUY" /\ ~(request.slippage >= 100)
  <2>1. open * (100 - request.slippage) \in Nat
    BY <1>1, <1>4
  <2>2. QED BY <1>1, <1>4, <2>1, DivisionRoundsDown DEF FillPrice
<1>5. QED BY <1>2, <1>3, <1>4

LEMMA ShareTyped ==
  ASSUME NEW amount \in Nat, NEW part \in Nat, NEW whole \in Nat \ {0}
  PROVE  Share(amount, part, whole) \in Nat
<1>1. amount \div whole \in Nat /\ amount % whole \in Nat
  BY DivisionRoundsDown
<1>2. (amount \div whole) * part \in Nat /\ (amount % whole) * part \in Nat
  BY <1>1
<1>3. ((amount % whole) * part) \div whole \in Nat
  BY <1>2, DivisionRoundsDown
<1>4. QED BY <1>2, <1>3 DEF Share

LEMMA AccountAfterFill ==
  ASSUME NEW a \in Accounts, NEW fill,
         fill.qty \in Nat, fill.gross \in Nat, fill.fee \in Nat
  PROVE  /\ AfterBuy(a, fill) \in Accounts
         /\ AfterBuy(a, fill).qty = a.qty + fill.qty
         /\ AfterBuy(a, fill).cash = a.cash - fill.gross - fill.fee
         /\ AfterBuy(a, fill).budget = CycleBudget(a)
         /\ fill.qty <= a.qty =>
              /\ AfterSell(a, fill) \in Accounts
              /\ AfterSell(a, fill).qty = a.qty - fill.qty
              /\ AfterSell(a, fill).cash = a.cash + fill.gross - fill.fee
              /\ AfterSell(a, fill).budget = a.budget
              /\ AfterSell(a, fill).qty > 0 => AfterSell(a, fill).avg = a.avg
<1>1. CycleBudget(a) \in Int
  BY DEF CycleBudget, Accounts
<1>2. /\ AfterBuy(a, fill) \in Accounts /\ AfterBuy(a, fill).qty = a.qty + fill.qty
      /\ AfterBuy(a, fill).cash = a.cash - fill.gross - fill.fee
      /\ AfterBuy(a, fill).budget = CycleBudget(a)
  <2> DEFINE cost == a.cost + fill.gross + fill.fee
             qty  == a.qty + fill.qty
             left == a.cash - fill.gross - fill.fee
             paid == [a EXCEPT !.cash = @ - fill.gross - fill.fee, !.budget = CycleBudget(a)]
  <2>1. cost \in Nat /\ qty \in Nat /\ left \in Int
    BY DEF Accounts
  <2>2. paid \in Accounts /\ paid.cash = left /\ paid.budget = CycleBudget(a)
    <3>1. paid = [a EXCEPT !.cash = left, !.budget = CycleBudget(a)]
      BY DEF Accounts
    <3> HIDE DEF paid, left
    <3>2. QED BY <1>1, <2>1, <3>1 DEF Accounts
  <2> HIDE DEF cost, paid
  <2>3. CASE qty = 0
    BY <2>1, <2>2, <2>3 DEF AfterBuy, paid, cost, Accounts
  <2>4. CASE qty # 0
    <3>1. cost \div qty \in Nat
      BY <2>1, <2>4, DivisionRoundsDown
    <3>2. AfterBuy(a, fill) = [paid EXCEPT !.qty = qty, !.cost = cost, !.avg = cost \div qty]
      BY <2>4 DEF AfterBuy, paid, cost
    <3> HIDE DEF qty
    <3>3. QED BY <2>1, <2>2, <3>1, <3>2 DEF Accounts, qty
  <2>5. QED BY <2>3, <2>4
<1>3. ASSUME fill.qty <= a.qty
      PROVE  /\ AfterSell(a, fill) \in Accounts
             /\ AfterSell(a, fill).qty = a.qty - fill.qty
             /\ AfterSell(a, fill).cash = a.cash + fill.gross - fill.fee
             /\ AfterSell(a, fill).budget = a.budget
             /\ AfterSell(a, fill).qty > 0 => AfterSell(a, fill).avg = a.avg
  <2> DEFINE qty  == a.qty - fill.qty
             cash == a.cash + fill.gross - fill.fee
  <2>1. qty \in Nat /\ cash \in Int
    BY <1>3 DEF Accounts
  <2>2. CASE qty = 0
    <3>1. AfterSell(a, fill) = [a EXCEPT !.cash = cash, !.qty = 0, !.cost = 0, !.avg = 0]
      BY <2>2 DEF AfterSell
    <3> HIDE DEF cash, qty
    <3>a. a = [cash |-> a.cash, budget |-> a.budget, qty |-> a.qty, cost |-> a.cost,
               avg |-> a.avg] /\ a.budget \in Int
      BY DEF Accounts
    <3>b. AfterSell(a, fill) = [cash |-> cash, budget |-> a.budget, qty |-> 0, cost |-> 0,
                                avg |-> 0]
      BY <3>1, <3>a
    <3>2. /\ AfterSell(a, fill) \in Accounts /\ AfterSell(a, fill).qty = 0
          /\ AfterSell(a, fill).cash = cash /\ AfterSell(a, fill).budget = a.budget
      BY <2>1, <3>a, <3>b DEF Accounts
    <3>3. AfterSell(a, fill).qty = a.qty - fill.qty /\ ~(AfterSell(a, fill).qty > 0)
      BY <2>2, <3>2 DEF qty
    <3>4. AfterSell(a, fill).cash = a.cash + fill.gross - fill.fee
      BY <3>2 DEF cash
    <3>5. QED BY <3>2, <3>3, <3>4
  <2>3. CASE qty # 0
    <3>1. a.qty \in Nat \ {0} /\ a.cost \in Nat
      BY <1>3, <2>3 DEF Accounts
    <3>2. Share(a.cost, qty, a.qty) \in Nat
      BY <2>1, <3>1, ShareTyped
    <3>3. AfterSell(a, fill) = [a EXCEPT !.cash = cash, !.qty = qty,
                                         !.cost = Share(a.cost, qty, a.qty)]
      BY <2>3 DEF AfterSell
    <3> HIDE DEF qty, cash
    <3>4. QED BY <2>1, <3>2, <3>3 DEF Accounts, qty, cash
  <2>4. QED BY <2>2, <2>3
<1>4. QED BY <1>2, <1>3

-----------------------------------------------------------------------------
(***************************************************************************)
(* The open of a candle.                                                   *)
(***************************************************************************)
\* The fill of the pending order.
Price(open) == FillPrice(order, open)

Fill(open) ==
  IF order.action = "BUY" THEN BuyFill(account, order.pct, Price(open), request.fee)
  ELSE SellFill(order, account, Price(open), request.fee)

\* What a fill does to the account and what it records.
LEMMA FillFacts ==
  ASSUME SimInv, NEW open \in Opens, FillAtOpen(open)
  PROVE  /\ order \in Orders /\ Price(open) \in Nat
         /\ Fill(open).qty \in Nat /\ Fill(open).gross \in Nat /\ Fill(open).fee \in Nat
         /\ Fill(open).status \in Statuses \ {"NO_ORDER", "PENDING", "UNEXECUTED_END_OF_DATA"}
         /\ account' \in Accounts
         /\ Fill(open).status # "EXECUTED" => account' = account
         /\ Fill(open).status = "EXECUTED" /\ order.action = "BUY" =>
              /\ account' = AfterBuy(account, Fill(open))
              /\ account'.qty = account.qty + Fill(open).qty
              /\ Fill(open).gross + Fill(open).fee <= account.cash
         /\ Fill(open).status = "EXECUTED" /\ order.action # "BUY" =>
              /\ account' = AfterSell(account, Fill(open))
              /\ Fill(open).qty <= account.qty
              /\ account'.qty = account.qty - Fill(open).qty
              /\ ~NetBelowFloor(order, Price(open), request.fee)
         /\ Fill(open).status = "REJECTED_BREAK_EVEN_FLOOR" => order.action \in Sells
         /\ request.fee < 100 /\ order.action # "BUY" => Fill(open).fee <= Fill(open).gross
<1> DEFINE price == Price(open)
           fill  == Fill(open)
<1>1. order # NoOrder /\ order \in Orders
  BY DEF FillAtOpen, SimInv, Typed
<1>2. price \in Nat /\ request.fee \in Nat /\ (order.action = "BUY" => price > 0)
  BY FillPriceTyped DEF SimInv, Price
<1>3. account \in Accounts /\ order.pct \in Nat /\ order.action \in {"BUY"} \union Sells
  BY <1>1 DEF SimInv, Typed, Orders
<1>4. account' = IF fill.status = "EXECUTED"
                 THEN IF order.action = "BUY" THEN AfterBuy(account, fill)
                                              ELSE AfterSell(account, fill)
                 ELSE account
  BY DEF FillAtOpen, Fill, Price
<1>5. CASE order.action = "BUY"
  <2>1. fill = BuyFill(account, order.pct, price, request.fee)
    BY <1>5 DEF Fill
  <2>2. price \in Nat \ {0}
    BY <1>2, <1>5
  <2> HIDE DEF fill, price
  <2>3. /\ fill.status \in {"EXECUTED", "REJECTED_INSUFFICIENT_CASH"}
        /\ fill.qty \in Nat /\ fill.gross \in Nat /\ fill.fee \in Nat
        /\ fill.status = "EXECUTED" => fill.gross + fill.fee <= account.cash
    BY <1>2, <1>3, <2>1, <2>2, BuyFillTyped
  <2>4. /\ AfterBuy(account, fill) \in Accounts
        /\ AfterBuy(account, fill).qty = account.qty + fill.qty
    BY <1>3, <2>3, AccountAfterFill
  <2>5. QED BY <1>1, <1>2, <1>3, <1>4, <1>5, <2>3, <2>4 DEF fill, price, Statuses
<1>6. CASE order.action # "BUY"
  <2>1. fill = SellFill(order, account, price, request.fee)
    BY <1>6 DEF Fill
  <2> HIDE DEF fill, price
  <2>2. /\ fill.status \in {"EXECUTED", "REJECTED_INSUFFICIENT_QUANTITY",
                            "REJECTED_BREAK_EVEN_FLOOR"}
        /\ fill.qty \in Nat /\ fill.gross \in Nat /\ fill.fee \in Nat
        /\ fill.status = "EXECUTED" =>
             fill.qty <= account.qty /\ ~NetBelowFloor(order, price, request.fee)
        /\ request.fee < 100 => fill.fee <= fill.gross
    BY <1>1, <1>2, <1>3, <2>1, SellFillTyped
  <2>3. fill.status = "EXECUTED" =>
          /\ AfterSell(account, fill) \in Accounts
          /\ AfterSell(account, fill).qty = account.qty - fill.qty
    BY <1>3, <2>2, AccountAfterFill
  <2>4. QED BY <1>1, <1>2, <1>3, <1>4, <1>6, <2>2, <2>3 DEF fill, price, Statuses
<1>7. QED BY <1>5, <1>6

\* The signal's status and the trade that a fill records.
LEMMA FillRecords ==
  ASSUME SimInv, NEW open \in Opens, FillAtOpen(open)
  PROVE  /\ signals' \in Seq(SignalRecords) /\ Len(signals') = Len(signals)
         /\ \A i \in 1..Len(signals) :
              /\ signals'[i].day = signals[i].day /\ signals'[i].action = signals[i].action
              /\ i # order.signal => signals'[i].status = signals[i].status
              /\ i = order.signal => signals'[i].status = Fill(open).status
         /\ trades' \in Seq(TradeRecords) /\ Len(trades') = Len(trades) + 1
         /\ \A k \in 1..Len(trades) : trades'[k] = trades[k]
         /\ trades'[Len(trades) + 1] =
              [signal |-> order.signal, day |-> market.day + 1, action |-> order.action,
               level |-> order.level, status |-> Fill(open).status, price |-> Price(open),
               gross |-> Fill(open).gross,
               cashAfter |-> account'.cash, qtyAfter |-> account'.qty]
<1> DEFINE i      == order.signal
           status == Fill(open).status
           signal == [signals[i] EXCEPT !.status = status]
           trade  == [signal |-> order.signal, day |-> market.day + 1, action |-> order.action,
                      level |-> order.level, status |-> status, price |-> Price(open),
                      gross |-> Fill(open).gross,
                      cashAfter |-> account'.cash, qtyAfter |-> account'.qty]
<1>1. /\ signals \in Seq(SignalRecords) /\ trades \in Seq(TradeRecords)
      /\ i \in 1..Len(signals)
  <2>1. signals \in Seq(SignalRecords) /\ trades \in Seq(TradeRecords)
    BY DEF SimInv, Typed
  <2>2. i = Len(signals) /\ i > 0
    BY DEF SimInv, OrderOfSignal, FillAtOpen
  <2>3. QED BY <2>1, <2>2, LenProperties
<1>2. signal \in SignalRecords /\ signal.status = status
      /\ signal.day = signals[i].day /\ signal.action = signals[i].action
  <2>1. signals[i] \in SignalRecords
    BY <1>1, ElementOfSeq
  <2>2. status \in Statuses
    BY FillFacts
  <2> HIDE DEF status, i
  <2>3. QED BY <2>1, <2>2 DEF SignalRecords
<1>3. trade \in TradeRecords
  <2>1. /\ order.signal \in Nat /\ order.action \in Actions /\ order.level \in 0..3
        /\ market.day + 1 \in Nat
    BY FillFacts DEF SimInv, Typed, Orders, Markets, Actions
  <2>2. status \in Statuses /\ Price(open) \in Nat /\ Fill(open).gross \in Nat
        /\ account'.qty \in Nat /\ account'.cash \in Int
    BY FillFacts DEF Accounts
  <2> HIDE DEF status
  <2>3. QED BY <2>1, <2>2 DEF TradeRecords
<1>4. signals' = [signals EXCEPT ![i] = signal] /\ trades' = Append(trades, trade)
  <2>1. signals' = [signals EXCEPT ![i].status = status]
    BY DEF FillAtOpen, Fill, Price
  <2>2. trades' = Append(trades, trade)
    BY DEF FillAtOpen, Fill, Price
  <2>3. QED BY <2>1, <2>2
<1> HIDE DEF signal, trade
<1>5. /\ signals' \in Seq(SignalRecords) /\ Len(signals') = Len(signals)
      /\ \A j \in 1..Len(signals) : signals'[j] = IF j = i THEN signal ELSE signals[j]
  BY <1>1, <1>2, <1>4, ExceptSeq
<1>6. /\ trades' \in Seq(TradeRecords) /\ Len(trades') = Len(trades) + 1
      /\ \A k \in 1..Len(trades) : trades'[k] = trades[k]
      /\ trades'[Len(trades) + 1] = trade
  BY <1>1, <1>3, <1>4, AppendProperties
<1>7. QED BY <1>2, <1>5, <1>6 DEF trade

\* The state after a fill, and that it keeps the campaign.
LEMMA FillState ==
  ASSUME SimInv, NEW open \in Opens, FillAtOpen(open)
  PROVE  /\ state' \in PersistedStates /\ Sound(request.strategy, state')
         /\ state'.positionOpen = state.positionOpen
         /\ state'.entryStep = state.entryStep
         /\ Fill(open).status = "EXECUTED" => state'.drawdowns = state.drawdowns
         /\ Fill(open).status = "REJECTED_BREAK_EVEN_FLOOR" =>
              state'.drawdowns = order.prior.drawdowns
         /\ Fill(open).status \notin {"EXECUTED", "REJECTED_BREAK_EVEN_FLOOR"} => state' = state
         /\ state'.firstEntryRef =
              IF Fill(open).status = "EXECUTED" /\ request.strategy = DipAccumulation
                 /\ order.action = "BUY" /\ state.entryStep = 1
              THEN Price(open) ELSE state.firstEntryRef
<1> DEFINE fill == Fill(open)
<1>1. /\ state \in PersistedStates /\ Sound(request.strategy, state)
      /\ order.prior \in PersistedStates /\ Sound(request.strategy, order.prior)
      /\ Price(open) \in Nat /\ (order.action = "BUY" => Price(open) > 0)
  <2>1. order # NoOrder
    BY DEF FillAtOpen
  <2>2. QED BY <2>1, FillFacts, FillPriceTyped DEF SimInv, Typed, OrderOfSignal, Orders, Price
<1>2. state' = IF fill.status = "REJECTED_BREAK_EVEN_FLOOR"
               THEN ReconcileRejectedProtectedDrawdown(order.prior, state)
               ELSE IF fill.status = "EXECUTED"
               THEN ReconcileSimulatedFirstEntryFill(order, state, Price(open))
               ELSE state
  BY DEF FillAtOpen, Fill, Price
<1>3. CASE fill.status = "REJECTED_BREAK_EVEN_FLOOR"
  <2>1. state.highestPrice > 0
    BY <1>3, FillFacts DEF SimInv, OrderOfSignal, FillAtOpen
  <2>2. state' = [state EXCEPT !.drawdowns = order.prior.drawdowns]
    BY <1>2, <1>3 DEF ReconcileRejectedProtectedDrawdown
  <2>3. order.prior.drawdowns \in SUBSET Levels
    BY <1>1 DEF PersistedStates
  <2> HIDE DEF fill
  <2>4. state' \in PersistedStates /\ state'.drawdowns = order.prior.drawdowns
        /\ state'.correctionHighAt = state.correctionHighAt
        /\ state'.reentryAfter = state.reentryAfter
        /\ state'.highestPrice = state.highestPrice
        /\ state'.positionOpen = state.positionOpen
        /\ state'.entryStep = state.entryStep /\ state'.firstEntryRef = state.firstEntryRef
    BY <1>1, <2>2, <2>3 DEF PersistedStates
  <2>5. Sound(request.strategy, state')
    BY <1>1, <2>1, <2>4 DEF Sound
  <2>6. QED BY <1>3, <2>4, <2>5 DEF fill
<1> DEFINE first == /\ fill.status = "EXECUTED" /\ request.strategy = DipAccumulation
                    /\ order.action = "BUY" /\ state.entryStep = 1
<1>4. CASE first
  <2>1. state' = [state EXCEPT !.firstEntryRef = Price(open)]
    BY <1>2, <1>4 DEF ReconcileSimulatedFirstEntryFill
  <2>2. Price(open) \in Nat /\ Price(open) > 0
    BY <1>1, <1>4
  <2>3. state' \in PersistedStates /\ state'.drawdowns = state.drawdowns
        /\ state'.correctionHighAt = state.correctionHighAt
        /\ state'.reentryAfter = state.reentryAfter
        /\ state'.highestPrice = state.highestPrice
        /\ state'.positionOpen = state.positionOpen
        /\ state'.entryStep = state.entryStep /\ state'.firstEntryRef = Price(open)
    BY <1>1, <2>1, <2>2 DEF PersistedStates
  <2>4. Sound(request.strategy, state')
    BY <1>1, <2>2, <2>3 DEF Sound
  <2>5. QED BY <1>4, <2>3, <2>4
<1>5. CASE fill.status # "REJECTED_BREAK_EVEN_FLOOR" /\ ~first
  <2>1. state' = state
    BY <1>2, <1>5 DEF ReconcileSimulatedFirstEntryFill
  <2>2. QED BY <1>1, <1>5, <2>1
<1>6. QED BY <1>3, <1>4, <1>5

-----------------------------------------------------------------------------
(***************************************************************************)
(* The close of a candle.                                                  *)
(***************************************************************************)
\* The position the engine is told of, and its decision.
Held == [held |-> account.qty > 0, avg |-> account.avg]

Decided(m) ==
  EvaluateWithIntradayPrice(request.strategy, EvaluationConfig, request.rule, m, Held, state, 0)

\* The market of the close, the decision and what it records.
LEMMA CloseFacts ==
  ASSUME SimInv, NEW close \in Closes, NEW peak \in Peaks, EvaluateAtClose(close, peak)
  PROVE  /\ market' \in Markets /\ market'.close > 0 /\ market'.day = market.day + 1
         /\ Held \in Positions
         /\ SoundOutcome(request.strategy, Decided(market'))
         /\ state' = Decided(market').next
         /\ signals' = Append(signals,
              [day |-> market'.day, action |-> Decided(market').action,
               status |-> SignalStatus(Decided(market'), market'.day)])
         /\ order' = IF Actionable(Decided(market')) /\ market'.day < LastDay
                     THEN [signal |-> Len(signals) + 1, action |-> Decided(market').action,
                           pct |-> Decided(market').pct, level |-> Decided(market').level,
                           floor |-> Decided(market').floor, ath |-> Decided(market').ath,
                           prior |-> state]
                     ELSE NoOrder
         /\ account.qty > 0 =>
              /\ KeepsCampaign(Observed(market', state), Decided(market'))
              /\ request.strategy = DipAccumulation =>
                   KeepsReference(EvaluationConfig, Held, Observed(market', state),
                                  Decided(market'))
         /\ ~(account.qty > 0) => BeginsCampaign(request.strategy, Decided(market'))
<1>1. /\ market \in Markets /\ close \in Nat /\ close > 0 /\ peak \in Nat
      /\ market' \in NextFacts(market, close, peak)
  BY BacktestAssumptions DEF SimInv, Typed, EvaluateAtClose
<1>2. market' \in Markets /\ market'.close > 0 /\ market'.day = market.day + 1
  BY <1>1, NextFactsTyped
<1>3. market'.day > 0
  BY <1>1, <1>2 DEF Markets
<1>4. Held \in Positions
  BY DEF SimInv, Typed, Accounts, Held, Positions
<1>5. request.strategy \in Strategies /\ Percentages(EvaluationConfig)
  BY BacktestAssumptions, ValidPercentages DEF SimInv, Typed, Requests, EvaluationConfig
<1>6. state \in PersistedStates /\ Sound(request.strategy, state) /\ 0 \in Nat
  BY DEF SimInv, Typed
<1>7. SoundOutcome(request.strategy, Decided(market'))
  BY <1>2, <1>4, <1>5, <1>6, EvaluationSound DEF Decided
<1>8. /\ Held.held =>
           /\ KeepsCampaign(Observed(market', state), Decided(market'))
           /\ request.strategy = DipAccumulation =>
                KeepsReference(EvaluationConfig, Held, Observed(market', state),
                               Decided(market'))
      /\ ~Held.held => BeginsCampaign(request.strategy, Decided(market'))
  BY <1>2, <1>3, <1>4, <1>5, <1>6, EvaluationCampaign DEF Decided
<1>9. Held.held = (account.qty > 0)
  BY DEF Held
<1>10. /\ state' = Decided(market').next
       /\ signals' = Append(signals,
            [day |-> market'.day, action |-> Decided(market').action,
             status |-> SignalStatus(Decided(market'), market'.day)])
       /\ order' = IF Actionable(Decided(market')) /\ market'.day < LastDay
                   THEN [signal |-> Len(signals) + 1, action |-> Decided(market').action,
                         pct |-> Decided(market').pct, level |-> Decided(market').level,
                         floor |-> Decided(market').floor, ath |-> Decided(market').ath,
                         prior |-> state]
                   ELSE NoOrder
  BY DEF EvaluateAtClose, Decided, Held
<1>11. QED BY <1>2, <1>4, <1>7, <1>8, <1>9, <1>10

LEMMA CloseRecords ==
  ASSUME SimInv, NEW close \in Closes, NEW peak \in Peaks, EvaluateAtClose(close, peak)
  PROVE  /\ signals' \in Seq(SignalRecords) /\ Len(signals') = Len(signals) + 1
         /\ \A i \in 1..Len(signals) : signals'[i] = signals[i]
         /\ signals'[Len(signals) + 1] =
              [day |-> market'.day, action |-> Decided(market').action,
               status |-> SignalStatus(Decided(market'), market'.day)]
         /\ order' \in Orders \union {NoOrder}
         /\ order' # NoOrder =>
              /\ pc' = "open" /\ market'.day < LastDay /\ Actionable(Decided(market'))
              /\ order' = [signal |-> Len(signals) + 1, action |-> Decided(market').action,
                           pct |-> Decided(market').pct, level |-> Decided(market').level,
                           floor |-> Decided(market').floor, ath |-> Decided(market').ath,
                           prior |-> state]
         /\ order' = NoOrder => ~(Actionable(Decided(market')) /\ market'.day < LastDay)
<1> DEFINE d      == Decided(market')
           signal == [day |-> market'.day, action |-> d.action,
                      status |-> SignalStatus(d, market'.day)]
           placed == [signal |-> Len(signals) + 1, action |-> d.action, pct |-> d.pct,
                      level |-> d.level, floor |-> d.floor, ath |-> d.ath, prior |-> state]
<1>1. d \in Outcomes /\ market'.day \in Nat /\ state \in PersistedStates
      /\ signals \in Seq(SignalRecords)
  BY CloseFacts DEF SoundOutcome, Markets, SimInv, Typed
<1>2. signals' = Append(signals, signal)
  BY CloseFacts
<1>3. order' = IF Actionable(d) /\ market'.day < LastDay THEN placed ELSE NoOrder
  BY CloseFacts
<1>4. pc' = IF market'.day = LastDay THEN "done" ELSE "open"
  BY DEF EvaluateAtClose
<1> HIDE DEF d
<1>5. signal \in SignalRecords
  BY <1>1 DEF SignalRecords, SignalStatus, Statuses, Outcomes
<1>6. Actionable(d) => placed \in Orders
  <2>1. Len(signals) + 1 \in Nat
    BY <1>1, LenProperties
  <2>2. QED BY <1>1, <2>1 DEF Actionable, Orders, Outcomes
<1>7. placed # NoOrder
  <2>1. placed.signal # NoOrder.signal
    BY <1>1, LenProperties DEF NoOrder
  <2>2. QED BY <2>1
<1> HIDE DEF signal, placed
<1>8. /\ signals' \in Seq(SignalRecords) /\ Len(signals') = Len(signals) + 1
      /\ \A i \in 1..Len(signals) : signals'[i] = signals[i]
      /\ signals'[Len(signals) + 1] = signal
  BY <1>1, <1>2, <1>5, AppendProperties
<1>9. order' \in Orders \union {NoOrder}
      /\ (order' # NoOrder => pc' = "open" /\ market'.day < LastDay /\ Actionable(d)
                             /\ order' = placed)
      /\ (order' = NoOrder => ~(Actionable(d) /\ market'.day < LastDay))
  <2>1. market'.day < LastDay => market'.day # LastDay
    BY <1>1, BacktestAssumptions
  <2>2. QED BY <1>3, <1>4, <1>6, <1>7, <2>1
<1>10. QED BY <1>8, <1>9 DEF signal, placed, d

-----------------------------------------------------------------------------
(***************************************************************************)
(* The invariant.                                                          *)
(***************************************************************************)
LEMMA InitSim == Init => SimInv
<1> SUFFICES ASSUME Init PROVE SimInv
  OBVIOUS
<1>1. market \in Markets
  <2>1. FirstDay - 1 \in Nat /\ Closes \in SUBSET Nat /\ Peaks \in SUBSET Nat
    BY BacktestAssumptions
  <2>2. QED BY <2>1, FirstFactsTyped DEF Init
<1>2. account \in Accounts
  BY BacktestAssumptions DEF Init, Accounts
<1>3. state \in PersistedStates /\ Sound(request.strategy, state)
  BY FreshSound DEF Init
<1>4. signals \in Seq(SignalRecords) /\ trades \in Seq(TradeRecords)
  BY EmptySeq DEF Init
<1>5. market.day = FirstDay - 1 /\ FirstDay - 1 < LastDay
  BY BacktestAssumptions DEF Init, FirstFacts
<1>6. QED BY <1>1, <1>2, <1>3, <1>4, <1>5 DEF Init, SimInv, Typed, OrderOfSignal, InRange

LEMMA OpenSim ==
  ASSUME SimInv, NEW open \in Opens, FillAtOpen(open)
  PROVE  SimInv'
<1>1. account' \in Accounts /\ state' \in PersistedStates /\ Sound(request.strategy, state')
      /\ signals' \in Seq(SignalRecords) /\ trades' \in Seq(TradeRecords)
  BY FillFacts, FillRecords, FillState
<1>2. order' = NoOrder /\ pc' = "close" /\ request' = request /\ market' = market
  BY DEF FillAtOpen
<1>3. market.day < LastDay
  BY DEF FillAtOpen, SimInv, InRange
<1>4. QED BY <1>1, <1>2, <1>3 DEF SimInv, Typed, OrderOfSignal, InRange

LEMMA CloseSim ==
  ASSUME SimInv, NEW close \in Closes, NEW peak \in Peaks, EvaluateAtClose(close, peak)
  PROVE  SimInv'
<1> DEFINE d == Decided(market')
<1>1. /\ pc' \in {"open", "done"} /\ request' = request /\ account' = account
      /\ trades' = trades /\ state' = d.next
  BY CloseFacts DEF EvaluateAtClose
<1>2. d \in Outcomes /\ Sound(request.strategy, d.next) /\ market' \in Markets
  BY CloseFacts DEF SoundOutcome
<1>3. Typed'
  BY <1>1, <1>2, CloseRecords DEF SimInv, Typed, Outcomes
<1>4. ASSUME order' # NoOrder PROVE OrderOfSignal'
  <2>1. /\ pc' = "open" /\ Actionable(d) /\ market'.day < LastDay
        /\ order'.signal = Len(signals) + 1 /\ order'.action = d.action
        /\ order'.prior = state
    BY <1>4, CloseRecords
  <2>2. /\ Len(signals') = Len(signals) + 1 /\ Len(signals) \in Nat
        /\ signals'[Len(signals) + 1] =
             [day |-> market'.day, action |-> d.action, status |-> SignalStatus(d, market'.day)]
    BY CloseRecords, LenProperties DEF SimInv, Typed
  <2>3. SignalStatus(d, market'.day) = "PENDING"
    BY <1>2, <2>1, BacktestAssumptions DEF SignalStatus, Markets
  <2>4. ASSUME d.action \in Sells PROVE account.qty > 0 /\ d.next.highestPrice > 0
    <3>1. account.qty > 0
      BY <2>4, CloseFacts DEF BeginsCampaign
    <3>2. KeepsCampaign(Observed(market', state), d)
      BY <3>1, CloseFacts
    <3>3. Observed(market', state).highestPrice > 0
      BY CloseFacts, ObservedKeeps DEF SimInv, Typed
    <3>4. QED BY <3>1, <3>2, <3>3 DEF KeepsCampaign
  <2>5. Sound(request.strategy, order'.prior)
    BY <2>1 DEF SimInv
  <2> HIDE DEF d
  <2>6. QED BY <1>1, <2>1, <2>2, <2>3, <2>4, <2>5 DEF OrderOfSignal
<1>5. InRange'
  <2>1. market.day < LastDay /\ market.day \in Nat /\ market'.day = market.day + 1
        /\ pc' = IF market'.day = LastDay THEN "done" ELSE "open"
    BY CloseFacts DEF EvaluateAtClose, SimInv, InRange, Typed, Markets
  <2>2. QED BY <2>1, BacktestAssumptions DEF InRange
<1>6. QED BY <1>1, <1>2, <1>3, <1>4, <1>5 DEF SimInv, OrderOfSignal

LEMMA NextSim == SimInv /\ [Next]_vars => SimInv'
<1> SUFFICES ASSUME SimInv, [Next]_vars PROVE SimInv'
  OBVIOUS
<1>1. CASE \E open \in Opens : FillAtOpen(open)
  BY <1>1, OpenSim
<1>2. CASE NoFillAtOpen
  BY <1>2 DEF NoFillAtOpen, SimInv, Typed, OrderOfSignal, InRange
<1>3. CASE \E close \in Closes, peak \in Peaks : EvaluateAtClose(close, peak)
  BY <1>3, CloseSim
<1>4. CASE UNCHANGED vars
  BY <1>4 DEF vars, SimInv, Typed, OrderOfSignal, InRange
<1>5. QED BY <1>1, <1>2, <1>3, <1>4 DEF Next, Terminating

\* The types, a sound strategy state and a pending order that belongs to the
\* last signal, in every reachable state.
THEOREM SimulationInvariance == Spec => []SimInv
<1>1. QED BY InitSim, NextSim, PTL DEF Spec

-----------------------------------------------------------------------------
(***************************************************************************)
(* Campaign and position.                                                  *)
(***************************************************************************)
LEMMA NextCampaign ==
  SimInv /\ CampaignMatchesPosition /\ [Next]_vars => CampaignMatchesPosition'
<1> SUFFICES ASSUME SimInv, CampaignMatchesPosition, [Next]_vars
             PROVE  CampaignMatchesPosition'
  OBVIOUS
<1>1. CASE \E open \in Opens : FillAtOpen(open)
  BY <1>1 DEF FillAtOpen, CampaignMatchesPosition
<1>2. CASE NoFillAtOpen
  BY <1>2 DEF NoFillAtOpen, CampaignMatchesPosition
<1>3. ASSUME NEW close \in Closes, NEW peak \in Peaks, EvaluateAtClose(close, peak)
      PROVE  CampaignMatchesPosition'
  <2> DEFINE d == Decided(market')
  <2>1. account' = account /\ state' = d.next /\ d \in Outcomes /\ market' \in Markets
        /\ (d.ath => d.action = "BUY") /\ d.next.positionOpen \in BOOLEAN
    BY <1>3, CloseFacts DEF EvaluateAtClose, SoundOutcome, Outcomes, PersistedStates
  <2>2. CASE account.qty > 0
    <3>1. d.next.positionOpen
      BY <1>3, <2>2, CloseFacts DEF KeepsCampaign
    <3>2. QED BY <2>1, <2>2, <3>1 DEF CampaignMatchesPosition
  <2>3. CASE ~(account.qty > 0) /\ pc' = "open"
    <3>1. d.next.positionOpen <=> d.ath
      BY <1>3, <2>3, CloseFacts DEF BeginsCampaign
    <3>2. market'.day < LastDay
      BY <1>3, <2>1, <2>3, CloseSim DEF SimInv, InRange
    <3>3. order' = NoOrder => ~d.ath
      BY <1>3, <2>1, <3>2, CloseRecords DEF Actionable
    <3>4. order' # NoOrder => order'.ath = d.ath
      BY <1>3, CloseRecords
    <3> HIDE DEF d
    <3>5. QED BY <2>1, <2>3, <3>1, <3>3, <3>4 DEF CampaignMatchesPosition
  <2>4. CASE pc' # "open"
    BY <2>4 DEF CampaignMatchesPosition
  <2>5. QED BY <2>2, <2>3, <2>4
<1>4. CASE UNCHANGED vars
  BY <1>4 DEF vars, CampaignMatchesPosition
<1>5. QED BY <1>1, <1>2, <1>3, <1>4 DEF Next, Terminating

\* Between candles the engine's open campaign is the simulator's position, or
\* the override entry about to open one: a rejected or partial fill never
\* leaves the strategy state with a position that does not exist.
THEOREM CampaignIsPosition == Spec => []CampaignMatchesPosition
<1>1. Init => CampaignMatchesPosition
  BY DEF Init, CampaignMatchesPosition
<1>2. QED BY <1>1, NextCampaign, SimulationInvariance, PTL DEF Spec

-----------------------------------------------------------------------------
(***************************************************************************)
(* Cash.                                                                   *)
(***************************************************************************)
CashInv == account.cash >= 0 /\ account.budget >= 0

LEMMA NextCash ==
  ASSUME FeesBelowWhole
  PROVE  SimInv /\ CashInv /\ [Next]_vars => CashInv'
<1>fees. \A fee \in Fees : fee < 100
  BY DEF FeesBelowWhole
<1> SUFFICES ASSUME SimInv, CashInv, [Next]_vars PROVE CashInv'
  OBVIOUS
<1>1. ASSUME NEW open \in Opens, FillAtOpen(open)
      PROVE  CashInv'
  <2> DEFINE fill == Fill(open)
  <2>1. account \in Accounts /\ fill.qty \in Nat /\ fill.gross \in Nat /\ fill.fee \in Nat
    BY <1>1, FillFacts DEF SimInv, Typed
  <2>2. CASE fill.status # "EXECUTED"
    BY <1>1, <2>2, FillFacts DEF CashInv
  <2>3. CASE fill.status = "EXECUTED" /\ order.action = "BUY"
    <3>1. /\ account' = AfterBuy(account, fill) /\ fill.gross + fill.fee <= account.cash
      BY <1>1, <2>3, FillFacts
    <3>2. CycleBudget(account) >= 0
      BY DEF CycleBudget, CashInv
    <3> HIDE DEF fill
    <3>3. /\ account'.cash = account.cash - fill.gross - fill.fee
          /\ account'.budget = CycleBudget(account)
      BY <2>1, <3>1, AccountAfterFill
    <3>4. QED BY <2>1, <3>1, <3>2, <3>3 DEF CashInv, Accounts
  <2>4. CASE fill.status = "EXECUTED" /\ order.action # "BUY"
    <3>1. request.fee < 100
      <4>1. request.fee \in Fees
        BY DEF SimInv, Typed, Requests
      <4>2. QED BY <4>1, <1>fees
    <3>2. /\ account' = AfterSell(account, fill) /\ fill.qty <= account.qty
          /\ fill.fee <= fill.gross
      BY <1>1, <2>4, <3>1, FillFacts
    <3> HIDE DEF fill
    <3>3. /\ account'.cash = account.cash + fill.gross - fill.fee
          /\ account'.budget = account.budget
      BY <2>1, <3>2, AccountAfterFill
    <3>4. QED BY <2>1, <3>2, <3>3 DEF CashInv, Accounts
  <2>5. QED BY <2>2, <2>3, <2>4
<1>2. CASE NoFillAtOpen
  BY <1>2 DEF NoFillAtOpen, CashInv
<1>3. CASE \E close \in Closes, peak \in Peaks : EvaluateAtClose(close, peak)
  BY <1>3 DEF EvaluateAtClose, CashInv
<1>4. CASE UNCHANGED vars
  BY <1>4 DEF vars, CashInv
<1>5. QED BY <1>1, <1>2, <1>3, <1>4 DEF Next, Terminating

LEMMA CashInvariance ==
  ASSUME FeesBelowWhole
  PROVE  Spec => []CashInv
<1>1. Init => CashInv
  BY BacktestAssumptions DEF Init, CashInv
<1>2. SimInv /\ CashInv /\ [Next]_vars => CashInv'
  BY NextCash
<1>3. QED BY <1>1, <1>2, SimulationInvariance, PTL DEF Spec

\* No fill borrows cash, for every price, profile and slippage, as long as the
\* fee is below 100 percent: the balance check of normalizeState never panics.
THEOREM NeverBorrows ==
  ASSUME FeesBelowWhole
  PROVE  Spec => []NoNegativeBalance
<1>1. CashInv => NoNegativeBalance
  BY DEF CashInv, NoNegativeBalance
<1>2. QED BY <1>1, CashInvariance, PTL

-----------------------------------------------------------------------------
(***************************************************************************)
(* Signals and trades.                                                     *)
(***************************************************************************)
TradesOfSignals == \A k \in 1..Len(trades) : trades[k].signal \in 1..Len(signals)

AllSettled == TradesOfSignals /\ \A i \in 1..Len(signals) : SignalSettled(i)

LEMMA OpenSettled ==
  ASSUME SimInv, AllSettled, NEW open \in Opens, FillAtOpen(open)
  PROVE  AllSettled'
<1> DEFINE K == Len(trades) + 1
<1>0. PICK o : o = order.signal
  OBVIOUS
<1>1. /\ o \in 1..Len(signals) /\ o = Len(signals) /\ pc = "open"
      /\ signals[o].action \notin {"HOLD", "WAIT"} /\ signals[o].status = "PENDING"
      /\ signals[o].day = market.day /\ Len(trades) \in Nat
  <2>1. order # NoOrder /\ order.action \in {"BUY"} \union Sells
    BY FillFacts DEF FillAtOpen, Orders
  <2>2. Len(signals) \in Nat /\ Len(trades) \in Nat
    BY LenProperties DEF SimInv, Typed
  <2>3. QED BY <1>0, <2>1, <2>2 DEF SimInv, OrderOfSignal, Sells
<1>2. /\ Len(signals') = Len(signals) /\ Len(trades') = K
      /\ \A i \in 1..Len(signals) :
           /\ signals'[i].day = signals[i].day /\ signals'[i].action = signals[i].action
           /\ i # o => signals'[i].status = signals[i].status
      /\ \A k \in 1..Len(trades) : trades'[k] = trades[k]
  BY <1>0, FillRecords
<1>3. /\ signals'[o].status = Fill(open).status /\ trades'[K].signal = o
      /\ trades'[K].status = Fill(open).status /\ trades'[K].day = market.day + 1
      /\ Fill(open).status \notin {"NO_ORDER", "PENDING", "UNEXECUTED_END_OF_DATA"}
  <2>1. trades'[K] = [signal |-> order.signal, day |-> market.day + 1,
             action |-> order.action, level |-> order.level, status |-> Fill(open).status,
             price |-> Price(open), gross |-> Fill(open).gross,
             cashAfter |-> account'.cash, qtyAfter |-> account'.qty]
    BY FillRecords
  <2>2. trades'[K].signal = o /\ trades'[K].status = Fill(open).status
        /\ trades'[K].day = market.day + 1
    BY <1>0, <2>1
  <2>3. signals'[o].status = Fill(open).status
    BY <1>0, <1>1, FillRecords
  <2>4. QED BY <2>2, <2>3, FillFacts
<1>4. TradesOfSignals'
  <2>1. \A k \in 1..Len(trades) : trades'[k].signal \in 1..Len(signals)
    BY <1>2 DEF AllSettled, TradesOfSignals
  <2>2. \A k \in 1..K : k = K \/ k \in 1..Len(trades)
    BY <1>1
  <2>3. QED BY <1>1, <1>2, <1>3, <2>1, <2>2 DEF TradesOfSignals
<1>5. /\ TradesOf(o) = {} /\ TradesOf(o)' = {K}
      /\ \A i : i # o => TradesOf(i)' = TradesOf(i)
  <2>1. TradesOf(o) = {}
    <3>1. SignalSettled(o)
      BY <1>1 DEF AllSettled
    <3>2. QED BY <1>1, <3>1 DEF SignalSettled
  <2>2. \A k : k \in 1..K <=> k = K \/ k \in 1..Len(trades)
    BY <1>1
  <2>3. \A k \in 1..Len(trades) : trades'[k].signal # o
    BY <1>2, <2>1 DEF TradesOf
  <2>4. TradesOf(o)' = {K}
    BY <1>2, <1>3, <2>2, <2>3 DEF TradesOf
  <2>5. ASSUME NEW i, i # o PROVE TradesOf(i)' = TradesOf(i)
    BY <1>2, <1>3, <2>2, <2>5 DEF TradesOf
  <2>6. QED BY <2>1, <2>4, <2>5
<1>6. ASSUME NEW i \in 1..Len(signals) PROVE SignalSettled(i)'
  <2>1. CASE i = o
    BY <1>1, <1>2, <1>3, <1>5, <2>1 DEF SignalSettled
  <2>2. CASE i # o
    <3>1. SignalSettled(i)
      BY DEF AllSettled
    <3>2. /\ signals'[i].action = signals[i].action /\ signals'[i].day = signals[i].day
          /\ signals'[i].status = signals[i].status /\ TradesOf(i)' = TradesOf(i)
          /\ \A k \in TradesOf(i) : trades'[k] = trades[k]
      BY <1>2, <1>5, <2>2 DEF TradesOf
    <3>3. signals[i].action \notin {"HOLD", "WAIT"} =>
            signals[i].status \notin {"PENDING", "UNEXECUTED_END_OF_DATA"}
      BY <1>0, <1>1, <2>2, <3>1 DEF SignalSettled
    <3>4. CASE signals[i].action \in {"HOLD", "WAIT"}
      BY <3>1, <3>2, <3>4 DEF SignalSettled
    <3>5. CASE signals[i].action \notin {"HOLD", "WAIT"}
      <4>1. PICK k \in TradesOf(i) : /\ TradesOf(i) = {k}
                                     /\ trades[k].status = signals[i].status
                                     /\ trades[k].day = signals[i].day + 1
        BY <3>1, <3>3, <3>5 DEF SignalSettled
      <4>2. /\ TradesOf(i)' = {k} /\ trades'[k].status = signals'[i].status
            /\ trades'[k].day = signals'[i].day + 1
        BY <3>2, <4>1
      <4>3. QED BY <3>2, <3>3, <3>5, <4>2 DEF SignalSettled
    <3>6. QED BY <3>4, <3>5
  <2>3. QED BY <2>1, <2>2
<1>7. QED BY <1>2, <1>4, <1>6 DEF AllSettled

LEMMA CloseSettled ==
  ASSUME SimInv, AllSettled, NEW close \in Closes, NEW peak \in Peaks,
         EvaluateAtClose(close, peak)
  PROVE  AllSettled'
<1> DEFINE d == Decided(market')
           n == Len(signals) + 1
<1>1. /\ order = NoOrder /\ pc = "close" /\ trades' = trades
      /\ pc' = IF market'.day = LastDay THEN "done" ELSE "open"
      /\ Len(signals) \in Nat /\ Len(trades) \in Nat
  BY LenProperties DEF SimInv, Typed, OrderOfSignal, EvaluateAtClose
<1>2. /\ Len(signals') = n /\ \A i \in 1..Len(signals) : signals'[i] = signals[i]
      /\ signals'[n] = [day |-> market'.day, action |-> d.action,
                        status |-> SignalStatus(d, market'.day)]
  BY CloseRecords
<1>3. d.action \in Actions /\ market'.day \in Nat
  BY CloseFacts DEF SoundOutcome, Outcomes, Markets
<1>4. TradesOfSignals'
  BY <1>1, <1>2 DEF AllSettled, TradesOfSignals
<1>5. (\A i : TradesOf(i)' = TradesOf(i)) /\ TradesOf(n) = {}
  <2>1. \A i : TradesOf(i)' = TradesOf(i)
    BY <1>1 DEF TradesOf
  <2>2. TradesOf(n) = {}
    BY <1>1 DEF TradesOf, AllSettled, TradesOfSignals
  <2>3. QED BY <2>1, <2>2
<1>6. ASSUME NEW i \in 1..Len(signals) PROVE SignalSettled(i)'
  <2>1. SignalSettled(i) /\ signals'[i] = signals[i] /\ TradesOf(i)' = TradesOf(i)
    BY <1>2, <1>5 DEF AllSettled
  <2>2. order.signal # i
    BY <1>1 DEF NoOrder
  <2>3. signals[i].action \notin {"HOLD", "WAIT"} =>
          signals[i].status \notin {"PENDING", "UNEXECUTED_END_OF_DATA"}
    BY <1>1, <2>1, <2>2 DEF SignalSettled
  <2>4. CASE signals[i].action \in {"HOLD", "WAIT"}
    BY <2>1, <2>4 DEF SignalSettled
  <2>5. CASE signals[i].action \notin {"HOLD", "WAIT"}
    <3>1. PICK k \in TradesOf(i) : /\ TradesOf(i) = {k}
                                   /\ trades[k].status = signals[i].status
                                   /\ trades[k].day = signals[i].day + 1
      BY <2>1, <2>3, <2>5 DEF SignalSettled
    <3>2. /\ TradesOf(i)' = {k} /\ trades'[k].status = signals'[i].status
          /\ trades'[k].day = signals'[i].day + 1
      BY <1>1, <2>1, <3>1
    <3>3. QED BY <2>1, <2>3, <2>5, <3>2 DEF SignalSettled
  <2>6. QED BY <2>4, <2>5
<1>7. ASSUME NEW i, i = n PROVE SignalSettled(i)'
  <2>1. /\ signals'[i].action = d.action /\ signals'[i].status = SignalStatus(d, market'.day)
        /\ TradesOf(i)' = {} /\ i = Len(signals')
    BY <1>2, <1>5, <1>7
  <2>2. CASE ~Actionable(d)
    BY <1>3, <2>1, <2>2 DEF SignalSettled, SignalStatus, Actionable, Actions
  <2>3. CASE Actionable(d) /\ market'.day = LastDay
    BY <1>1, <2>1, <2>3 DEF SignalSettled, SignalStatus, Actionable, Sells
  <2>4. CASE Actionable(d) /\ market'.day # LastDay
    <3>1. order' # NoOrder
      <4>1. market'.day < LastDay
        BY <1>1, <2>4, CloseSim DEF SimInv, InRange
      <4>2. QED BY <2>4, <4>1, CloseRecords
    <3>2. order'.signal = i
      BY <1>7, <3>1, CloseRecords
    <3>3. signals'[i].status = "PENDING" /\ signals'[i].action \notin {"HOLD", "WAIT"}
      BY <2>1, <2>4 DEF SignalStatus, Actionable, Sells
    <3>4. QED BY <2>1, <3>2, <3>3 DEF SignalSettled
  <2>5. QED BY <2>2, <2>3, <2>4
<1>8. \A i \in 1..Len(signals') : i = n \/ i \in 1..Len(signals)
  BY <1>1, <1>2
<1>9. QED BY <1>4, <1>6, <1>7, <1>8 DEF AllSettled

LEMMA NextSettled == SimInv /\ AllSettled /\ [Next]_vars => AllSettled'
<1> SUFFICES ASSUME SimInv, AllSettled, [Next]_vars PROVE AllSettled'
  OBVIOUS
<1>1. CASE \E open \in Opens : FillAtOpen(open)
  BY <1>1, OpenSettled
<1>2. CASE NoFillAtOpen
  <2>1. /\ pc = "open" /\ pc' = "close" /\ order' = order /\ order.signal = 0
        /\ signals' = signals /\ trades' = trades
    BY <1>2 DEF NoFillAtOpen, NoOrder
  <2>2. TradesOfSignals'
    BY <2>1 DEF AllSettled, TradesOfSignals
  <2>3. ASSUME NEW i \in 1..Len(signals) PROVE SignalSettled(i)'
    <3>1. SignalSettled(i) /\ TradesOf(i)' = TradesOf(i)
      BY <2>1 DEF AllSettled, TradesOf
    <3>2. QED BY <2>1, <3>1 DEF SignalSettled
  <2>4. QED BY <2>1, <2>2, <2>3 DEF AllSettled
<1>3. CASE \E close \in Closes, peak \in Peaks : EvaluateAtClose(close, peak)
  BY <1>3, CloseSettled
<1>4. CASE UNCHANGED vars
  BY <1>4 DEF vars, AllSettled, TradesOfSignals, SignalSettled, TradesOf
<1>5. QED BY <1>1, <1>2, <1>3, <1>4 DEF Next, Terminating

\* The signals that ask for an order, and those that no open followed.
Asking == {i \in 1..Len(signals) : signals[i].action \notin {"HOLD", "WAIT"}}

Unexecuted == {i \in 1..Len(signals) : signals[i].status = "UNEXECUTED_END_OF_DATA"}

\* Every signal that asks is counted once: by its trade, as the pending order
\* or as unexecuted.
Counted ==
  Len(trades) + Cardinality(Unexecuted) + (IF order = NoOrder THEN 0 ELSE 1)
    = Cardinality(Asking)

LEMMA SignalSetsFinite ==
  ASSUME SimInv
  PROVE  /\ IsFiniteSet(Asking) /\ Cardinality(Asking) \in Nat
         /\ IsFiniteSet(Unexecuted) /\ Cardinality(Unexecuted) \in Nat
<1>1. Len(signals) \in Nat
  BY LenProperties DEF SimInv, Typed
<1>2. IsFiniteSet(1..Len(signals))
  BY <1>1, FS_Interval
<1>3. Asking \in SUBSET (1..Len(signals)) /\ Unexecuted \in SUBSET (1..Len(signals))
  BY DEF Asking, Unexecuted
<1>4. QED BY <1>2, <1>3, FS_Subset, FS_CardinalityType

LEMMA OpenCounted ==
  ASSUME SimInv, Counted, NEW open \in Opens, FillAtOpen(open)
  PROVE  Counted'
<1>1. Asking' = Asking
  BY FillRecords DEF Asking
<1>2. Unexecuted' = Unexecuted
  <2>1. \A i \in 1..Len(signals) :
          signals'[i].status = "UNEXECUTED_END_OF_DATA"
            <=> signals[i].status = "UNEXECUTED_END_OF_DATA"
    <3>1. order # NoOrder
      BY DEF FillAtOpen
    <3>2. signals[order.signal].status = "PENDING"
      BY <3>1 DEF SimInv, OrderOfSignal
    <3>3. Fill(open).status # "UNEXECUTED_END_OF_DATA"
      BY FillFacts
    <3>4. QED BY <3>2, <3>3, FillRecords
  <2>2. Len(signals') = Len(signals)
    BY FillRecords
  <2>3. QED BY <2>1, <2>2 DEF Unexecuted
<1>3. Len(trades') = Len(trades) + 1 /\ order # NoOrder /\ order' = NoOrder
  BY FillRecords DEF FillAtOpen
<1>4. Len(trades) \in Nat /\ Cardinality(Unexecuted) \in Nat
  BY SignalSetsFinite, LenProperties DEF SimInv, Typed
<1>5. QED BY <1>1, <1>2, <1>3, <1>4 DEF Counted

LEMMA CloseCounted ==
  ASSUME SimInv, Counted, NEW close \in Closes, NEW peak \in Peaks,
         EvaluateAtClose(close, peak)
  PROVE  Counted'
<1> DEFINE d    == Decided(market')
           n    == Len(signals) + 1
           last == market'.day = LastDay
<1>1. order = NoOrder /\ trades' = trades /\ Len(signals) \in Nat /\ Len(trades) \in Nat
  BY LenProperties DEF SimInv, Typed, OrderOfSignal, EvaluateAtClose
<1>2. /\ Len(signals') = n /\ \A i \in 1..Len(signals) : signals'[i] = signals[i]
      /\ signals'[n].action = d.action
      /\ signals'[n].status = SignalStatus(d, market'.day)
  BY CloseRecords
<1>3. d.action \in Actions
  BY CloseFacts DEF SoundOutcome, Outcomes
<1>4. order' # NoOrder <=> Actionable(d) /\ ~last
  <2>1. market'.day < LastDay <=> ~last
    <3>1. market'.day = market.day + 1 /\ market.day \in Nat /\ market.day < LastDay
      BY CloseFacts DEF SimInv, InRange, EvaluateAtClose, Typed, Markets
    <3>2. LastDay \in Nat
      BY BacktestAssumptions
    <3>3. QED BY <3>1, <3>2
  <2>2. QED BY <2>1, CloseRecords
<1>5. \A i : i \in 1..n <=> i = n \/ i \in 1..Len(signals)
  BY <1>1
<1>6. n \notin Asking /\ n \notin Unexecuted
  BY <1>1 DEF Asking, Unexecuted
<1>7. Asking' = IF Actionable(d) THEN Asking \cup {n} ELSE Asking
  <2>1. d.action \notin {"HOLD", "WAIT"} <=> Actionable(d)
    BY <1>3 DEF Actionable, Actions, Sells
  <2> HIDE DEF d, n
  <2>2. QED BY <1>2, <1>5, <2>1 DEF Asking
<1>8. Unexecuted' = IF Actionable(d) /\ last THEN Unexecuted \cup {n} ELSE Unexecuted
  <2>1. SignalStatus(d, market'.day) = "UNEXECUTED_END_OF_DATA" <=> Actionable(d) /\ last
    BY DEF SignalStatus
  <2> HIDE DEF d, n, last
  <2>2. QED BY <1>2, <1>5, <2>1 DEF Unexecuted
<1>9. /\ Cardinality(Asking \cup {n}) = Cardinality(Asking) + 1
      /\ Cardinality(Unexecuted \cup {n}) = Cardinality(Unexecuted) + 1
      /\ Cardinality(Asking) \in Nat /\ Cardinality(Unexecuted) \in Nat
  BY <1>6, SignalSetsFinite, FS_AddElement
<1> HIDE DEF d, n, last
<1>10. QED BY <1>1, <1>4, <1>7, <1>8, <1>9 DEF Counted

LEMMA NextCounted == SimInv /\ Counted /\ [Next]_vars => Counted'
<1> SUFFICES ASSUME SimInv, Counted, [Next]_vars PROVE Counted'
  OBVIOUS
<1>1. CASE \E open \in Opens : FillAtOpen(open)
  BY <1>1, OpenCounted
<1>2. CASE NoFillAtOpen
  BY <1>2 DEF NoFillAtOpen, Counted, Asking, Unexecuted
<1>3. CASE \E close \in Closes, peak \in Peaks : EvaluateAtClose(close, peak)
  BY <1>3, CloseCounted
<1>4. CASE UNCHANGED vars
  BY <1>4 DEF vars, Counted, Asking, Unexecuted
<1>5. QED BY <1>1, <1>2, <1>3, <1>4 DEF Next, Terminating

LEMMA SettledInvariance == Spec => [](AllSettled /\ Counted)
<1>1. Init => AllSettled /\ Counted
  <2> SUFFICES ASSUME Init PROVE AllSettled /\ Counted
    OBVIOUS
  <2>1. Len(signals) = 0 /\ Len(trades) = 0 /\ order = NoOrder
    BY EmptySeq DEF Init
  <2>2. Asking = {} /\ Unexecuted = {}
    BY <2>1 DEF Asking, Unexecuted
  <2>3. AllSettled
    BY <2>1 DEF AllSettled, TradesOfSignals
  <2>4. Counted
    BY <2>1, <2>2, FS_EmptySet DEF Counted
  <2>5. QED BY <2>3, <2>4
<1>2. SimInv /\ (AllSettled /\ Counted) /\ [Next]_vars => (AllSettled /\ Counted)'
  BY NextSettled, NextCounted
<1>3. QED BY <1>1, <1>2, SimulationInvariance, PTL DEF Spec

\* Every signal that asks for an order has exactly one outcome, and the counts
\* of the summary add up, over a range of any length.
THEOREM SignalsAlwaysSettled == Spec => []SignalsSettled
<1>1. SimInv /\ AllSettled /\ Counted => SignalsSettled
  <2> SUFFICES ASSUME SimInv, AllSettled, Counted PROVE SignalsSettled
    OBVIOUS
  <2>1. ASSUME pc = "done"
        PROVE  Summary.executed + Summary.rejected + Summary.unexecuted = Cardinality(Asking)
    <3>1. order = NoOrder
      BY <2>1 DEF SimInv, OrderOfSignal
    <3>2. Len(trades) + Cardinality(Unexecuted) = Cardinality(Asking)
      BY <3>1, SignalSetsFinite, LenProperties DEF Counted, SimInv, Typed
    <3>3. Cardinality(Executed) \in Nat /\ Len(trades) \in Nat
      <4>1. Len(trades) \in Nat
        BY LenProperties DEF SimInv, Typed
      <4>2. IsFiniteSet(1..Len(trades)) /\ Executed \in SUBSET (1..Len(trades))
        BY <4>1, FS_Interval DEF Executed
      <4>3. QED BY <4>1, <4>2, FS_Subset, FS_CardinalityType
    <3>4. /\ Summary.executed = Cardinality(Executed)
          /\ Summary.rejected = Len(trades) - Cardinality(Executed)
          /\ Summary.unexecuted = Cardinality(Unexecuted)
      BY DEF Summary, Unexecuted
    <3>5. QED BY <3>2, <3>3, <3>4, SignalSetsFinite
  <2>2. QED BY <2>1 DEF SignalsSettled, AllSettled, Asking
<1>2. QED BY <1>1, SimulationInvariance, SettledInvariance, PTL

\* The types of the simulator's state; a budget is never negative because the
\* cash it is fixed from is not.
THEOREM SimulationTypeCorrect ==
  ASSUME FeesBelowWhole
  PROVE  Spec => []TypeOK
<1>1. SimInv /\ AllSettled /\ CashInv => TypeOK
  <2> SUFFICES ASSUME SimInv, AllSettled, CashInv PROVE TypeOK
    OBVIOUS
  <2>1. account \in [cash : Int, budget : Nat, qty : Nat, cost : Nat, avg : Nat]
    BY DEF SimInv, Typed, Accounts, CashInv
  <2>2. order # NoOrder => order.signal = Len(signals) /\ order.prior \in PersistedStates
    BY DEF SimInv, Typed, OrderOfSignal, Orders
  <2>3. \A i \in 1..Len(signals) :
          signals[i].action \in Actions /\ signals[i].status \in Statuses
    <3> SUFFICES ASSUME NEW i \in 1..Len(signals)
                 PROVE  signals[i].action \in Actions /\ signals[i].status \in Statuses
      OBVIOUS
    <3>1. signals[i] \in SignalRecords
      BY ElementOfSeq DEF SimInv, Typed
    <3>2. QED BY <3>1 DEF SignalRecords
  <2>4. \A k \in 1..Len(trades) : trades[k].signal \in 1..Len(signals)
    BY DEF AllSettled, TradesOfSignals
  <2>5. QED BY <2>1, <2>2, <2>3, <2>4 DEF SimInv, Typed, TypeOK
<1>2. QED BY <1>1, CashInvariance, SimulationInvariance, SettledInvariance, PTL

-----------------------------------------------------------------------------
(***************************************************************************)
(* The break-even floor.                                                   *)
(***************************************************************************)
Protected == request.strategy = DipAccumulation /\ request.config.floor

\* A protected order carries the average price of the position it sells.
FloorOfPosition ==
  order # NoOrder /\ order.action = "SELL_DRAWDOWN" /\ Protected => order.floor = account.avg

LEMMA NextFloor ==
  ASSUME FeesBelowWhole
  PROVE  SimInv /\ FloorOfPosition /\ [Next]_vars => FloorOfPosition'
<1>fees. \A fee \in Fees : fee < 100
  BY DEF FeesBelowWhole
<1> SUFFICES ASSUME SimInv, FloorOfPosition, [Next]_vars PROVE FloorOfPosition'
  OBVIOUS
<1>1. CASE \E open \in Opens : FillAtOpen(open)
  BY <1>1 DEF FillAtOpen, FloorOfPosition
<1>2. CASE NoFillAtOpen
  BY <1>2 DEF NoFillAtOpen, FloorOfPosition, Protected
<1>3. ASSUME NEW close \in Closes, NEW peak \in Peaks, EvaluateAtClose(close, peak)
      PROVE  FloorOfPosition'
  <2> DEFINE d == Decided(market')
  <2>1. request' = request /\ account' = account
    BY <1>3 DEF EvaluateAtClose
  <2>2. ASSUME order' # NoOrder, order'.action = "SELL_DRAWDOWN", Protected
        PROVE  order'.floor = account.avg
    <3>1. d.action = "SELL_DRAWDOWN" /\ order'.floor = d.floor
      BY <1>3, <2>2, CloseRecords
    <3>2. account.qty > 0
      BY <1>3, <3>1, CloseFacts DEF BeginsCampaign, Sells
    <3>3. d.floor = BreakEvenFloor(EvaluationConfig, Held)
      BY <1>3, <2>2, <3>1, <3>2, CloseFacts DEF KeepsReference, Protected
    <3>4. request.config \in Configs /\ request.fee \in Nat /\ request.fee < 100
      BY <1>fees, BacktestAssumptions DEF SimInv, Typed, Requests, ValidConfig
    <3>5. EvaluationConfig = [request.config EXCEPT !.feeBps = request.fee * 100]
      BY <2>2 DEF EvaluationConfig, Protected
    <3>6. EvaluationConfig.floor /\ EvaluationConfig.feeBps = request.fee * 100
      <4> SUFFICES ASSUME NEW c \in Configs, NEW fee, c.floor
                   PROVE  LET e == [c EXCEPT !.feeBps = fee] IN e.floor /\ e.feeBps = fee
        BY <2>2, <3>4, <3>5 DEF Protected
      <4> QED BY DEF Configs
    <3>7. EvaluationConfig.feeBps < 10000
      BY <3>4, <3>6
    <3>8. d.floor = Held.avg
      BY <3>3, <3>6, <3>7 DEF BreakEvenFloor
    <3>9. QED BY <3>1, <3>8 DEF Held
  <2>3. QED BY <2>1, <2>2 DEF FloorOfPosition, Protected
<1>4. CASE UNCHANGED vars
  BY <1>4 DEF vars, FloorOfPosition, Protected
<1>5. QED BY <1>1, <1>2, <1>3, <1>4 DEF Next, Terminating

\* A protected exit never nets less than the average entry price, at any fee
\* below 100 percent: the floor fixed at the close is still that of the position
\* sold at the open.
THEOREM NoProtectedLoss ==
  ASSUME FeesBelowWhole
  PROVE  Spec => BreakEvenKept
<1> DEFINE Kept ==
      LET k == Len(trades') IN
      /\ k > Len(trades)
      /\ trades'[k].action = "SELL_DRAWDOWN" /\ trades'[k].status = "EXECUTED"
      /\ request.strategy = DipAccumulation /\ request.config.floor
      => trades'[k].price * (100 - request.fee) >= account.avg * 100
<1>1. Init => FloorOfPosition
  BY DEF Init, FloorOfPosition
<1>2. SimInv /\ FloorOfPosition /\ [Next]_vars => FloorOfPosition'
  BY NextFloor
<1>fees. \A fee \in Fees : fee < 100
  BY DEF FeesBelowWhole
<1>3. SimInv /\ FloorOfPosition /\ [Next]_vars => [Kept]_vars
  <2> SUFFICES ASSUME SimInv, FloorOfPosition, [Next]_vars PROVE [Kept]_vars
    OBVIOUS
  <2>1. ASSUME NEW open \in Opens, FillAtOpen(open) PROVE Kept
    <3> SUFFICES ASSUME trades'[Len(trades')].action = "SELL_DRAWDOWN",
                        trades'[Len(trades')].status = "EXECUTED", Protected
                 PROVE  trades'[Len(trades')].price * (100 - request.fee) >= account.avg * 100
      BY DEF Protected
    <3>1. /\ Len(trades') = Len(trades) + 1
          /\ trades'[Len(trades) + 1] =
               [signal |-> order.signal, day |-> market.day + 1, action |-> order.action,
                level |-> order.level, status |-> Fill(open).status, price |-> Price(open),
                gross |-> Fill(open).gross,
                cashAfter |-> account'.cash, qtyAfter |-> account'.qty]
      BY <2>1, FillRecords
    <3>2. /\ order.action = "SELL_DRAWDOWN" /\ Fill(open).status = "EXECUTED"
          /\ trades'[Len(trades')].price = Price(open)
      BY <3>1
    <3>3. order # NoOrder /\ order.floor = account.avg
      BY <2>1, <3>2 DEF FillAtOpen, FloorOfPosition
    <3>4. ~NetBelowFloor(order, Price(open), request.fee) /\ Price(open) \in Nat
      BY <2>1, <3>2, FillFacts
    <3>5. request.fee \in Nat /\ request.fee < 100 /\ account.avg \in Nat
      BY <1>fees, BacktestAssumptions DEF SimInv, Typed, Requests, Accounts
    <3>6. Price(open) * (100 - request.fee) \in Nat
      BY <3>4, <3>5
    <3>7. ~(account.avg > 0 /\ Price(open) * (100 - request.fee) < account.avg * 100)
      BY <3>3, <3>4 DEF NetBelowFloor
    <3>8. QED BY <3>2, <3>5, <3>6, <3>7
  <2>2. ASSUME trades' = trades PROVE Kept
    <3>1. ~(Len(trades') > Len(trades))
      BY <2>2, LenProperties DEF SimInv, Typed
    <3>2. QED BY <3>1
  <2> HIDE DEF Kept
  <2>3. QED BY <2>1, <2>2 DEF Next, NoFillAtOpen, EvaluateAtClose, Terminating, vars
<1>4. QED BY <1>1, <1>2, <1>3, SimulationInvariance, PTL DEF Spec, BreakEvenKept

-----------------------------------------------------------------------------
(***************************************************************************)
(* Sums over trades.  The sum of the community modules is a recursive      *)
(* function over the subsets; no theorem about it is at hand that takes no *)
(* operator, so its existence is proved here for the gross amounts.        *)
(***************************************************************************)
GrossOf(ts, S) == MapThenSumSet(LAMBDA k : ts[k].gross, S)

Any(S) == CHOOSE x \in S : TRUE

\* A table of the sums over the subsets of S, as the sum over S is defined.
SumsTo(ts, S, sum) ==
  sum = [T \in SUBSET S |-> IF T = {} THEN 0 ELSE ts[Any(T)].gross + sum[T \ {Any(T)}]]

SumTable(ts, S) == CHOOSE sum : SumsTo(ts, S, sum)

LEMMA GrossIsTabled ==
  ASSUME NEW ts, NEW S
  PROVE  GrossOf(ts, S) = SumTable(ts, S)[S]
  BY DEF GrossOf, MapThenSumSet, MapThenFoldSet, SumTable, SumsTo, Any

LEMMA SmallestSet ==
  ASSUME NEW S, IsFiniteSet(S), NEW C \in SUBSET (SUBSET S), C # {}
  PROVE  \E T \in C : \A U \in C : ~(U \subseteq T /\ U # T)
<1> DEFINE R == StrictSubsetOrdering(S)
<1>1. IsWellFoundedOn(R, FiniteSubsetsOf(S))
  BY FS_StrictSubsetOrderingWellFounded
<1>2. C \subseteq FiniteSubsetsOf(S)
  BY FS_Subset DEF FiniteSubsetsOf
<1>3. PICK T \in C : \A U \in C : ~(<<U, T>> \in R)
  <2> HIDE DEF R
  <2>1. QED BY <1>1, <1>2, WFMin
<1>4. ASSUME NEW U \in C, U \subseteq T, U # T PROVE FALSE
  <2>1. <<U, T>> \in R
    BY <1>4 DEF StrictSubsetOrdering
  <2>2. QED BY <1>3, <2>1
<1>5. QED BY <1>3, <1>4

\* Two tables agree on the sets both know.
LEMMA TablesAgree ==
  ASSUME NEW ts, NEW S, IsFiniteSet(S), NEW U, NEW a, NEW b,
         SumsTo(ts, S, a), SumsTo(ts, U, b), NEW T, T \subseteq S, T \subseteq U
  PROVE  a[T] = b[T]
<1> DEFINE C == {V \in SUBSET S : V \subseteq U /\ a[V] # b[V]}
<1> SUFFICES ASSUME C # {} PROVE FALSE
  OBVIOUS
<1>1. PICK V \in C : \A W \in C : ~(W \subseteq V /\ W # V)
  <2>1. C \in SUBSET (SUBSET S)
    OBVIOUS
  <2> HIDE DEF C
  <2>2. QED BY <2>1, SmallestSet
<1>2. V \subseteq S /\ V \subseteq U /\ a[V] # b[V]
  OBVIOUS
<1>3. V # {}
  BY <1>2 DEF SumsTo
<1> DEFINE W == V \ {Any(V)}
<1>4. Any(V) \in V
  BY <1>3 DEF Any
<1>5. a[W] = b[W]
  <2>1. W \subseteq V /\ W # V /\ W \subseteq S /\ W \subseteq U
    BY <1>2, <1>4
  <2>2. W \notin C
    BY <1>1, <2>1
  <2>3. QED BY <2>1, <2>2
<1>6. a[V] = ts[Any(V)].gross + a[W] /\ b[V] = ts[Any(V)].gross + b[W]
  BY <1>2, <1>3 DEF SumsTo
<1>7. QED BY <1>2, <1>5, <1>6

LEMMA TableExists ==
  ASSUME NEW ts, NEW S, IsFiniteSet(S)
  PROVE  SumsTo(ts, S, SumTable(ts, S))
<1> DEFINE C == {T \in SUBSET S : ~ \E sum : SumsTo(ts, T, sum)}
<1>1. C = {}
  <2> SUFFICES ASSUME C # {} PROVE FALSE
    OBVIOUS
  <2>1. PICK T \in C : \A U \in C : ~(U \subseteq T /\ U # T)
    <3>1. C \in SUBSET (SUBSET S)
      OBVIOUS
    <3> HIDE DEF C
    <3>2. QED BY <3>1, SmallestSet
  <2>2. \A U : U \subseteq T /\ U # T => IsFiniteSet(U) /\ SumsTo(ts, U, SumTable(ts, U))
    <3> SUFFICES ASSUME NEW U, U \subseteq T, U # T
                 PROVE  IsFiniteSet(U) /\ SumsTo(ts, U, SumTable(ts, U))
      OBVIOUS
    <3>1. U \subseteq S /\ U \notin C
      BY <2>1
    <3>2. \E sum : SumsTo(ts, U, sum)
      BY <3>1
    <3>3. SumsTo(ts, U, SumTable(ts, U))
      BY <3>2 DEF SumTable
    <3>4. QED BY <3>1, <3>3, FS_Subset
  <2> DEFINE part(U) == SumTable(ts, U)[U]
             sum == [U \in SUBSET T |-> IF U = {} THEN 0
                                        ELSE ts[Any(U)].gross + part(U \ {Any(U)})]
  <2>3. ASSUME NEW U, U \subseteq T, U # T PROVE sum[U] = part(U)
    <3>1. SumsTo(ts, U, SumTable(ts, U)) /\ IsFiniteSet(U)
      BY <2>2, <2>3
    <3>2. CASE U = {}
      BY <3>1, <3>2 DEF SumsTo
    <3>3. CASE U # {}
      <4> DEFINE V == U \ {Any(U)}
      <4>1. Any(U) \in U /\ V \subseteq U /\ V \subseteq T /\ V # T
        BY <2>3, <3>3 DEF Any
      <4>2. SumTable(ts, U)[U] = ts[Any(U)].gross + SumTable(ts, U)[V]
        BY <3>1, <3>3, <4>1 DEF SumsTo
      <4>3. SumsTo(ts, V, SumTable(ts, V))
        BY <2>2, <4>1
      <4>4. SumTable(ts, U)[V] = SumTable(ts, V)[V]
        BY <3>1, <4>1, <4>3, TablesAgree
      <4>5. QED BY <2>3, <3>3, <4>2, <4>4
    <3>4. QED BY <3>2, <3>3
  <2>4. SumsTo(ts, T, sum)
    <3>1. ASSUME NEW U \in SUBSET T, U # {} PROVE part(U \ {Any(U)}) = sum[U \ {Any(U)}]
      <4>1. Any(U) \in U
        BY <3>1 DEF Any
      <4>2. U \ {Any(U)} \subseteq T /\ U \ {Any(U)} # T
        BY <4>1
      <4> HIDE DEF sum, part
      <4>3. QED BY <2>3, <4>2
    <3> DEFINE next(U) == IF U = {} THEN 0 ELSE ts[Any(U)].gross + sum[U \ {Any(U)}]
    <3>2. \A U \in SUBSET T : sum[U] = next(U)
      <4>1. \A U \in SUBSET T : sum[U] = IF U = {} THEN 0
                                         ELSE ts[Any(U)].gross + part(U \ {Any(U)})
        OBVIOUS
      <4> HIDE DEF sum, part
      <4>2. QED BY <3>1, <4>1
    <3>3. sum = [U \in SUBSET T |-> sum[U]]
      OBVIOUS
    <3> HIDE DEF sum
    <3>4. sum = [U \in SUBSET T |-> next(U)]
      <4> HIDE DEF next
      <4>1. QED BY <3>2, <3>3
    <3>5. QED BY <3>4 DEF SumsTo
  <2>5. QED BY <2>1, <2>4
<1>2. \E sum : SumsTo(ts, S, sum)
  BY <1>1
<1>3. QED BY <1>2 DEF SumTable

\* The sum takes one element after the other.
LEMMA GrossStep ==
  ASSUME NEW ts, NEW S, IsFiniteSet(S)
  PROVE  /\ S = {} => GrossOf(ts, S) = 0
         /\ S # {} => /\ Any(S) \in S
                      /\ GrossOf(ts, S) = ts[Any(S)].gross + GrossOf(ts, S \ {Any(S)})
<1>1. SumsTo(ts, S, SumTable(ts, S))
  BY TableExists
<1>2. CASE S = {}
  BY <1>1, <1>2, GrossIsTabled DEF SumsTo
<1>3. CASE S # {}
  <2> DEFINE T == S \ {Any(S)}
  <2>1. Any(S) \in S
    BY <1>3 DEF Any
  <2>2. SumTable(ts, S)[S] = ts[Any(S)].gross + SumTable(ts, S)[T]
    BY <1>1, <1>3 DEF SumsTo
  <2>3. IsFiniteSet(T)
    BY FS_Subset
  <2>4. SumsTo(ts, T, SumTable(ts, T))
    BY <2>3, TableExists
  <2>5. SumTable(ts, S)[T] = SumTable(ts, T)[T]
    BY <1>1, <2>4, TablesAgree
  <2>6. QED BY <1>3, <2>1, <2>2, <2>5, GrossIsTabled
<1>4. QED BY <1>2, <1>3

LEMMA GrossTyped ==
  ASSUME NEW ts, NEW S, IsFiniteSet(S), \A k \in S : ts[k].gross \in Nat
  PROVE  GrossOf(ts, S) \in Nat
<1> DEFINE C == {T \in SUBSET S : GrossOf(ts, T) \notin Nat}
<1> SUFFICES ASSUME C # {} PROVE FALSE
  OBVIOUS
<1>1. PICK T \in C : \A U \in C : ~(U \subseteq T /\ U # T)
  <2>1. C \in SUBSET (SUBSET S)
    OBVIOUS
  <2> HIDE DEF C
  <2>2. QED BY <2>1, SmallestSet
<1>2. T \subseteq S /\ GrossOf(ts, T) \notin Nat /\ IsFiniteSet(T)
  BY FS_Subset
<1>a. T # {}
  <2>1. T = {} => GrossOf(ts, T) = 0
    BY <1>2, GrossStep
  <2>2. QED BY <1>2, <2>1
<1>3. Any(T) \in T /\ GrossOf(ts, T) = ts[Any(T)].gross + GrossOf(ts, T \ {Any(T)})
  BY <1>2, <1>a, GrossStep
<1>4. GrossOf(ts, T \ {Any(T)}) \in Nat
  BY <1>1, <1>2, <1>3
<1>5. ts[Any(T)].gross \in Nat
  BY <1>2, <1>3
<1>6. QED BY <1>2, <1>3, <1>4, <1>5

LEMMA GrossWithout ==
  ASSUME NEW ts, NEW S, IsFiniteSet(S), \A k \in S : ts[k].gross \in Nat, NEW x \in S
  PROVE  GrossOf(ts, S) = ts[x].gross + GrossOf(ts, S \ {x})
<1> DEFINE good(T) == \A y \in T : GrossOf(ts, T) = ts[y].gross + GrossOf(ts, T \ {y})
           C == {T \in SUBSET S : ~good(T)}
<1> SUFFICES ASSUME C # {} PROVE FALSE
  OBVIOUS
<1>1. PICK T \in C : \A U \in C : ~(U \subseteq T /\ U # T)
  <2>1. C \in SUBSET (SUBSET S)
    OBVIOUS
  <2> HIDE DEF C
  <2>2. QED BY <2>1, SmallestSet
<1>2. PICK y \in T : GrossOf(ts, T) # ts[y].gross + GrossOf(ts, T \ {y})
  BY <1>1
<1>3. T \subseteq S /\ IsFiniteSet(T)
  BY <1>1, FS_Subset
<1> DEFINE z == Any(T)
           U == T \ {y}
           V == T \ {z}
           W == T \ {y, z}
<1>4. z \in T /\ GrossOf(ts, T) = ts[z].gross + GrossOf(ts, V)
  BY <1>2, <1>3, GrossStep
<1> HIDE DEF z
<1>5. y # z
  BY <1>2, <1>4
<1>6. GrossOf(ts, U) = ts[z].gross + GrossOf(ts, W)
  <2>1. U \notin C /\ U \subseteq S
    BY <1>1, <1>2
  <2>2. z \in U /\ U \ {z} = W
    BY <1>4, <1>5
  <2>3. QED BY <2>1, <2>2
<1>7. GrossOf(ts, V) = ts[y].gross + GrossOf(ts, W)
  <2>1. V \notin C /\ V \subseteq S
    BY <1>1, <1>4
  <2>2. y \in V /\ V \ {y} = W
    BY <1>2, <1>5
  <2>3. QED BY <2>1, <2>2
<1>8. ts[y].gross \in Nat /\ ts[z].gross \in Nat /\ GrossOf(ts, W) \in Nat
  <2>1. IsFiniteSet(W) /\ \A k \in W : ts[k].gross \in Nat
    BY <1>3, FS_Subset
  <2>2. QED BY <1>2, <1>3, <1>4, <2>1, GrossTyped
<1>9. QED BY <1>2, <1>4, <1>6, <1>7, <1>8

LEMMA GrossSame ==
  ASSUME NEW ts, NEW us, NEW S, IsFiniteSet(S), \A k \in S : ts[k] = us[k]
  PROVE  GrossOf(ts, S) = GrossOf(us, S)
<1> DEFINE C == {T \in SUBSET S : GrossOf(ts, T) # GrossOf(us, T)}
<1> SUFFICES ASSUME C # {} PROVE FALSE
  OBVIOUS
<1>1. PICK T \in C : \A U \in C : ~(U \subseteq T /\ U # T)
  <2>1. C \in SUBSET (SUBSET S)
    OBVIOUS
  <2> HIDE DEF C
  <2>2. QED BY <2>1, SmallestSet
<1>2. T \subseteq S /\ GrossOf(ts, T) # GrossOf(us, T) /\ IsFiniteSet(T)
  BY FS_Subset
<1>3. /\ T # {} /\ Any(T) \in T
      /\ GrossOf(ts, T) = ts[Any(T)].gross + GrossOf(ts, T \ {Any(T)})
      /\ GrossOf(us, T) = us[Any(T)].gross + GrossOf(us, T \ {Any(T)})
  BY <1>2, GrossStep
<1>4. GrossOf(ts, T \ {Any(T)}) = GrossOf(us, T \ {Any(T)})
  BY <1>1, <1>3
<1>5. QED BY <1>2, <1>3, <1>4

-----------------------------------------------------------------------------
(***************************************************************************)
(* The trades of the position now held.                                    *)
(***************************************************************************)
\* No sale since trade k, nor trade k itself, left the position empty.
Live == {k \in Executed : \A i \in Executed : k <= i => trades[i].qtyAfter > 0}

\* While there is a position, Live are the trades of its cycle: the last trade
\* tells what is held.
CycleInv ==
  /\ account.qty = 0 => Live = {}
  /\ Len(trades) \in Executed => trades[Len(trades)].qtyAfter = account.qty

LEMMA LiveIsCycle ==
  ASSUME SimInv, CycleInv, account.qty > 0
  PROVE  CycleTrades = Live
<1>1. Len(trades) \in Nat
  BY LenProperties DEF SimInv, Typed
<1>2. ASSUME NEW k \in Live PROVE k \in CycleTrades
  BY <1>1 DEF Live, CycleTrades, SameCycle, Executed
<1>3. ASSUME NEW k \in CycleTrades PROVE k \in Live
  <2>1. k \in Executed /\ k \in 1..Len(trades)
    BY DEF CycleTrades, Executed
  <2>2. ASSUME NEW i \in Executed, k <= i PROVE trades[i].qtyAfter > 0
    <3>1. i \in 1..Len(trades)
      BY DEF Executed
    <3>2. CASE i = Len(trades)
      BY <3>2 DEF CycleInv
    <3>3. CASE i # Len(trades)
      <4>1. i \in k..Len(trades) - 1
        BY <1>1, <2>1, <2>2, <3>1, <3>3
      <4>2. QED BY <4>1 DEF CycleTrades, SameCycle
    <3>4. QED BY <3>2, <3>3
  <2>3. QED BY <2>1, <2>2 DEF Live
<1>4. QED BY <1>2, <1>3

\* How the open of a candle changes the live trades.
LEMMA LiveAfterFill ==
  ASSUME SimInv, CycleInv, NEW open \in Opens, FillAtOpen(open)
  PROVE  LET K == Len(trades) + 1 IN
         /\ CycleInv'
         /\ K \notin Executed /\ Len(trades) \in Nat
         /\ Executed' = IF Fill(open).status = "EXECUTED" THEN Executed \cup {K} ELSE Executed
         /\ Live' \subseteq Live \cup {K}
         /\ Fill(open).status # "EXECUTED" => Live' = Live
         /\ Fill(open).status = "EXECUTED" /\ account'.qty > 0 => Live' = Live \cup {K}
<1> DEFINE K == Len(trades) + 1
<1>1. Len(trades) \in Nat /\ Len(trades') = K /\ account'.qty \in Nat
  BY LenProperties, FillFacts, FillRecords DEF SimInv, Typed, Accounts
<1>2. /\ \A k \in 1..Len(trades) : trades'[k] = trades[k]
      /\ trades'[K].status = Fill(open).status /\ trades'[K].qtyAfter = account'.qty
  <2>1. /\ \A k \in 1..Len(trades) : trades'[k] = trades[k]
        /\ trades'[K] = [signal |-> order.signal, day |-> market.day + 1,
             action |-> order.action, level |-> order.level, status |-> Fill(open).status,
             price |-> Price(open), gross |-> Fill(open).gross,
             cashAfter |-> account'.cash, qtyAfter |-> account'.qty]
    BY FillRecords
  <2>2. QED BY <2>1
<1>3. \A k : k \in 1..K <=> k = K \/ k \in 1..Len(trades)
  BY <1>1
<1>4. K \notin Executed /\ \A k \in Executed : k \in 1..Len(trades) /\ k < K /\ k \in Nat
  BY <1>1 DEF Executed
<1>5. Executed' = IF Fill(open).status = "EXECUTED" THEN Executed \cup {K} ELSE Executed
  BY <1>1, <1>2, <1>3 DEF Executed
<1>6. \A k \in Executed : trades'[k] = trades[k]
  BY <1>2, <1>4
<1> HIDE DEF K
<1>7. CASE Fill(open).status # "EXECUTED"
  <2>1. Executed' = Executed /\ account' = account
    BY <1>5, <1>7, FillFacts
  <2>2. Live' = Live
    BY <1>6, <2>1 DEF Live
  <2>3. CycleInv'
    BY <1>1, <1>4, <2>1, <2>2 DEF CycleInv
  <2>4. QED BY <1>1, <1>4, <1>5, <1>7, <2>2, <2>3 DEF K
<1>8. CASE Fill(open).status = "EXECUTED"
  <2>1. Executed' = Executed \cup {K}
    BY <1>5, <1>8
  <2>2. K \in Nat
    BY <1>1 DEF K
  <2>3. CASE account'.qty > 0
    <3>1. Live' = Live \cup {K}
      BY <1>2, <1>4, <1>6, <2>1, <2>2, <2>3 DEF Live
    <3>2. CycleInv'
      BY <1>1, <1>2, <2>3 DEF CycleInv
    <3>3. QED BY <1>1, <1>4, <1>5, <1>8, <3>1, <3>2 DEF K
  <2>4. CASE ~(account'.qty > 0)
    <3>1. Live' = {}
      BY <1>2, <1>4, <1>6, <2>1, <2>2, <2>4 DEF Live
    <3>2. CycleInv'
      BY <1>1, <1>2, <3>1 DEF CycleInv
    <3>3. QED BY <1>1, <1>4, <1>5, <2>4, <1>8, <3>1, <3>2 DEF K
  <2>5. QED BY <2>3, <2>4
<1>9. QED BY <1>7, <1>8

LEMMA NextCycle == SimInv /\ CycleInv /\ [Next]_vars => CycleInv'
<1> SUFFICES ASSUME SimInv, CycleInv, [Next]_vars PROVE CycleInv'
  OBVIOUS
<1>1. CASE \E open \in Opens : FillAtOpen(open)
  BY <1>1, LiveAfterFill
<1>2. CASE account' = account /\ trades' = trades
  BY <1>2 DEF CycleInv, Live, Executed
<1>3. QED BY <1>1, <1>2 DEF Next, NoFillAtOpen, EvaluateAtClose, Terminating, vars

LEMMA CycleInvariance == Spec => []CycleInv
<1>1. Init => CycleInv
  <2> SUFFICES ASSUME Init PROVE CycleInv
    OBVIOUS
  <2>1. Len(trades) = 0
    BY EmptySeq DEF Init
  <2>2. Executed = {}
    BY <2>1 DEF Executed
  <2>3. QED BY <2>1, <2>2 DEF CycleInv, Live
<1>2. QED BY <1>1, NextCycle, SimulationInvariance, PTL DEF Spec

-----------------------------------------------------------------------------
(***************************************************************************)
(* The levels sold in a cycle.                                             *)
(***************************************************************************)
IsDrawdownSale(k) == trades[k].action = "SELL_DRAWDOWN"

\* The levels sold in the cycle are consumed, also in the state that a rejected
\* sale restores, where the level of the pending sale is not.
LevelInv ==
  /\ \A k \in Live : IsDrawdownSale(k) => trades[k].level \in state.drawdowns
  /\ order # NoOrder =>
       /\ \A k \in Live : IsDrawdownSale(k) => trades[k].level \in order.prior.drawdowns
       /\ order.action = "SELL_DRAWDOWN" =>
            order.level \in state.drawdowns \ order.prior.drawdowns

LEMMA OpenLevels ==
  ASSUME SimInv, CycleInv, LevelInv, LevelsSoldOnce, NEW open \in Opens, FillAtOpen(open)
  PROVE  LevelInv' /\ LevelsSoldOnce'
<1> DEFINE K        == Len(trades) + 1
           executed == Fill(open).status = "EXECUTED"
<1>1. /\ order # NoOrder /\ order' = NoOrder /\ order \in Orders
      /\ Sound(request.strategy, order.prior) /\ order.prior \in PersistedStates
  BY FillFacts DEF FillAtOpen, SimInv, OrderOfSignal, Orders
<1>2. /\ \A k \in 1..Len(trades) : trades'[k] = trades[k]
      /\ trades'[K].action = order.action /\ trades'[K].level = order.level
      /\ trades'[K].qtyAfter = account'.qty
  <2>1. /\ \A k \in 1..Len(trades) : trades'[k] = trades[k]
        /\ trades'[K] = [signal |-> order.signal, day |-> market.day + 1,
             action |-> order.action, level |-> order.level, status |-> Fill(open).status,
             price |-> Price(open), gross |-> Fill(open).gross,
             cashAfter |-> account'.cash, qtyAfter |-> account'.qty]
    BY FillRecords
  <2>2. QED BY <2>1
<1>3. /\ K \notin Executed /\ Len(trades) \in Nat
      /\ Executed' = IF executed THEN Executed \cup {K} ELSE Executed
      /\ Live' \subseteq Live \cup {K} /\ (~executed => Live' = Live)
  BY LiveAfterFill
<1>4. /\ \A k \in Executed : k \in 1..Len(trades) /\ trades'[k] = trades[k]
      /\ \A k \in Live : k \in Executed
  BY <1>2 DEF Executed, Live
<1>5. LevelInv'
  <2>1. ASSUME NEW k \in Live', trades'[k].action = "SELL_DRAWDOWN"
        PROVE  trades'[k].level \in state'.drawdowns
    <3>1. CASE k \in Live
      <4>1. /\ trades[k].level \in state.drawdowns /\ trades[k].level \in order.prior.drawdowns
            /\ trades'[k] = trades[k]
        BY <1>1, <1>4, <2>1, <3>1 DEF LevelInv, IsDrawdownSale
      <4>2. state'.drawdowns = state.drawdowns \/ state'.drawdowns = order.prior.drawdowns
        BY FillState
      <4>3. QED BY <4>1, <4>2
    <3>2. CASE k = K /\ executed
      <4>1. order.level \in state.drawdowns /\ state'.drawdowns = state.drawdowns
        BY <1>1, <1>2, <2>1, <3>2, FillState DEF LevelInv
      <4>2. QED BY <1>2, <3>2, <4>1
    <3>3. QED BY <1>3, <3>1, <3>2
  <2>2. QED BY <1>1, <2>1 DEF LevelInv, IsDrawdownSale
<1>6. LevelsSoldOnce'
  <2> SUFFICES ASSUME NEW j \in Executed', NEW k \in Executed', j < k, SameCycle(j, k)',
                      trades'[j].action = "SELL_DRAWDOWN", trades'[k].action = "SELL_DRAWDOWN"
               PROVE  trades'[j].level < trades'[k].level
    BY DEF LevelsSoldOnce
  <2>1. CASE k \in Executed
    <3>1. j \in Executed
      <4>1. k <= Len(trades) /\ k \in Nat
        BY <1>3, <1>4, <2>1
      <4>2. j # K
        BY <1>3, <4>1
      <4>3. QED BY <1>3, <4>2
    <3>2. trades'[j] = trades[j] /\ trades'[k] = trades[k] /\ k \in 1..Len(trades)
          /\ j \in 1..Len(trades)
      BY <1>4, <2>1, <3>1
    <3>3. SameCycle(j, k)
      <4>1. \A i \in Executed \intersect (j..k - 1) :
              i \in Executed' \intersect (j..k - 1) /\ trades'[i] = trades[i]
        BY <1>3, <1>4
      <4>2. \A i \in Executed' \intersect (j..k - 1) : trades'[i].qtyAfter > 0
        BY DEF SameCycle
      <4>3. j <= k
        BY <3>2
      <4>4. QED BY <4>1, <4>2, <4>3 DEF SameCycle
    <3>4. QED BY <2>1, <3>1, <3>2, <3>3 DEF LevelsSoldOnce
  <2>2. CASE k = K /\ executed
    <3>1. j \in Executed /\ j \in 1..Len(trades) /\ trades'[j] = trades[j]
      BY <1>3, <1>4, <2>2
    <3>2. j \in Live
      <4>1. ASSUME NEW i \in Executed, j <= i PROVE trades[i].qtyAfter > 0
        <5>1. i \in 1..Len(trades) /\ trades'[i] = trades[i] /\ i \in Executed'
          BY <1>3, <1>4
        <5>2. i \in j..k - 1
          BY <1>3, <2>2, <3>1, <4>1, <5>1
        <5>3. trades'[i].qtyAfter > 0
          BY <5>1, <5>2 DEF SameCycle
        <5>4. QED BY <5>1, <5>3
      <4>2. QED BY <3>1, <4>1 DEF Live
    <3>3. /\ trades[j].level \in order.prior.drawdowns
          /\ order.level \in state.drawdowns \ order.prior.drawdowns
      BY <1>1, <1>2, <2>2, <3>1, <3>2 DEF LevelInv, IsDrawdownSale
    <3>4. /\ 1..trades[j].level \subseteq order.prior.drawdowns
          /\ trades[j].level \in Levels /\ order.level \in Levels
      BY <1>1, <3>3 DEF Sound, PersistedStates, SimInv, Typed
    <3>5. trades[j].level < order.level
      BY <3>3, <3>4 DEF Levels
    <3>6. QED BY <1>2, <2>2, <3>1, <3>5
  <2>3. QED BY <1>3, <2>1, <2>2
<1>7. QED BY <1>5, <1>6

LEMMA CloseLevels ==
  ASSUME SimInv, CycleInv, LevelInv, NEW close \in Closes, NEW peak \in Peaks,
         EvaluateAtClose(close, peak)
  PROVE  LevelInv'
<1> DEFINE d == Decided(market')
<1>1. /\ trades' = trades /\ account' = account /\ state' = d.next
      /\ Live' = Live /\ account.qty \in Nat
  BY CloseFacts DEF EvaluateAtClose, Live, Executed, SimInv, Typed, Accounts
<1>2. /\ order' # NoOrder => /\ order'.prior = state /\ order'.action = d.action
                             /\ order'.level = d.level
  BY CloseRecords
<1>3. CASE account.qty > 0
  <2>1. /\ KeepsCampaign(Observed(market', state), d)
        /\ Observed(market', state).drawdowns = state.drawdowns
    BY <1>3, CloseFacts, ObservedKeeps DEF SimInv, Typed
  <2>2. /\ state.drawdowns \subseteq d.next.drawdowns
        /\ d.action = "SELL_DRAWDOWN" => d.level \in d.next.drawdowns \ state.drawdowns
    BY <2>1 DEF KeepsCampaign
  <2> HIDE DEF d
  <2>3. QED BY <1>1, <1>2, <2>2 DEF LevelInv, IsDrawdownSale
<1>4. CASE ~(account.qty > 0)
  <2>1. Live = {}
    BY <1>1, <1>4 DEF CycleInv
  <2>2. d.action # "SELL_DRAWDOWN"
    BY <1>4, CloseFacts DEF BeginsCampaign, Sells
  <2> HIDE DEF d
  <2>3. QED BY <1>1, <1>2, <2>1, <2>2 DEF LevelInv
<1>5. QED BY <1>3, <1>4

LEMMA NextLevels ==
  SimInv /\ CycleInv /\ (LevelInv /\ LevelsSoldOnce) /\ [Next]_vars
    => (LevelInv /\ LevelsSoldOnce)'
<1> SUFFICES ASSUME SimInv, CycleInv, LevelInv, LevelsSoldOnce, [Next]_vars
             PROVE  LevelInv' /\ LevelsSoldOnce'
  OBVIOUS
<1>1. CASE \E open \in Opens : FillAtOpen(open)
  BY <1>1, OpenLevels
<1>2. ASSUME trades' = trades PROVE LevelsSoldOnce'
  BY <1>2 DEF LevelsSoldOnce, SameCycle, Executed
<1>3. CASE NoFillAtOpen \/ UNCHANGED vars
  <2>1. trades' = trades /\ state' = state /\ order' = order
    BY <1>3 DEF NoFillAtOpen, vars
  <2>2. LevelInv'
    BY <2>1 DEF LevelInv, Live, Executed, IsDrawdownSale
  <2>3. QED BY <1>2, <2>1, <2>2
<1>4. CASE \E close \in Closes, peak \in Peaks : EvaluateAtClose(close, peak)
  BY <1>2, <1>4, CloseLevels DEF EvaluateAtClose
<1>5. QED BY <1>1, <1>3, <1>4 DEF Next, Terminating

\* A drawdown level is sold at most once in a cycle, and deeper levels after
\* shallower ones, however many sales the open rejected in between.
THEOREM LevelsAlwaysSoldOnce == Spec => []LevelsSoldOnce
<1>1. Init => LevelInv /\ LevelsSoldOnce
  <2> SUFFICES ASSUME Init PROVE LevelInv /\ LevelsSoldOnce
    OBVIOUS
  <2>1. Len(trades) = 0 /\ order = NoOrder
    BY EmptySeq DEF Init
  <2>2. Executed = {} /\ Live = {}
    BY <2>1 DEF Executed, Live
  <2>3. QED BY <2>1, <2>2 DEF LevelInv, LevelsSoldOnce
<1>2. QED BY <1>1, NextLevels, SimulationInvariance, CycleInvariance, PTL DEF Spec

-----------------------------------------------------------------------------
(***************************************************************************)
(* The reference of Dip Accumulation.                                      *)
(***************************************************************************)
ReferenceInv ==
  request.strategy = DipAccumulation =>
    /\ account.qty > 0 =>
         \E k \in Live : /\ trades[k].action = "BUY" /\ \A j \in Live : k <= j
                         /\ state.firstEntryRef = trades[k].price
    /\ order # NoOrder /\ order.action = "BUY" => (account.qty = 0 <=> state.entryStep = 1)

LEMMA OpenReference ==
  ASSUME SimInv, CycleInv, ReferenceInv, NEW open \in Opens, FillAtOpen(open)
  PROVE  ReferenceInv'
<1> DEFINE K        == Len(trades) + 1
           executed == Fill(open).status = "EXECUTED"
<1> SUFFICES ASSUME request.strategy = DipAccumulation, account'.qty > 0
             PROVE  \E k \in Live' : /\ trades'[k].action = "BUY" /\ \A j \in Live' : k <= j
                                     /\ state'.firstEntryRef = trades'[k].price
  BY DEF ReferenceInv, FillAtOpen
<1>1. /\ \A k \in 1..Len(trades) : trades'[k] = trades[k]
      /\ trades'[K].action = order.action /\ trades'[K].price = Price(open)
  <2>1. /\ \A k \in 1..Len(trades) : trades'[k] = trades[k]
        /\ trades'[K] = [signal |-> order.signal, day |-> market.day + 1,
             action |-> order.action, level |-> order.level, status |-> Fill(open).status,
             price |-> Price(open), gross |-> Fill(open).gross,
             cashAfter |-> account'.cash, qtyAfter |-> account'.qty]
    BY FillRecords
  <2>2. QED BY <2>1
<1>2. /\ Len(trades) \in Nat /\ (~executed => Live' = Live)
      /\ (executed => Live' = Live \cup {K})
  BY LiveAfterFill
<1>3. \A k \in Live : k \in 1..Len(trades) /\ trades'[k] = trades[k]
  BY <1>1 DEF Live, Executed
<1>4. order # NoOrder /\ account.qty \in Nat
  BY DEF FillAtOpen, SimInv, Typed, Accounts
<1>5. CASE account.qty > 0
  <2>1. state'.firstEntryRef = state.firstEntryRef
    <3>1. order.action = "BUY" => state.entryStep # 1
      BY <1>4, <1>5 DEF ReferenceInv
    <3>2. QED BY <3>1, FillState
  <2>2. PICK k \in Live : /\ trades[k].action = "BUY" /\ \A j \in Live : k <= j
                          /\ state.firstEntryRef = trades[k].price
    BY <1>5 DEF ReferenceInv
  <2>3. k <= K
    BY <1>2, <1>3
  <2>4. k \in Live' /\ \A j \in Live' : k <= j
    BY <1>2, <2>2, <2>3
  <2>5. QED BY <1>3, <2>1, <2>2, <2>4
<1>6. CASE ~(account.qty > 0)
  <2>1. Live = {} /\ account.qty = 0
    BY <1>4, <1>6 DEF CycleInv
  <2>2. executed
    <3>1. ~executed => account' = account
      BY FillFacts
    <3>2. QED BY <1>6, <3>1
  <2>3. order.action = "BUY"
    <3>1. order.action \in Sells => account.qty > 0
      BY <1>4 DEF SimInv, OrderOfSignal
    <3>2. order.action \in {"BUY"} \union Sells
      BY FillFacts DEF Orders
    <3>3. QED BY <1>6, <3>1, <3>2
  <2>4. state.entryStep = 1
    BY <1>4, <2>1, <2>3 DEF ReferenceInv
  <2>5. state'.firstEntryRef = Price(open)
    BY <2>2, <2>3, <2>4, FillState
  <2>6. Live' = {K}
    BY <1>2, <2>1, <2>2
  <2>7. K <= K
    BY <1>2
  <2>8. QED BY <1>1, <2>3, <2>5, <2>6, <2>7
<1>7. QED BY <1>5, <1>6

LEMMA CloseReference ==
  ASSUME SimInv, CycleInv, ReferenceInv, NEW close \in Closes, NEW peak \in Peaks,
         EvaluateAtClose(close, peak)
  PROVE  ReferenceInv'
<1> DEFINE d == Decided(market')
<1> SUFFICES ASSUME request.strategy = DipAccumulation PROVE ReferenceInv'
  BY DEF ReferenceInv, EvaluateAtClose
<1>1. /\ trades' = trades /\ account' = account /\ state' = d.next
      /\ Live' = Live /\ account.qty \in Nat /\ request' = request
  BY CloseFacts DEF EvaluateAtClose, Live, Executed, SimInv, Typed, Accounts
<1>2. order' # NoOrder => order'.action = d.action
  BY CloseRecords
<1>3. CASE account.qty > 0
  <2>1. /\ KeepsReference(EvaluationConfig, Held, Observed(market', state), d)
        /\ Observed(market', state).firstEntryRef = state.firstEntryRef
    BY <1>3, CloseFacts, ObservedKeeps DEF SimInv, Typed
  <2>2. /\ d.next.firstEntryRef = state.firstEntryRef
        /\ d.action = "BUY" => d.next.entryStep # 1
    BY <2>1 DEF KeepsReference
  <2> HIDE DEF d
  <2>3. QED BY <1>1, <1>2, <1>3, <2>2 DEF ReferenceInv
<1>4. CASE ~(account.qty > 0)
  <2>1. d.action = "BUY" => d.next.entryStep = 1
    BY <1>4, CloseFacts DEF BeginsCampaign
  <2> HIDE DEF d
  <2>2. QED BY <1>1, <1>2, <1>4, <2>1 DEF ReferenceInv
<1>5. QED BY <1>3, <1>4

\* Later entries of Dip Accumulation are measured from the actual fill of the
\* first entry of the cycle, not from the close that signalled it.
THEOREM ReferenceIsAlwaysFill == Spec => []ReferenceIsFill
<1>1. Init => ReferenceInv
  BY DEF Init, ReferenceInv
<1>2. SimInv /\ CycleInv /\ ReferenceInv /\ [Next]_vars => ReferenceInv'
  <2> SUFFICES ASSUME SimInv, CycleInv, ReferenceInv, [Next]_vars PROVE ReferenceInv'
    OBVIOUS
  <2>1. CASE \E open \in Opens : FillAtOpen(open)
    BY <2>1, OpenReference
  <2>2. CASE NoFillAtOpen \/ UNCHANGED vars
    <3>1. /\ trades' = trades /\ state' = state /\ order' = order /\ account' = account
          /\ request' = request
      BY <2>2 DEF NoFillAtOpen, vars
    <3>2. Live' = Live
      BY <3>1 DEF Live, Executed
    <3>3. QED BY <3>1, <3>2 DEF ReferenceInv
  <2>3. CASE \E close \in Closes, peak \in Peaks : EvaluateAtClose(close, peak)
    BY <2>3, CloseReference
  <2>4. QED BY <2>1, <2>2, <2>3 DEF Next, Terminating
<1>3. SimInv /\ CycleInv /\ ReferenceInv => ReferenceIsFill
  BY LiveIsCycle DEF ReferenceInv, ReferenceIsFill
<1>4. QED BY <1>1, <1>2, <1>3, SimulationInvariance, CycleInvariance, PTL DEF Spec

-----------------------------------------------------------------------------
(***************************************************************************)
(* The budget of a cycle.                                                  *)
(***************************************************************************)
LiveBuys == {k \in Live : trades[k].action = "BUY"}

\* A pending buy is that of the last stage, and the buys of the cycle took no
\* more than the shares of the stages before.
BudgetInv ==
  /\ order # NoOrder /\ order.action = "BUY" =>
       state.entryStep \in Stages /\ order.pct = request.config.entry[state.entryStep]
  /\ account.qty > 0 =>
       /\ account.budget > 0
       /\ GrossOf(trades, LiveBuys) * 100 <= account.budget * EntryShare(StagesMet)

LEMMA EntryShares ==
  ASSUME SimInv
  PROVE  /\ \A n \in 0..3 : EntryShare(n) \in 0..100
         /\ \A n \in Stages : /\ EntryShare(n) = EntryShare(n - 1) + request.config.entry[n]
                              /\ EntryShare(n - 1) <= EntryShare(n)
                              /\ request.config.entry[n] \in Nat
<1> DEFINE entry == request.config.entry
<1>1. ValidConfig(request.config)
  BY BacktestAssumptions DEF SimInv, Typed, Requests
<1>2. /\ entry[1] \in Nat /\ entry[2] \in Nat /\ entry[3] \in Nat
      /\ entry[1] + entry[2] + entry[3] <= 100
  <2>1. entry \in [Stages -> Percent] /\ entry[1] + entry[2] + entry[3] <= 100
    BY <1>1 DEF ValidConfig, Configs
  <2>2. entry[1] \in Percent /\ entry[2] \in Percent /\ entry[3] \in Percent
    BY <2>1 DEF Stages
  <2>3. QED BY <2>1, <2>2 DEF Percent
<1> HIDE DEF entry
<1>3. /\ EntryShare(0) = 0 /\ EntryShare(1) = entry[1] /\ EntryShare(2) = entry[1] + entry[2]
      /\ EntryShare(3) = entry[1] + entry[2] + entry[3]
  BY DEF EntryShare, entry
<1>4. ASSUME NEW n \in 0..3 PROVE EntryShare(n) \in 0..100
  <2>1. n = 0 \/ n = 1 \/ n = 2 \/ n = 3
    OBVIOUS
  <2>2. /\ EntryShare(0) \in 0..100 /\ EntryShare(1) \in 0..100
        /\ EntryShare(2) \in 0..100 /\ EntryShare(3) \in 0..100
    <3>1. \A x, y, z \in Nat : x + y + z <= 100 =>
            x \in 0..100 /\ x + y \in 0..100 /\ x + y + z \in 0..100
      OBVIOUS
    <3>2. /\ entry[1] \in 0..100 /\ entry[1] + entry[2] \in 0..100
          /\ entry[1] + entry[2] + entry[3] \in 0..100
      BY <1>2, <3>1
    <3>3. QED BY <1>3, <3>2
  <2>3. QED BY <2>1, <2>2
<1>5. ASSUME NEW n \in Stages
      PROVE  /\ EntryShare(n) = EntryShare(n - 1) + entry[n]
             /\ EntryShare(n - 1) <= EntryShare(n) /\ entry[n] \in Nat
  BY <1>2, <1>3, <1>5 DEF Stages
<1>6. QED BY <1>4, <1>5 DEF entry

\* A larger share of a positive budget is no smaller.
LEMMA ShareGrows ==
  ASSUME NEW budget \in Int, budget > 0, NEW a \in Nat, NEW b \in Nat, a <= b
  PROVE  budget * a <= budget * b
<1>1. b - a \in Nat /\ budget \in Nat
  OBVIOUS
<1>2. budget * (b - a) \in Nat
  BY <1>1
<1>3. budget * (b - a) = budget * b - budget * a
  BY <1>1
<1>4. budget * a \in Int /\ budget * b \in Int
  OBVIOUS
<1>5. QED BY <1>2, <1>3, <1>4

\* A buy costs no more than its share of the budget.
LEMMA BuyWithinShare ==
  ASSUME NEW a \in Accounts, NEW pct \in Nat, NEW price \in Nat \ {0}, NEW fee \in Nat,
         BuyFill(a, pct, price, fee).status = "EXECUTED"
  PROVE  LET fill == BuyFill(a, pct, price, fee) IN
         /\ fill.gross * 100 <= CycleBudget(a) * pct
         /\ CycleBudget(a) \in Int /\ CycleBudget(a) > 0
<1> DEFINE gross == BuyGross(a, pct, fee)
           share == (CycleBudget(a) * pct) \div 100
<1>1. a.cash \in Int /\ CycleBudget(a) \in Int
  BY DEF CycleBudget, Accounts
<1>2. share \in Int /\ share * 100 <= CycleBudget(a) * pct
  <2> DEFINE x == CycleBudget(a) * pct
  <2>1. x \in Int
    BY <1>1
  <2> HIDE DEF x
  <2>2. x \div 100 \in Int /\ 100 * (x \div 100) <= x
    BY <2>1, DivisionRoundsDown
  <2>3. QED BY <2>1, <2>2 DEF x
<1>3. gross \in Int /\ gross <= share
  <2> DEFINE most == (a.cash * 100) \div (100 + fee)
  <2>1. most \in Int
    <3>1. a.cash * 100 \in Int /\ 100 + fee \in Nat \ {0}
      BY <1>1
    <3>2. QED BY <3>1, DivisionRoundsDown
  <2>2. gross = SmallerOf(share, most)
    BY DEF BuyGross
  <2> HIDE DEF most, gross, share
  <2>3. QED BY <1>2, <2>1, <2>2 DEF SmallerOf
<1>4. ~(gross <= 0) /\ BuyFill(a, pct, price, fee).gross = gross
  BY DEF BuyFill, NoFill, Filled
<1> HIDE DEF gross, share
<1>5. gross * 100 <= CycleBudget(a) * pct
  BY <1>1, <1>2, <1>3
<1>6. CycleBudget(a) > 0
  <2>1. CycleBudget(a) * pct > 0
    BY <1>1, <1>3, <1>4, <1>5
  <2>2. \A x \in Int, y \in Nat : x * y > 0 => x > 0
    OBVIOUS
  <2>3. QED BY <1>1, <2>1, <2>2
<1>7. QED BY <1>1, <1>4, <1>5, <1>6

LEMMA LiveBuysFinite ==
  ASSUME SimInv
  PROVE  /\ IsFiniteSet(LiveBuys) /\ LiveBuys \subseteq 1..Len(trades)
         /\ \A k \in LiveBuys : trades[k].gross \in Nat
<1>1. Len(trades) \in Nat /\ trades \in Seq(TradeRecords)
  BY LenProperties DEF SimInv, Typed
<1>2. LiveBuys \subseteq 1..Len(trades)
  BY DEF LiveBuys, Live, Executed
<1>3. IsFiniteSet(LiveBuys)
  <2>1. IsFiniteSet(1..Len(trades))
    BY <1>1, FS_Interval
  <2>2. QED BY <1>2, <2>1, FS_Subset
<1>4. ASSUME NEW k \in LiveBuys PROVE trades[k].gross \in Nat
  <2>1. trades[k] \in TradeRecords
    BY <1>1, <1>2, ElementOfSeq
  <2>2. QED BY <2>1 DEF TradeRecords
<1>5. QED BY <1>2, <1>3, <1>4

LEMMA OpenBudget ==
  ASSUME SimInv, CycleInv, BudgetInv, NEW open \in Opens, FillAtOpen(open)
  PROVE  BudgetInv'
<1> DEFINE K        == Len(trades) + 1
           executed == Fill(open).status = "EXECUTED"
           bought   == executed /\ order.action = "BUY"
<1> SUFFICES ASSUME account'.qty > 0
             PROVE  /\ account'.budget > 0
                    /\ GrossOf(trades', LiveBuys') * 100
                         <= account'.budget * EntryShare(state'.entryStep)
  BY DEF BudgetInv, FillAtOpen, StagesMet, EntryShare
<1>1. /\ \A k \in 1..Len(trades) : trades'[k] = trades[k]
      /\ trades'[K].action = order.action /\ trades'[K].gross = Fill(open).gross
  <2>1. /\ \A k \in 1..Len(trades) : trades'[k] = trades[k]
        /\ trades'[K] = [signal |-> order.signal, day |-> market.day + 1,
             action |-> order.action, level |-> order.level, status |-> Fill(open).status,
             price |-> Price(open), gross |-> Fill(open).gross,
             cashAfter |-> account'.cash, qtyAfter |-> account'.qty]
    BY FillRecords
  <2>2. QED BY <2>1
<1>2. /\ Len(trades) \in Nat /\ (~executed => Live' = Live)
      /\ (executed => Live' = Live \cup {K})
  BY LiveAfterFill
<1>3. \A k \in Live : k \in 1..Len(trades) /\ trades'[k] = trades[k]
  BY <1>1 DEF Live, Executed
<1>4. LiveBuys' = IF bought THEN LiveBuys \cup {K} ELSE LiveBuys
  BY <1>1, <1>2, <1>3 DEF LiveBuys
<1>5. /\ IsFiniteSet(LiveBuys) /\ K \notin LiveBuys
      /\ \A k \in LiveBuys : trades[k].gross \in Nat /\ trades'[k] = trades[k]
      /\ GrossOf(trades, LiveBuys) \in Nat
      /\ GrossOf(trades', LiveBuys) = GrossOf(trades, LiveBuys)
  <2>1. /\ IsFiniteSet(LiveBuys) /\ LiveBuys \subseteq 1..Len(trades)
        /\ \A k \in LiveBuys : trades[k].gross \in Nat
    BY LiveBuysFinite
  <2>2. K \notin LiveBuys /\ \A k \in LiveBuys : trades'[k] = trades[k]
    BY <1>1, <1>2, <2>1
  <2>3. QED BY <2>1, <2>2, GrossTyped, GrossSame
<1>6. /\ order # NoOrder /\ account.qty \in Nat /\ account \in Accounts
      /\ state.entryStep \in 0..3 /\ state'.entryStep = state.entryStep
      /\ (order.action = "BUY" => /\ state.entryStep \in Stages
                                  /\ order.pct = request.config.entry[state.entryStep])
      /\ StagesMet = IF order.action = "BUY" THEN state.entryStep - 1 ELSE state.entryStep
  BY FillState DEF FillAtOpen, SimInv, Typed, Accounts, PersistedStates, BudgetInv, StagesMet
<1> DEFINE share  == EntryShare(state.entryStep)
           before == EntryShare(StagesMet)
<1>7. /\ share \in Nat /\ before \in Nat /\ before <= share
      /\ (order.action = "BUY" => /\ order.pct \in Nat
                                  /\ share = before + order.pct)
  <2>1. state.entryStep \in Stages => state.entryStep - 1 \in 0..3
    BY DEF Stages
  <2>2. share \in Nat /\ before \in Nat
    BY <1>6, <2>1, EntryShares
  <2>3. QED BY <1>6, <2>2, EntryShares
<1> HIDE DEF share, before
<1>8. CASE bought
  <2>1. /\ Fill(open).gross * 100 <= CycleBudget(account) * order.pct
        /\ CycleBudget(account) \in Int /\ CycleBudget(account) > 0
        /\ Fill(open).gross \in Nat /\ account'.budget = CycleBudget(account)
    <3>1. Fill(open) = BuyFill(account, order.pct, Price(open), request.fee)
      BY <1>8 DEF Fill
    <3>2. Price(open) \in Nat \ {0} /\ request.fee \in Nat
      BY <1>8, FillPriceTyped DEF SimInv, Price
    <3>3. Fill(open).qty \in Nat /\ Fill(open).gross \in Nat /\ Fill(open).fee \in Nat
          /\ account' = AfterBuy(account, Fill(open))
      BY <1>8, FillFacts
    <3>4. AfterBuy(account, Fill(open)).budget = CycleBudget(account)
      BY <1>6, <3>3, AccountAfterFill
    <3>5. order.pct \in Nat /\ Fill(open).status = "EXECUTED"
      BY <1>7, <1>8
    <3>6. /\ Fill(open).gross * 100 <= CycleBudget(account) * order.pct
          /\ CycleBudget(account) \in Int /\ CycleBudget(account) > 0
      BY <1>6, <3>1, <3>2, <3>5, BuyWithinShare
    <3>7. QED BY <3>3, <3>4, <3>6
  <2>2. GrossOf(trades', LiveBuys') = Fill(open).gross + GrossOf(trades, LiveBuys)
    <3>1. LiveBuys' = LiveBuys \cup {K} /\ LiveBuys' \ {K} = LiveBuys /\ K \in LiveBuys'
      BY <1>4, <1>5, <1>8
    <3>2. IsFiniteSet(LiveBuys') /\ \A k \in LiveBuys' : trades'[k].gross \in Nat
      BY <1>1, <1>5, <2>1, <3>1, FS_AddElement
    <3>3. GrossOf(trades', LiveBuys') = trades'[K].gross + GrossOf(trades', LiveBuys' \ {K})
      BY <3>1, <3>2, GrossWithout
    <3>4. QED BY <1>1, <1>5, <3>1, <3>3
  <2>3. GrossOf(trades, LiveBuys) * 100 <= CycleBudget(account) * before
    <3>1. CASE account.qty > 0
      BY <3>1, <1>6 DEF BudgetInv, CycleBudget, before
    <3>2. CASE ~(account.qty > 0)
      <4>1. LiveBuys = {}
        BY <1>6, <3>2 DEF CycleInv, LiveBuys
      <4>2. GrossOf(trades, LiveBuys) = 0
        BY <1>5, <4>1, GrossStep
      <4>3. CycleBudget(account) * before \in Nat
        BY <1>7, <2>1
      <4>4. QED BY <4>2, <4>3
    <3>3. QED BY <3>1, <3>2
  <2>4. CycleBudget(account) * share = CycleBudget(account) * before
                                       + CycleBudget(account) * order.pct
    BY <1>7, <1>8, <2>1
  <2> DEFINE b == CycleBudget(account) * before
             p == CycleBudget(account) * order.pct
             g == GrossOf(trades, LiveBuys)
             f == Fill(open).gross
  <2>5. b \in Int /\ p \in Int /\ g \in Nat /\ f \in Nat
    BY <1>5, <1>7, <1>8, <2>1
  <2>6. (f + g) * 100 <= b + p
    <3>1. f * 100 <= p /\ g * 100 <= b
      BY <2>1, <2>3
    <3> HIDE DEF b, p, f, g
    <3>2. QED BY <2>5, <3>1
  <2>7. QED BY <1>6, <2>1, <2>2, <2>4, <2>6 DEF share
<1>9. CASE ~bought
  <2>1. account.qty > 0 /\ account'.budget = account.budget /\ account.budget \in Int
    <3>1. account.budget \in Int
      BY <1>6 DEF Accounts
    <3>2. CASE ~executed
      BY <3>1, <3>2, FillFacts
    <3>3. CASE executed
      <4>1. /\ order.action # "BUY" /\ order.action \in Sells
            /\ account' = AfterSell(account, Fill(open)) /\ Fill(open).qty <= account.qty
            /\ Fill(open).qty \in Nat /\ Fill(open).gross \in Nat /\ Fill(open).fee \in Nat
        BY <1>9, <3>3, FillFacts DEF Orders
      <4>2. account.qty > 0
        BY <1>6, <4>1 DEF SimInv, OrderOfSignal
      <4>3. QED BY <1>6, <3>1, <4>1, <4>2, AccountAfterFill
    <3>4. QED BY <3>2, <3>3
  <2>2. account.budget > 0 /\ GrossOf(trades, LiveBuys) * 100 <= account.budget * before
    BY <2>1 DEF BudgetInv, before
  <2>3. GrossOf(trades', LiveBuys') = GrossOf(trades, LiveBuys)
    BY <1>4, <1>5, <1>9
  <2>4. account.budget * before <= account.budget * share
    BY <1>7, <2>1, <2>2, ShareGrows
  <2>5. account.budget * before \in Int /\ account.budget * share \in Int
    BY <1>7, <2>1
  <2> DEFINE b == account.budget * before
             s == account.budget * share
             g == GrossOf(trades, LiveBuys)
  <2>6. g * 100 <= s
    <3>1. g \in Nat /\ g * 100 <= b
      BY <1>5, <2>2
    <3>2. b <= s /\ b \in Int /\ s \in Int
      BY <2>4, <2>5
    <3> HIDE DEF b, s, g
    <3>3. QED BY <3>1, <3>2
  <2>7. QED BY <1>6, <2>1, <2>2, <2>3, <2>6 DEF share
<1>10. QED BY <1>8, <1>9

LEMMA CloseBudget ==
  ASSUME SimInv, BudgetInv, NEW close \in Closes, NEW peak \in Peaks,
         EvaluateAtClose(close, peak)
  PROVE  BudgetInv'
<1> DEFINE d == Decided(market')
<1>1. /\ trades' = trades /\ account' = account /\ state' = d.next
      /\ LiveBuys' = LiveBuys /\ request' = request /\ order = NoOrder
  BY CloseFacts DEF EvaluateAtClose, LiveBuys, Live, Executed, SimInv, OrderOfSignal
<1>2. order' # NoOrder => order'.action = d.action /\ order'.pct = d.pct
  BY CloseRecords
<1>3. TakesStage(EvaluationConfig, state, account.qty > 0, d)
  <2>1. request.strategy \in Strategies /\ Percentages(EvaluationConfig)
    BY BacktestAssumptions, ValidPercentages DEF SimInv, Typed, Requests, EvaluationConfig
  <2>2. state \in PersistedStates /\ Sound(request.strategy, state) /\ market' \in Markets
    BY CloseFacts DEF SimInv, Typed
  <2>3. TakesStage(EvaluationConfig, state, Held.held, d)
    BY <2>1, <2>2, EvaluationStage DEF Decided
  <2>4. QED BY <2>3 DEF Held
<1>4. EvaluationConfig.entry = request.config.entry
  <2>1. request.config \in Configs
    BY BacktestAssumptions DEF SimInv, Typed, Requests, ValidConfig
  <2>2. ASSUME NEW c \in Configs, NEW fee PROVE [c EXCEPT !.feeBps = fee].entry = c.entry
    BY DEF Configs
  <2>3. QED BY <2>1, <2>2 DEF EvaluationConfig
<1>5. state.entryStep \in 0..3 /\ account \in Accounts
  BY DEF SimInv, Typed, PersistedStates
<1> HIDE DEF d
<1>6. order' # NoOrder /\ order'.action = "BUY" =>
        /\ state'.entryStep \in Stages
        /\ order'.pct = request'.config.entry[state'.entryStep]
  BY <1>1, <1>2, <1>3, <1>4 DEF TakesStage
<1>7. ASSUME account'.qty > 0
      PROVE  /\ account'.budget > 0
             /\ GrossOf(trades', LiveBuys') * 100 <= account'.budget * EntryShare(StagesMet)'
  <2>1. StagesMet = state.entryStep
    BY <1>1 DEF StagesMet
  <2>2. /\ StagesMet' \in 0..3
        /\ \/ StagesMet' = state.entryStep
           \/ (StagesMet' \in Stages /\ StagesMet' - 1 = state.entryStep)
    <3>1. CASE d.action = "BUY"
      <4>1. state'.entryStep = state.entryStep + 1 /\ state'.entryStep \in Stages
        BY <1>1, <1>3, <3>1 DEF TakesStage
      <4>2. StagesMet' = state'.entryStep - 1 \/ StagesMet' = state'.entryStep
        BY DEF StagesMet
      <4>3. QED BY <1>5, <4>1, <4>2 DEF Stages
    <3>2. CASE d.action # "BUY"
      <4>1. state'.entryStep = state.entryStep
        BY <1>1, <1>3, <1>7, <3>2 DEF TakesStage
      <4>2. StagesMet' = state'.entryStep
        BY <1>2, <3>2 DEF StagesMet
      <4>3. QED BY <1>5, <4>1, <4>2
    <3>3. QED BY <3>1, <3>2
  <2>3. /\ EntryShare(state.entryStep) \in Nat /\ EntryShare(StagesMet') \in Nat
        /\ EntryShare(state.entryStep) <= EntryShare(StagesMet')
    BY <1>5, <2>2, EntryShares
  <2>4. account.budget > 0 /\ account.budget \in Int
        /\ GrossOf(trades, LiveBuys) * 100 <= account.budget * EntryShare(state.entryStep)
    BY <1>1, <1>5, <1>7, <2>1 DEF BudgetInv, Accounts
  <2>5. GrossOf(trades, LiveBuys) \in Nat
    BY LiveBuysFinite, GrossTyped
  <2> DEFINE b == account.budget * EntryShare(state.entryStep)
             s == account.budget * EntryShare(StagesMet')
             g == GrossOf(trades, LiveBuys)
  <2>6. b <= s /\ b \in Int /\ s \in Int
    BY <2>3, <2>4, ShareGrows
  <2>7. g * 100 <= s
    <3>1. g \in Nat /\ g * 100 <= b
      BY <2>4, <2>5
    <3> HIDE DEF b, s, g
    <3>2. QED BY <2>6, <3>1
  <2>8. EntryShare(StagesMet)' = EntryShare(StagesMet')
    BY <1>1 DEF EntryShare
  <2>9. QED BY <1>1, <2>4, <2>7, <2>8
<1>8. QED BY <1>6, <1>7 DEF BudgetInv

-----------------------------------------------------------------------------
(***************************************************************************)
(* The budget is the cash there was before the first entry of the cycle.   *)
(***************************************************************************)
OpeningInv ==
  /\ account.cash = CashBefore(Len(trades) + 1)
  /\ account.qty > 0 =>
       \E first \in Live : /\ \A k \in Live : first <= k
                           /\ account.budget = CashBefore(first)

LEMMA OpenOpening ==
  ASSUME SimInv, CycleInv, OpeningInv, NEW open \in Opens, FillAtOpen(open)
  PROVE  OpeningInv'
<1> DEFINE K        == Len(trades) + 1
           executed == Fill(open).status = "EXECUTED"
<1>1. /\ Len(trades) \in Nat /\ Len(trades') = K
      /\ \A k \in 1..Len(trades) : trades'[k] = trades[k]
      /\ trades'[K].cashAfter = account'.cash
  <2>1. /\ Len(trades') = K /\ \A k \in 1..Len(trades) : trades'[k] = trades[k]
        /\ trades'[K] = [signal |-> order.signal, day |-> market.day + 1,
             action |-> order.action, level |-> order.level, status |-> Fill(open).status,
             price |-> Price(open), gross |-> Fill(open).gross,
             cashAfter |-> account'.cash, qtyAfter |-> account'.qty]
    BY FillRecords
  <2>2. Len(trades) \in Nat
    BY LenProperties DEF SimInv, Typed
  <2>3. QED BY <2>1, <2>2
<1>2. \A k \in 1..K : CashBefore(k)' = CashBefore(k)
  <2> SUFFICES ASSUME NEW k \in 1..K PROVE CashBefore(k)' = CashBefore(k)
    OBVIOUS
  <2>1. CASE k = 1
    BY <2>1 DEF CashBefore
  <2>2. CASE k # 1
    <3>1. k - 1 \in 1..Len(trades)
      BY <1>1, <2>2
    <3>2. trades'[k - 1] = trades[k - 1]
      BY <1>1, <3>1
    <3>3. QED BY <2>2, <3>2 DEF CashBefore
  <2>3. QED BY <2>1, <2>2
<1>3. ASSUME NEW n \in Nat, n = Len(trades') + 1 PROVE account'.cash = CashBefore(n)'
  <2>1. n # 1 /\ n - 1 = K
    BY <1>1, <1>3
  <2>2. QED BY <1>1, <2>1 DEF CashBefore
<1>4. /\ account \in Accounts /\ account.qty \in Nat /\ order # NoOrder
      /\ order.action \in {"BUY"} \union Sells /\ (order.action \in Sells => account.qty > 0)
  BY FillFacts DEF SimInv, Typed, Accounts, Orders, OrderOfSignal, FillAtOpen
<1>5. /\ \A k \in Live : k \in 1..Len(trades)
      /\ ~executed => Live' = Live /\ account' = account
      /\ executed /\ account'.qty > 0 => Live' = Live \cup {K}
  BY LiveAfterFill, FillFacts DEF Live, Executed
<1>6. executed =>
        /\ Fill(open).qty \in Nat /\ Fill(open).gross \in Nat /\ Fill(open).fee \in Nat
        /\ order.action = "BUY" => account'.budget = CycleBudget(account)
        /\ order.action \in Sells => account'.budget = account.budget
  <2> SUFFICES ASSUME executed
               PROVE  /\ Fill(open).qty \in Nat /\ Fill(open).gross \in Nat
                      /\ Fill(open).fee \in Nat
                      /\ order.action = "BUY" => account'.budget = CycleBudget(account)
                      /\ order.action \in Sells => account'.budget = account.budget
    OBVIOUS
  <2>1. /\ Fill(open).qty \in Nat /\ Fill(open).gross \in Nat /\ Fill(open).fee \in Nat
        /\ order.action = "BUY" => account' = AfterBuy(account, Fill(open))
        /\ order.action \in Sells => /\ account' = AfterSell(account, Fill(open))
                                     /\ Fill(open).qty <= account.qty
    BY <1>4, FillFacts DEF Sells
  <2>2. QED BY <1>4, <2>1, AccountAfterFill
<1>7. ASSUME account'.qty > 0
      PROVE  \E first \in Live' : /\ \A k \in Live' : first <= k
                                  /\ account'.budget = CashBefore(first)'
  <2>1. CASE account.qty > 0
    <3>1. PICK first \in Live : /\ \A k \in Live : first <= k
                                /\ account.budget = CashBefore(first)
      BY <2>1 DEF OpeningInv
    <3>2. first \in 1..K /\ first <= K
      BY <1>1, <1>5
    <3>3. first \in Live' /\ \A k \in Live' : first <= k
      BY <1>5, <1>7, <3>1, <3>2
    <3>4. account'.budget = account.budget
      BY <1>4, <1>5, <1>6, <2>1 DEF CycleBudget
    <3>5. QED BY <1>2, <3>1, <3>2, <3>3, <3>4
  <2>2. CASE ~(account.qty > 0)
    <3>1. Live = {} /\ account.qty = 0
      BY <1>4, <2>2 DEF CycleInv
    <3>2. executed
      BY <1>5, <1>7, <2>2
    <3>3. Live' = {K}
      BY <1>5, <1>7, <3>1, <3>2
    <3>4. account'.budget = account.cash
      BY <1>4, <1>6, <2>2, <3>1, <3>2 DEF CycleBudget
    <3>5. K \in 1..K
      BY <1>1
    <3>6. account.cash = CashBefore(K)
      BY DEF OpeningInv
    <3>7. ASSUME NEW first \in 1..K, first = K PROVE account.cash = CashBefore(first)'
      BY <1>2, <3>6, <3>7
    <3>8. K <= K
      BY <1>1
    <3>9. QED BY <3>3, <3>4, <3>5, <3>7, <3>8
  <2>3. QED BY <2>1, <2>2
<1>8. account'.cash = CashBefore(Len(trades) + 1)'
  <2>1. Len(trades') + 1 \in Nat
    BY <1>1
  <2>2. QED BY <1>3, <2>1
<1>9. QED BY <1>7, <1>8 DEF OpeningInv

LEMMA NextOpening == SimInv /\ CycleInv /\ OpeningInv /\ [Next]_vars => OpeningInv'
<1> SUFFICES ASSUME SimInv, CycleInv, OpeningInv, [Next]_vars PROVE OpeningInv'
  OBVIOUS
<1>1. CASE \E open \in Opens : FillAtOpen(open)
  BY <1>1, OpenOpening
<1>2. CASE account' = account /\ trades' = trades
  BY <1>2 DEF OpeningInv, CashBefore, Live, Executed
<1>3. QED BY <1>1, <1>2 DEF Next, NoFillAtOpen, EvaluateAtClose, Terminating, vars

\* The entries of a cycle together cost no more than the shares of their stages
\* in the cash there was before its first one, whatever the sales in between
\* bring: the budget that bounds them is that cash, and each stage takes its
\* share of it once.
THEOREM AlwaysWithinBudget == Spec => []SpentWithinBudget
<1>1. Init => BudgetInv
  BY DEF Init, BudgetInv
<1>2. SimInv /\ CycleInv /\ BudgetInv /\ [Next]_vars => BudgetInv'
  <2> SUFFICES ASSUME SimInv, CycleInv, BudgetInv, [Next]_vars PROVE BudgetInv'
    OBVIOUS
  <2>1. CASE \E open \in Opens : FillAtOpen(open)
    BY <2>1, OpenBudget
  <2>2. CASE NoFillAtOpen \/ UNCHANGED vars
    <3>1. /\ trades' = trades /\ state' = state /\ order' = order /\ account' = account
          /\ request' = request
      BY <2>2 DEF NoFillAtOpen, vars
    <3>2. LiveBuys' = LiveBuys /\ StagesMet' = StagesMet
      BY <3>1 DEF LiveBuys, Live, Executed, StagesMet
    <3>3. QED BY <3>1, <3>2 DEF BudgetInv, EntryShare
  <2>3. CASE \E close \in Closes, peak \in Peaks : EvaluateAtClose(close, peak)
    BY <2>3, CloseBudget
  <2>4. QED BY <2>1, <2>2, <2>3 DEF Next, Terminating
<1>3. Init => OpeningInv
  BY EmptySeq DEF Init, OpeningInv, CashBefore
<1>4. SimInv /\ CycleInv /\ BudgetInv /\ OpeningInv => SpentWithinBudget
  <2> SUFFICES ASSUME SimInv, CycleInv, BudgetInv, OpeningInv, account.qty > 0
               PROVE  \E first \in CycleTrades :
                        /\ \A k \in CycleTrades : first <= k
                        /\ GrossOf(trades, {k \in CycleTrades : trades[k].action = "BUY"}) * 100
                             <= CashBefore(first) * EntryShare(StagesMet)
    BY DEF SpentWithinBudget, GrossOf
  <2>1. CycleTrades = Live /\ {k \in CycleTrades : trades[k].action = "BUY"} = LiveBuys
    BY LiveIsCycle DEF LiveBuys
  <2>2. PICK first \in Live : /\ \A k \in Live : first <= k
                              /\ account.budget = CashBefore(first)
    BY DEF OpeningInv
  <2>3. GrossOf(trades, LiveBuys) * 100 <= account.budget * EntryShare(StagesMet)
    BY DEF BudgetInv
  <2>4. QED BY <2>1, <2>2, <2>3
<1>5. QED BY <1>1, <1>2, <1>3, <1>4, NextOpening, SimulationInvariance, CycleInvariance, PTL
      DEF Spec
=============================================================================
