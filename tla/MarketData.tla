----------------------------- MODULE MarketData -----------------------------
(***************************************************************************)
(* The market refresher (backend/internal/marketdata), the Coinbase        *)
(* provider it calls and the tables it fills.  Requests of two kinds, full *)
(* and prices only, come from the ticker and from the dashboard; a mutex   *)
(* lets one run at a time.  A running request walks the assets; for each   *)
(* it asks the exchange and saves the reply, and it continues with the     *)
(* next asset when a step of this one fails; the answer of the handlers    *)
(* tells only whether every asset was served.  The exchange is external: a *)
(* price is named by the tick it was traded at, and a day without a trade  *)
(* has no daily bucket.                                                    *)
(***************************************************************************)
EXTENDS Integers, Sequences, FiniteSets

CONSTANTS
  Assets,           \* the refresher's assets, in its order
  FullRequests,     \* goroutines that refresh candles and prices
  PriceRequests,    \* goroutines that refresh prices only
  DailyCandleLimit, \* completed candles asked for
  RecordLimits,     \* limits a user may set on the price history
  DefaultLimit,
  MaxTick,          \* bounds: ticks of the exchange, and days
  MaxDay,
  Nobody            \* the mutex is free

ASSUME MarketDataAssumptions ==
  /\ Assets \in Seq(STRING) /\ Len(Assets) > 0
  /\ \A i, k \in 1..Len(Assets) : Assets[i] = Assets[k] => i = k
  /\ FullRequests \cap PriceRequests = {}
  /\ Nobody \notin FullRequests \cup PriceRequests
  /\ DailyCandleLimit \in Nat \ {0}
  /\ RecordLimits \subseteq Nat \ {0} /\ DefaultLimit \in Nat \ {0}
  /\ MaxTick \in Nat \ {0} /\ MaxDay \in Nat \ {0, 1}

Requests == FullRequests \cup PriceRequests

Symbols == {Assets[i] : i \in 1..Len(Assets)}

VARIABLES
  tick,      \* exchange: the newest trade
  today,     \* the UTC day; day 1 is closed at the start
  bucket,    \* exchange: per day with a trade, the last one
  candles,   \* market_snapshots with OHLC: per asset, the close of each stored day
  quote,     \* market_snapshots without OHLC: the one display price, 0 if none
  history,   \* market_price_history, oldest first
  limit,     \* price_history_limit_<asset>
  mutex,     \* refreshMu
  job        \* what each request is doing

vars == <<tick, today, bucket, candles, quote, history, limit, mutex, job>>

exchange == <<tick, today, bucket>>

tables == <<candles, quote, history, limit>>

-----------------------------------------------------------------------------
Idle == [pc |-> "idle", asset |-> 1, dayStart |-> 0, rows |-> <<>>, price |-> 0,
         failed |-> {}, answer |-> "none",
         at |-> [tick |-> 0, today |-> 0, quote |-> [a \in Symbols |-> 0]]]

Init ==
  /\ tick = 1 /\ today = 2 /\ bucket = [d \in {1} |-> 1]
  /\ candles = [a \in Symbols |-> <<>>]
  /\ quote = [a \in Symbols |-> 0]
  /\ history = [a \in Symbols |-> <<>>]
  /\ limit = [a \in Symbols |-> DefaultLimit]
  /\ mutex = Nobody
  /\ job = [r \in Requests |-> Idle]

FirstStep(r) == IF r \in FullRequests THEN "candles" ELSE "price"

At(r, pc) == job[r].pc = pc

Symbol(r) == Assets[job[r].asset]

-----------------------------------------------------------------------------
(***************************************************************************)
(* The exchange and the calendar.                                          *)
(***************************************************************************)
Trade ==
  /\ tick < MaxTick
  /\ tick' = tick + 1
  /\ bucket' = [d \in DOMAIN bucket \cup {today} |-> IF d = today THEN tick + 1 ELSE bucket[d]]
  /\ UNCHANGED <<today, tables, mutex, job>>

Midnight ==
  /\ today < MaxDay
  /\ today' = today + 1
  /\ UNCHANGED <<tick, bucket, tables, mutex, job>>

\* The daily buckets of a reply, the unclosed one of today included.
Buckets(first, last) ==
  [d \in {e \in DOMAIN bucket : first <= e /\ e <= last} |-> bucket[d]]

-----------------------------------------------------------------------------
(***************************************************************************)
(* A request waits for the mutex, whatever its context's deadline.         *)
(***************************************************************************)
Begin(r) ==
  /\ At(r, "idle")
  /\ job' = [job EXCEPT ![r] = [Idle EXCEPT !.pc = "waiting"]]
  /\ UNCHANGED <<exchange, tables, mutex>>

\* Fault: the request starts without the mutex.
AcquireRegardless(r) ==
  /\ At(r, "waiting")
  /\ mutex' = r
  /\ job' = [job EXCEPT ![r] = [job[r] EXCEPT
       !.pc = FirstStep(r), !.at = [tick |-> tick, today |-> today, quote |-> quote]]]
  /\ UNCHANGED <<exchange, tables>>

Acquire(r) ==
  /\ At(r, "waiting")
  /\ mutex = Nobody
  /\ mutex' = r
  /\ job' = [job EXCEPT ![r] = [job[r] EXCEPT
       !.pc = FirstStep(r), !.at = [tick |-> tick, today |-> today, quote |-> quote]]]
  /\ UNCHANGED <<exchange, tables>>

\* What the caller is told: any error becomes "existing prices were kept".
Answer(failed) == IF failed = {} THEN "refreshed" ELSE "kept"

\* Fault: a failed request returns without unlocking.
NextAssetHoldingMutex(r, failed) ==
  IF job[r].asset < Len(Assets)
  THEN /\ job' = [job EXCEPT ![r] = [job[r] EXCEPT
            !.pc = FirstStep(r), !.asset = job[r].asset + 1, !.rows = <<>>, !.price = 0,
            !.failed = failed]]
       /\ UNCHANGED mutex
  ELSE /\ job' = [job EXCEPT ![r] = [Idle EXCEPT !.answer = Answer(failed)]]
       /\ mutex' = IF failed = {} THEN Nobody ELSE mutex

\* The loop over the assets: the next one, or unlock and answer.
NextAsset(r, failed) ==
  IF job[r].asset < Len(Assets)
  THEN /\ job' = [job EXCEPT ![r] = [job[r] EXCEPT
            !.pc = FirstStep(r), !.asset = job[r].asset + 1, !.rows = <<>>, !.price = 0,
            !.failed = failed]]
       /\ UNCHANGED mutex
  ELSE /\ job' = [job EXCEPT ![r] = [Idle EXCEPT !.answer = Answer(failed)]]
       /\ mutex' = Nobody

Asking == {"candles", "sent", "rows", "price", "quoted"}

\* Fault: an asset's error is logged and forgotten.
FailSilently(r) ==
  /\ job[r].pc \in Asking \ {"candles"}
  /\ NextAsset(r, job[r].failed)
  /\ UNCHANGED <<exchange, tables>>

\* The exchange fails or times out, or the context is done when a save begins.
Fail(r) ==
  /\ job[r].pc \in Asking \ {"candles"}
  /\ NextAsset(r, job[r].failed \cup {Symbol(r)})
  /\ UNCHANGED <<exchange, tables>>

-----------------------------------------------------------------------------
(***************************************************************************)
(* RefreshAsset: completed candles first, then the price.                  *)
(***************************************************************************)
\* The day is read before the call is made.
AskCandles(r) ==
  /\ At(r, "candles")
  /\ job' = [job EXCEPT ![r] = [job[r] EXCEPT !.pc = "sent", !.dayStart = today]]
  /\ UNCHANGED <<exchange, tables, mutex>>

\* Fault: the window asked for is a day short.
ShortWindow(dayStart) == dayStart - DailyCandleLimit + 1

WindowStart(dayStart) == dayStart - DailyCandleLimit

CandlesReply(r) ==
  /\ At(r, "sent")
  /\ job' = [job EXCEPT ![r] = [job[r] EXCEPT
       !.pc = "rows", !.rows = Buckets(WindowStart(job[r].dayStart), job[r].dayStart)]]
  /\ UNCHANGED <<exchange, tables, mutex>>

\* Fault: whatever the clock calls completed when the reply is decoded.
CompletedByNow(rows, dayStart) == {d \in DOMAIN rows : d < today}

Completed(rows, dayStart) ==
  {d \in DOMAIN rows : WindowStart(dayStart) <= d /\ d < dayStart /\ d < today}

\* One transaction upserts the completed candles.
SaveDailyCandles(r) ==
  LET rows == job[r].rows
      days == Completed(rows, job[r].dayStart)
      stored == candles[Symbol(r)]
  IN /\ At(r, "rows")
     /\ days # {}
     /\ candles' = [candles EXCEPT ![Symbol(r)] =
          [d \in DOMAIN stored \cup days |-> IF d \in days THEN rows[d] ELSE stored[d]]]
     /\ job' = [job EXCEPT ![r] = [job[r] EXCEPT !.pc = "price", !.rows = <<>>]]
     /\ UNCHANGED <<exchange, quote, history, limit, mutex>>

PriceReply(r) ==
  /\ At(r, "price")
  /\ job' = [job EXCEPT ![r] = [job[r] EXCEPT !.pc = "quoted", !.price = tick]]
  /\ UNCHANGED <<exchange, tables, mutex>>

\* Fault: the prune orders the points the other way.
Oldest(points, n) == SubSeq(points, 1, IF Len(points) < n THEN Len(points) ELSE n)

Newest(points, n) == SubSeq(points, IF Len(points) < n THEN 1 ELSE Len(points) - n + 1, Len(points))

\* One transaction replaces the quote, appends to the history and prunes it.
SaveCurrentPrice(r) ==
  LET a == Symbol(r) IN
  /\ At(r, "quoted")
  /\ quote' = [quote EXCEPT ![a] = job[r].price]
  /\ history' = [history EXCEPT ![a] = Newest(Append(@, job[r].price), limit[a])]
  /\ NextAsset(r, job[r].failed)
  /\ UNCHANGED <<exchange, candles, limit>>

\* A user's new limit prunes at once.
SavePriceHistoryRecordLimit(a, n) ==
  /\ limit' = [limit EXCEPT ![a] = n]
  /\ history' = [history EXCEPT ![a] = Newest(@, n)]
  /\ UNCHANGED <<exchange, candles, quote, mutex, job>>

\* The process ends and starts again: only the tables remain.
Restart ==
  /\ mutex' = Nobody
  /\ job' = [r \in Requests |-> Idle]
  /\ UNCHANGED <<exchange, tables>>

-----------------------------------------------------------------------------
Running(r) ==
  \/ AskCandles(r) \/ CandlesReply(r) \/ SaveDailyCandles(r)
  \/ PriceReply(r) \/ SaveCurrentPrice(r) \/ Fail(r)

Next ==
  \/ Trade \/ Midnight \/ Restart
  \/ \E r \in Requests : Begin(r) \/ Acquire(r) \/ Running(r)
  \/ \E a \in Symbols, n \in RecordLimits : SavePriceHistoryRecordLimit(a, n)

Spec == Init /\ [][Next]_vars

(***************************************************************************)
(* The HTTP client gives up after 15 seconds and a transaction after its   *)
(* context's deadline, so a running request moves; a Go mutex hands itself *)
(* to a starving waiter.  Nobody has to send a request.                    *)
(***************************************************************************)
Fairness == \A r \in Requests : WF_vars(Running(r)) /\ SF_vars(Acquire(r))

FairSpec == Spec /\ Fairness

-----------------------------------------------------------------------------
(***************************************************************************)
(* Properties.                                                             *)
(***************************************************************************)
\* Some days with a tick for each.
Series == UNION {[S -> 1..MaxTick] : S \in SUBSET (1..MaxDay)}

Job == [pc : {"idle", "waiting"} \cup Asking, asset : 1..Len(Assets), dayStart : 0..MaxDay,
        rows : Series, price : 0..MaxTick,
        failed : SUBSET Symbols, answer : {"none", "refreshed", "kept"},
        at : [tick : 0..MaxTick, today : 0..MaxDay, quote : [Symbols -> 0..MaxTick]]]

\* Every variable keeps its type, and the mutex is held by exactly the request
\* that runs between refreshMu.Lock and its deferred Unlock.
TypeOK ==
  /\ tick \in 1..MaxTick /\ today \in 2..MaxDay
  /\ bucket \in Series /\ DOMAIN bucket \subseteq 1..today
  /\ candles \in [Symbols -> Series]
  /\ quote \in [Symbols -> 0..MaxTick]
  /\ history \in [Symbols -> Seq(1..MaxTick)]
  /\ limit \in [Symbols -> RecordLimits \cup {DefaultLimit}]
  /\ job \in [Requests -> Job]
  /\ \A r \in Requests : mutex = r <=> job[r].pc \in Asking

\* Only closed days reach the daily series the strategy decides on, and with
\* their final close, although midnight may pass between the request, the
\* exchange's reply and the transaction.
CandlesFinal ==
  \A a \in Symbols : \A d \in DOMAIN candles[a] :
    d < today /\ d \in DOMAIN bucket /\ candles[a][d] = bucket[d]

\* The DailyCandleLimit days before some day after the newest stored candle,
\* the day of the newest refresh, are stored as far as there were trades:
\* refreshes that fail or come late leave no hole of their own in the part that
\* matters.  A day without a trade does leave one, which the code stores as it
\* comes.
RecentHistoryComplete ==
  \A a \in Symbols : candles[a] # <<>> =>
    \E day \in 1..today :
      /\ \A d \in DOMAIN candles[a] : d < day
      /\ \A d \in DOMAIN bucket :
           day - DailyCandleLimit <= d /\ d < day => d \in DOMAIN candles[a]

\* The price history never exceeds its limit, whether the limit or the history
\* changed last, and its newest point is the price on display.
HistoryKeepsNewest ==
  \A a \in Symbols :
    /\ Len(history[a]) <= limit[a]
    /\ quote[a] # 0 => Len(history[a]) > 0 /\ history[a][Len(history[a])] = quote[a]

\* A price on display is never replaced by an older one, although requests
\* overlap and each holds a reply for a while before it saves it.
QuoteNeverGoesBack == [][\A a \in Symbols : quote'[a] >= quote[a]]_vars

Answers(r, answer) == job[r].pc \in Asking /\ job'[r].answer = answer

\* The days whose candle a full request that succeeds has to bring.
Owed(r) == {d \in DOMAIN bucket : today - DailyCandleLimit <= d /\ d < job[r].at.today}

\* A request that reports success leaves every asset with a price no older than
\* the request, and a full one with every recent candle that was complete when
\* it began, whatever else refreshed, failed or restarted meanwhile; one that
\* reports the existing prices as kept has left at least one as it was.
AnswerTellsTheStore ==
  [][\A r \in Requests :
       /\ Answers(r, "refreshed") =>
            \A a \in Symbols :
              /\ quote'[a] >= job[r].at.tick
              /\ r \in FullRequests => Owed(r) \subseteq DOMAIN candles'[a]
       /\ Answers(r, "kept") => \E a \in Symbols : quote'[a] = job[r].at.quote[a]]_vars

\* A request that waits for the mutex is answered, however often others fail.
RequestsAnswered == \A r \in Requests : At(r, "waiting") ~> At(r, "idle")
=============================================================================
