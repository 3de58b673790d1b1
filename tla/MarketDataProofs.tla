-------------------------- MODULE MarketDataProofs --------------------------
(***************************************************************************)
(* Proofs about the market refresher, for any assets, any number of        *)
(* requests of both kinds and any limits.  The mutex lets one request run, *)
(* so what it has read about an asset is still true when it saves it.      *)
(* What it brought stays, so that its answer is true.  Its work is bounded *)
(* by the assets, so it lets go of the mutex.                              *)
(***************************************************************************)
EXTENDS MarketData, SequenceTheorems, TLAPS

Clock ==
  /\ tick \in 1..MaxTick /\ today \in 2..MaxDay
  /\ bucket \in Series /\ DOMAIN bucket \subseteq 1..today

Stored ==
  /\ candles \in [Symbols -> Series]
  /\ quote \in [Symbols -> 0..MaxTick]
  /\ history \in [Symbols -> Seq(1..MaxTick)]
  /\ limit \in [Symbols -> RecordLimits \cup {DefaultLimit}]

Jobs == job \in [Requests -> Job]

Holder == \A r \in Requests : mutex = r <=> job[r].pc \in Asking

Runs(r) == job[r].pc \in Asking

-----------------------------------------------------------------------------
LEMMA TypeParts == TypeOK <=> Clock /\ Stored /\ Jobs /\ Holder
BY DEF TypeOK, Clock, Stored, Jobs, Holder

LEMMA Numbers ==
  /\ Len(Assets) \in Nat \ {0} /\ DailyCandleLimit \in Nat \ {0}
  /\ MaxTick \in Nat \ {0} /\ MaxDay \in Nat \ {0, 1}
  /\ \A n \in RecordLimits \cup {DefaultLimit} : n \in Nat \ {0}
BY MarketDataAssumptions

LEMMA IdleTyped == Idle \in Job /\ Idle.pc = "idle" /\ "idle" \notin Asking /\ "waiting" \notin Asking
<1>1. <<>> \in Series
  <2>1. <<>> \in [{} -> 1..MaxTick]
    OBVIOUS
  <2>2. QED BY <2>1 DEF Series
<1>2. [a \in Symbols |-> 0] \in [Symbols -> 0..MaxTick]
  BY Numbers
<1> HIDE DEF Series, Symbols
<1>3. QED BY <1>1, <1>2, Numbers DEF Idle, Job, Asking

\* A step of request r leaves the others alone.
LEMMA JobStep ==
  ASSUME Jobs, NEW r \in Requests, NEW next \in Job, job' = [job EXCEPT ![r] = next]
  PROVE  /\ Jobs' /\ job'[r] = next
         /\ \A q \in Requests : q # r => job'[q] = job[q]
<1> HIDE DEF Job
<1> QED BY DEF Jobs

LEMMA EmptySeries == <<>> \in Series
BY IdleTyped DEF Idle, Job

LEMMA SymbolTyped ==
  ASSUME Jobs, NEW r \in Requests
  PROVE  Symbol(r) \in Symbols /\ job[r].asset \in 1..Len(Assets)
<1>1. job[r] \in Job
  BY DEF Jobs
<1>2. job[r].asset \in 1..Len(Assets)
  BY <1>1 DEF Job
<1>3. QED BY <1>2 DEF Symbol, Symbols

\* Exactly the holder of the mutex runs.
LEMMA OneRuns ==
  ASSUME Holder, NEW r \in Requests, NEW q \in Requests, Runs(r), Runs(q)
  PROVE  r = q
BY DEF Holder, Runs

\* The loop goes on with a typed job, and hands the mutex on when it ends.
LEMMA NextAssetStep ==
  ASSUME Jobs, Holder, NEW r \in Requests, Runs(r), NEW failed \in SUBSET Symbols,
         NextAsset(r, failed)
  PROVE  /\ Jobs' /\ Holder'
         /\ \A q \in Requests : q # r => job'[q] = job[q]
         /\ \/ /\ job[r].asset < Len(Assets) /\ job'[r].asset = job[r].asset + 1
               /\ job'[r].pc \in {"candles", "price"} /\ job'[r].at = job[r].at
               /\ job'[r].pc = FirstStep(r) /\ job'[r].failed = failed
               /\ job'[r].answer = job[r].answer /\ job'[r].dayStart = job[r].dayStart
            \/ /\ job[r].asset = Len(Assets) /\ job'[r].pc = "idle"
               /\ job'[r].answer = Answer(failed) /\ job'[r].dayStart = 0
<1>1. job[r] \in Job /\ job[r].asset \in 1..Len(Assets) /\ job[r].asset \in Nat
  BY SymbolTyped, Numbers DEF Jobs
<1>2. CASE job[r].asset < Len(Assets)
  <2> DEFINE next == [job[r] EXCEPT !.pc = FirstStep(r), !.asset = job[r].asset + 1,
                        !.rows = <<>>, !.price = 0, !.failed = failed]
  <2>1. job' = [job EXCEPT ![r] = next] /\ mutex' = mutex
    BY <1>2 DEF NextAsset
  <2>2. FirstStep(r) \in {"candles", "price"}
    BY DEF FirstStep
  <2>3. job[r].asset + 1 \in 1..Len(Assets)
    BY <1>1, <1>2, Numbers
  <2>4. /\ next \in Job /\ next.pc = FirstStep(r) /\ next.asset = job[r].asset + 1
        /\ next.failed = failed /\ next.at = job[r].at /\ next.answer = job[r].answer
        /\ next.dayStart = job[r].dayStart
    <3>1. FirstStep(r) \in {"idle", "waiting"} \cup Asking /\ 0 \in 0..MaxTick
      BY <2>2, Numbers DEF Asking
    <3>2. QED BY <1>1, <2>3, <3>1, EmptySeries DEF Job
  <2> HIDE DEF next
  <2>5. Jobs' /\ job'[r] = next /\ \A q \in Requests : q # r => job'[q] = job[q]
    BY <2>1, <2>4, JobStep
  <2>6. Holder'
    BY <2>1, <2>2, <2>4, <2>5 DEF Holder, Runs, Asking
  <2>7. QED BY <1>2, <2>2, <2>4, <2>5, <2>6
<1>3. CASE ~(job[r].asset < Len(Assets))
  <2> DEFINE next == [Idle EXCEPT !.answer = Answer(failed)]
  <2>1. job' = [job EXCEPT ![r] = next] /\ mutex' = Nobody
    BY <1>3 DEF NextAsset
  <2>2. /\ next \in Job /\ next.pc = "idle" /\ next.answer = Answer(failed)
        /\ next.dayStart = 0
    BY IdleTyped DEF Job, Idle, Answer
  <2> HIDE DEF next
  <2>3. Jobs' /\ job'[r] = next /\ \A q \in Requests : q # r => job'[q] = job[q]
    BY <2>1, <2>2, JobStep
  <2>4. \A q \in Requests : Nobody # q
    BY MarketDataAssumptions DEF Requests
  <2>5. Holder'
    BY <2>1, <2>2, <2>3, <2>4, IdleTyped, OneRuns DEF Holder, Runs
  <2>6. job[r].asset = Len(Assets)
    BY <1>1, <1>3, Numbers
  <2>7. QED BY <2>2, <2>3, <2>5, <2>6
<1>4. QED BY <1>2, <1>3

-----------------------------------------------------------------------------
(***************************************************************************)
(* The inductive invariant.                                                *)
(***************************************************************************)
\* The reply holds the final closes of all days of the window with a trade.
RowsFinal(r) ==
  /\ \A d \in DOMAIN job[r].rows : d < job[r].dayStart =>
       d \in DOMAIN bucket /\ job[r].rows[d] = bucket[d]
  /\ \A d \in DOMAIN bucket :
       WindowStart(job[r].dayStart) <= d /\ d < job[r].dayStart => d \in DOMAIN job[r].rows

PriceNewest(r) ==
  /\ job[r].at.tick <= job[r].price /\ 1 <= job[r].price /\ job[r].price <= tick
  /\ quote[Symbol(r)] <= job[r].price

\* What a running request has done: the assets before its own are dealt with.
DoneSoFar(r) ==
  /\ job[r].at.tick <= tick
  /\ \A i \in 1..Len(Assets) :
       IF i < job[r].asset /\ Assets[i] \notin job[r].failed
       THEN quote[Assets[i]] >= job[r].at.tick
       ELSE quote[Assets[i]] = job[r].at.quote[Assets[i]]
  /\ \A i \in job[r].asset..Len(Assets) : Assets[i] \notin job[r].failed

JobInv(r) ==
  /\ job[r].dayStart <= today
  /\ job[r].pc = "rows" => RowsFinal(r)
  /\ job[r].pc = "quoted" => PriceNewest(r)
  /\ Runs(r) => DoneSoFar(r)
  /\ job[r].pc # "idle" => job[r].answer = "none"
  /\ job[r].pc = "waiting" => job[r].asset = 1 /\ job[r].failed = {}

QuotesTraded == \A a \in Symbols : quote[a] <= tick

MInv ==
  /\ TypeOK /\ CandlesFinal /\ RecentHistoryComplete /\ HistoryKeepsNewest
  /\ QuotesTraded /\ \A r \in Requests : JobInv(r)

LEMMA JobTyped ==
  ASSUME Jobs, NEW r \in Requests
  PROVE  /\ job[r] \in Job /\ job[r].dayStart \in Nat /\ job[r].price \in Nat
         /\ job[r].asset \in Nat /\ job[r].asset >= 1 /\ job[r].asset <= Len(Assets)
         /\ job[r].at.tick \in Nat /\ \A a \in Symbols : job[r].at.quote[a] \in Nat
<1>1. job[r] \in Job
  BY DEF Jobs
<1> HIDE DEF Symbols, Series
<1>2. /\ job[r].dayStart \in 0..MaxDay /\ job[r].price \in 0..MaxTick
      /\ job[r].asset \in 1..Len(Assets) /\ job[r].at.tick \in 0..MaxTick
      /\ job[r].at.quote \in [Symbols -> 0..MaxTick]
  BY <1>1 DEF Job
<1>3. QED BY <1>1, <1>2, Numbers

LEMMA SeriesDays ==
  ASSUME NEW s \in Series
  PROVE  \A d \in DOMAIN s : d \in Nat /\ d >= 1 /\ d <= MaxDay /\ s[d] \in 1..MaxTick
<1>1. PICK S \in SUBSET (1..MaxDay) : s \in [S -> 1..MaxTick]
  BY DEF Series
<1>2. DOMAIN s = S /\ \A d \in S : d \in 1..MaxDay /\ s[d] \in 1..MaxTick
  BY <1>1
<1>3. QED BY <1>2, Numbers

\* Time adds buckets of today and of later days.
PastKept ==
  /\ \A d \in DOMAIN bucket : d < today => d \in DOMAIN bucket' /\ bucket'[d] = bucket[d]
  /\ \A d \in DOMAIN bucket' : d < today => d \in DOMAIN bucket

LEMMA SamePast ==
  ASSUME bucket' = bucket
  PROVE  PastKept
BY DEF PastKept

\* A request that does not move keeps what it knows, while the world goes on.
LEMMA JobKept ==
  ASSUME Clock, Clock', Jobs, NEW r \in Requests, JobInv(r), job'[r] = job[r],
         tick' >= tick, today' >= today, PastKept,
         quote' = quote \/ ~Runs(r)
  PROVE  JobInv(r)'
<1>1. /\ tick \in Nat /\ tick' \in Nat /\ today \in Nat /\ today' \in Nat
  BY Numbers DEF Clock
<1>2. job[r].dayStart \in Nat /\ job[r].price \in Nat /\ job[r].at.tick \in Nat
  BY JobTyped
<1>3. job[r].pc = "rows" => RowsFinal(r)'
  <2>1. \A d \in DOMAIN job[r].rows : d \in Nat /\ d >= 1
    <3>1. job[r].rows \in Series
      BY JobTyped DEF Job
    <3>2. QED BY <3>1, SeriesDays
  <2> SUFFICES ASSUME job[r].pc = "rows" PROVE RowsFinal(r)'
    OBVIOUS
  <2>2. RowsFinal(r) /\ job[r].dayStart <= today
    BY DEF JobInv
  <2>3. ASSUME NEW d \in DOMAIN job[r].rows, d < job[r].dayStart
        PROVE  d \in DOMAIN bucket' /\ job[r].rows[d] = bucket'[d]
    <3>1. d < today
      BY <1>1, <1>2, <2>1, <2>2, <2>3
    <3>2. QED BY <2>2, <2>3, <3>1 DEF RowsFinal, PastKept
  <2>4. ASSUME NEW d \in DOMAIN bucket', WindowStart(job[r].dayStart) <= d, d < job[r].dayStart
        PROVE  d \in DOMAIN job[r].rows
    <3>1. d \in Nat
      BY SeriesDays DEF Clock
    <3>2. d < today
      BY <1>1, <1>2, <2>2, <2>4, <3>1
    <3>3. QED BY <2>2, <2>4, <3>2 DEF RowsFinal, PastKept
  <2>5. QED BY <2>3, <2>4 DEF RowsFinal, WindowStart
<1>4. job[r].pc = "quoted" => PriceNewest(r)'
  BY <1>1, <1>2 DEF JobInv, PriceNewest, Runs, Asking, Symbol
<1>5. Runs(r) => DoneSoFar(r)'
  BY <1>1, <1>2 DEF JobInv, DoneSoFar, Runs
<1>6. QED BY <1>1, <1>2, <1>3, <1>4, <1>5 DEF JobInv, Runs

LEMMA InitMarket == Init => MInv
<1> SUFFICES ASSUME Init PROVE MInv
  OBVIOUS
<1>1. Clock
  <2>1. bucket \in [{1} -> 1..MaxTick] /\ {1} \in SUBSET (1..MaxDay) /\ DOMAIN bucket = {1}
    BY Numbers DEF Init
  <2>2. bucket \in Series
    BY <2>1 DEF Series
  <2>3. QED BY <2>1, <2>2, Numbers DEF Init, Clock
<1>2. /\ \A a \in Symbols : candles[a] = <<>> /\ quote[a] = 0 /\ history[a] = <<>>
                            /\ limit[a] = DefaultLimit
      /\ Stored
  <2> HIDE DEF Symbols
  <2>1. \A a \in Symbols : candles[a] = <<>> /\ quote[a] = 0 /\ history[a] = <<>>
                            /\ limit[a] = DefaultLimit
    BY DEF Init
  <2>2. candles \in [Symbols -> Series] /\ quote \in [Symbols -> 0..MaxTick]
    BY EmptySeries, Numbers DEF Init
  <2>3. limit \in [Symbols -> RecordLimits \cup {DefaultLimit}]
    BY DEF Init
  <2>4. <<>> \in Seq(1..MaxTick)
    OBVIOUS
  <2>5. history \in [Symbols -> Seq(1..MaxTick)]
    BY <2>4 DEF Init
  <2>6. QED BY <2>1, <2>2, <2>3, <2>5 DEF Stored
<1>3. Jobs /\ \A r \in Requests : job[r] = Idle
  BY IdleTyped DEF Init, Jobs
<1>4. Holder
  BY <1>3, IdleTyped, MarketDataAssumptions DEF Init, Holder, Requests
<1>5. CandlesFinal /\ RecentHistoryComplete
  BY <1>2 DEF CandlesFinal, RecentHistoryComplete
<1>6. HistoryKeepsNewest
  BY <1>2, Numbers DEF HistoryKeepsNewest
<1>7. QuotesTraded
  BY <1>2, <1>1, Numbers DEF QuotesTraded, Clock
<1>8. \A r \in Requests : JobInv(r)
  BY <1>3, <1>1, IdleTyped, Numbers DEF JobInv, Runs, Idle, Clock
<1>9. QED BY <1>1, <1>2, <1>3, <1>4, <1>5, <1>6, <1>7, <1>8, TypeParts DEF MInv

-----------------------------------------------------------------------------
(***************************************************************************)
(* What steps leave alone.                                                 *)
(***************************************************************************)
LEMMA Parts ==
  ASSUME MInv
  PROVE  /\ Clock /\ Stored /\ Jobs /\ Holder /\ \A r \in Requests : JobInv(r)
         /\ CandlesFinal /\ RecentHistoryComplete /\ HistoryKeepsNewest /\ QuotesTraded
BY TypeParts DEF MInv

LEMMA Whole ==
  ASSUME Clock', Stored', Jobs', Holder', \A r \in Requests : JobInv(r)',
         CandlesFinal', RecentHistoryComplete', HistoryKeepsNewest', QuotesTraded'
  PROVE  MInv'
BY DEF MInv, TypeOK, Clock, Stored, Jobs, Holder

LEMMA WorldKept ==
  ASSUME MInv, UNCHANGED <<exchange, tables>>
  PROVE  /\ Clock' /\ Stored' /\ CandlesFinal' /\ RecentHistoryComplete'
         /\ HistoryKeepsNewest' /\ QuotesTraded'
<1>1. /\ tick' = tick /\ today' = today /\ bucket' = bucket /\ candles' = candles
      /\ quote' = quote /\ history' = history /\ limit' = limit
  BY DEF exchange, tables
<1>2. QED BY <1>1, Parts DEF Clock, Stored, CandlesFinal, RecentHistoryComplete,
        HistoryKeepsNewest, QuotesTraded

\* Only request r moves; the tables stay.
LEMMA RequestStep ==
  ASSUME MInv, UNCHANGED <<exchange, tables>>, NEW r \in Requests, Jobs', Holder', JobInv(r)',
         \A q \in Requests : q # r => job'[q] = job[q]
  PROVE  MInv'
<1>1. ASSUME NEW q \in Requests, q # r
      PROVE  JobInv(q)'
  <2>1. /\ tick' = tick /\ today' = today /\ bucket' = bucket /\ quote' = quote /\ job'[q] = job[q]
    BY <1>1 DEF exchange, tables
  <2>2. /\ tick' >= tick /\ today' >= today /\ PastKept
    BY <2>1, Parts, Numbers, SamePast DEF Clock
  <2>3. Clock /\ Clock' /\ Jobs /\ JobInv(q)
    BY Parts, WorldKept
  <2>4. QED BY <2>1, <2>2, <2>3, JobKept
<1>2. \A q \in Requests : JobInv(q)'
  BY <1>1
<1>3. QED BY <1>2, WorldKept, Whole

-----------------------------------------------------------------------------
(***************************************************************************)
(* The steps of a request that leave the tables alone.                     *)
(***************************************************************************)
LEMMA TradeInv ==
  ASSUME MInv, Trade
  PROVE  MInv'
<1>1. /\ tick' = tick + 1 /\ tick < MaxTick /\ today' = today
      /\ bucket' = [d \in DOMAIN bucket \cup {today} |-> IF d = today THEN tick + 1 ELSE bucket[d]]
      /\ UNCHANGED <<candles, quote, history, limit, mutex, job>>
  BY DEF Trade, tables
<1>2. /\ tick \in Nat /\ tick + 1 \in 1..MaxTick /\ today \in Nat /\ today \in 1..MaxDay
      /\ DOMAIN bucket \subseteq 1..today /\ bucket \in Series
  BY <1>1, Parts, Numbers DEF Clock
<1>3. /\ DOMAIN bucket' = DOMAIN bucket \cup {today}
      /\ \A d \in DOMAIN bucket' : bucket'[d] = IF d = today THEN tick + 1 ELSE bucket[d]
  BY <1>1
<1>4. PastKept
  <2>1. ~(today < today)
    BY <1>2
  <2>2. QED BY <1>3, <2>1 DEF PastKept
<1>5. bucket' \in Series
  <2>1. \A d \in DOMAIN bucket : d \in 1..MaxDay /\ bucket[d] \in 1..MaxTick
    BY <1>2, SeriesDays, Numbers
  <2>2. \A d \in DOMAIN bucket' : d \in 1..MaxDay /\ bucket'[d] \in 1..MaxTick
    BY <1>2, <1>3, <2>1
  <2>3. bucket' \in [DOMAIN bucket' -> 1..MaxTick]
    BY <1>1, <2>2
  <2>4. DOMAIN bucket' \in SUBSET (1..MaxDay)
    BY <2>2
  <2>5. QED BY <2>3, <2>4 DEF Series
<1>6. Clock /\ Clock' /\ tick' >= tick /\ today' >= today
  <2>1. DOMAIN bucket' \subseteq 1..today'
    BY <1>1, <1>2, <1>3
  <2>2. QED BY <1>1, <1>2, <1>5, <2>1, Parts, Numbers DEF Clock
<1>7. Stored' /\ Jobs' /\ Holder' /\ HistoryKeepsNewest'
  BY <1>1, Parts DEF Stored, Jobs, Holder, HistoryKeepsNewest
<1>8. CandlesFinal'
  BY <1>1, <1>4, Parts DEF CandlesFinal, PastKept
<1>9. RecentHistoryComplete'
  <2> SUFFICES ASSUME NEW a \in Symbols, candles[a] # <<>>
               PROVE  \E day \in 1..today' :
                        /\ \A d \in DOMAIN candles[a] : d < day
                        /\ \A d \in DOMAIN bucket' :
                             day - DailyCandleLimit <= d /\ d < day => d \in DOMAIN candles[a]
    BY <1>1 DEF RecentHistoryComplete
  <2>1. PICK day \in 1..today :
          /\ \A d \in DOMAIN candles[a] : d < day
          /\ \A d \in DOMAIN bucket :
               day - DailyCandleLimit <= d /\ d < day => d \in DOMAIN candles[a]
    BY Parts DEF RecentHistoryComplete
  <2>2. \A d \in DOMAIN bucket' : d < day => d \in DOMAIN bucket
    BY <1>2, <1>3, <2>1
  <2>3. QED BY <1>1, <2>1, <2>2
<1>10. QuotesTraded'
  <2>1. \A a \in Symbols : quote[a] \in Nat
    BY Parts, Numbers DEF Stored
  <2>2. QED BY <1>1, <1>2, <2>1, Parts DEF QuotesTraded
<1>11. \A r \in Requests : JobInv(r)'
  BY <1>1, <1>4, <1>6, Parts, JobKept
<1>12. QED BY <1>6, <1>7, <1>8, <1>9, <1>10, <1>11, Whole

LEMMA MidnightInv ==
  ASSUME MInv, Midnight
  PROVE  MInv'
<1>1. /\ today < MaxDay /\ today' = today + 1 /\ tick' = tick /\ bucket' = bucket
      /\ UNCHANGED <<candles, quote, history, limit, mutex, job>>
  BY DEF Midnight, tables
<1>2. /\ today \in Nat /\ today >= 2 /\ today' \in 2..MaxDay /\ today' >= today
      /\ 1..today \subseteq 1..today'
  BY <1>1, Parts, Numbers DEF Clock
<1>3. Clock /\ Clock' /\ tick' >= tick
  BY <1>1, <1>2, Parts, Numbers DEF Clock
<1>4. Stored' /\ Jobs' /\ Holder' /\ HistoryKeepsNewest' /\ QuotesTraded'
  BY <1>1, Parts DEF Stored, Jobs, Holder, HistoryKeepsNewest, QuotesTraded
<1>5. CandlesFinal'
  <2> SUFFICES ASSUME NEW a \in Symbols, NEW d \in DOMAIN candles[a]
               PROVE  d < today' /\ d \in DOMAIN bucket /\ candles[a][d] = bucket[d]
    BY <1>1 DEF CandlesFinal
  <2>1. d \in Nat
    BY Parts, SeriesDays DEF Stored
  <2>2. d < today /\ d \in DOMAIN bucket /\ candles[a][d] = bucket[d]
    BY Parts DEF CandlesFinal
  <2>3. QED BY <1>1, <1>2, <2>1, <2>2
<1>6. RecentHistoryComplete'
  <2> SUFFICES ASSUME NEW a \in Symbols, candles[a] # <<>>
               PROVE  \E day \in 1..today' :
                        /\ \A d \in DOMAIN candles[a] : d < day
                        /\ \A d \in DOMAIN bucket :
                             day - DailyCandleLimit <= d /\ d < day => d \in DOMAIN candles[a]
    BY <1>1 DEF RecentHistoryComplete
  <2>1. \E day \in 1..today :
          /\ \A d \in DOMAIN candles[a] : d < day
          /\ \A d \in DOMAIN bucket :
               day - DailyCandleLimit <= d /\ d < day => d \in DOMAIN candles[a]
    BY Parts DEF RecentHistoryComplete
  <2>2. QED BY <1>2, <2>1
<1>7. \A r \in Requests : JobInv(r)'
  BY <1>1, <1>2, <1>3, Parts, JobKept, SamePast
<1>8. QED BY <1>3, <1>4, <1>5, <1>6, <1>7, Whole

LEMMA RestartInv ==
  ASSUME MInv, Restart
  PROVE  MInv'
<1>1. /\ mutex' = Nobody /\ job' = [r \in Requests |-> Idle] /\ UNCHANGED <<exchange, tables>>
  BY DEF Restart
<1>2. Jobs' /\ \A r \in Requests : job'[r] = Idle
  BY <1>1, IdleTyped DEF Jobs
<1>3. Holder'
  BY <1>1, <1>2, IdleTyped, MarketDataAssumptions DEF Holder, Requests
<1>4. \A r \in Requests : JobInv(r)'
  <2>1. today' \in Nat
    BY WorldKept, <1>1, Numbers DEF Clock
  <2>2. QED BY <1>2, <2>1, IdleTyped DEF JobInv, Runs, Idle
<1>5. QED BY <1>1, <1>2, <1>3, <1>4, WorldKept, Whole

LEMMA BeginInv ==
  ASSUME MInv, NEW r \in Requests, Begin(r)
  PROVE  MInv'
<1> DEFINE next == [Idle EXCEPT !.pc = "waiting"]
<1>1. /\ job[r].pc = "idle" /\ job' = [job EXCEPT ![r] = next]
      /\ UNCHANGED <<exchange, tables>> /\ mutex' = mutex
  BY DEF Begin, At
<1>2. next \in Job /\ next.pc = "waiting" /\ next.answer = "none" /\ next.dayStart = 0
      /\ next.asset = 1 /\ next.failed = {}
  BY IdleTyped DEF Job, Idle
<1> HIDE DEF next
<1>3. Jobs' /\ job'[r] = next /\ \A q \in Requests : q # r => job'[q] = job[q]
  BY <1>1, <1>2, Parts, JobStep
<1>4. Holder'
  BY <1>1, <1>2, <1>3, IdleTyped, Parts DEF Holder
<1>5. JobInv(r)'
  <2>1. today' \in Nat
    BY WorldKept, <1>1, Numbers DEF Clock
  <2>2. QED BY <1>2, <1>3, <2>1, IdleTyped DEF JobInv, Runs
<1>6. QED BY <1>1, <1>3, <1>4, <1>5, RequestStep

LEMMA AcquireInv ==
  ASSUME MInv, NEW r \in Requests, Acquire(r)
  PROVE  MInv'
<1> DEFINE at   == [tick |-> tick, today |-> today, quote |-> quote]
           next == [job[r] EXCEPT !.pc = FirstStep(r), !.at = at]
<1>1. /\ job[r].pc = "waiting" /\ mutex = Nobody /\ mutex' = r
      /\ job' = [job EXCEPT ![r] = next] /\ UNCHANGED <<exchange, tables>>
  BY DEF Acquire, At
<1>2. FirstStep(r) \in {"candles", "price"}
  BY DEF FirstStep
<1>3. at \in [tick : 0..MaxTick, today : 0..MaxDay, quote : [Symbols -> 0..MaxTick]]
  BY Parts, Numbers DEF Clock, Stored
<1>4. /\ next \in Job /\ next.pc = FirstStep(r) /\ next.at = at
      /\ next.asset = job[r].asset /\ next.failed = job[r].failed
      /\ next.dayStart = job[r].dayStart /\ next.answer = job[r].answer
  <2>1. job[r] \in Job /\ FirstStep(r) \in {"idle", "waiting"} \cup Asking
    BY <1>2, Parts, JobTyped DEF Asking
  <2>2. QED BY <1>3, <2>1 DEF Job
<1> HIDE DEF next
<1>5. Jobs' /\ job'[r] = next /\ \A q \in Requests : q # r => job'[q] = job[q]
  BY <1>1, <1>4, Parts, JobStep
<1>6. Holder'
  <2>1. \A q \in Requests : q # Nobody
    BY MarketDataAssumptions DEF Requests
  <2>2. QED BY <1>1, <1>2, <1>4, <1>5, <2>1, Parts DEF Holder, Asking
<1>7. JobInv(r)'
  <2>1. /\ job[r].dayStart <= today /\ job[r].answer = "none" /\ job[r].asset = 1
        /\ job[r].failed = {}
    BY <1>1, Parts DEF JobInv
  <2>2. tick \in Nat /\ quote' = quote /\ tick' = tick /\ today' = today
    BY <1>1, Parts, Numbers DEF Clock, exchange, tables
  <2>3. DoneSoFar(r)'
    BY <1>4, <1>5, <2>1, <2>2 DEF DoneSoFar
  <2>4. QED BY <1>2, <1>4, <1>5, <2>1, <2>2, <2>3 DEF JobInv
<1>8. QED BY <1>1, <1>5, <1>6, <1>7, RequestStep

\* A step within one asset: the request stays at it and remembers its answer.
LEMMA AskStep ==
  ASSUME MInv, NEW r \in Requests, UNCHANGED <<exchange, tables, mutex>>, NEW next \in Job,
         Runs(r), job' = [job EXCEPT ![r] = next], next.pc \in Asking,
         next.asset = job[r].asset, next.failed = job[r].failed, next.at = job[r].at,
         next.answer = job[r].answer, next.dayStart <= today,
         next.pc = "rows" => RowsFinal(r)', next.pc = "quoted" => PriceNewest(r)'
  PROVE  MInv'
<1>1. Jobs' /\ job'[r] = next /\ \A q \in Requests : q # r => job'[q] = job[q]
  BY Parts, JobStep
<1>2. mutex' = mutex /\ tick' = tick /\ today' = today /\ quote' = quote
  BY DEF exchange, tables
<1>3. Holder'
  BY <1>1, <1>2, Parts DEF Holder, Runs
<1>4. JobInv(r) /\ Runs(r) /\ job[r].pc # "idle"
  BY Parts, IdleTyped DEF Runs
<1>5. DoneSoFar(r)'
  BY <1>1, <1>2, <1>4 DEF JobInv, DoneSoFar
<1>6. JobInv(r)'
  BY <1>1, <1>2, <1>4, <1>5, IdleTyped DEF JobInv
<1>7. QED BY <1>1, <1>3, <1>6, RequestStep

LEMMA AskCandlesInv ==
  ASSUME MInv, NEW r \in Requests, AskCandles(r)
  PROVE  MInv'
<1> DEFINE next == [job[r] EXCEPT !.pc = "sent", !.dayStart = today]
<1>1. /\ job[r].pc = "candles" /\ job' = [job EXCEPT ![r] = next]
      /\ UNCHANGED <<exchange, tables, mutex>>
  BY DEF AskCandles, At
<1>2. today \in 0..MaxDay /\ today \in Nat
  BY Parts, Numbers DEF Clock
<1>3. /\ next \in Job /\ next.pc = "sent" /\ next.dayStart = today
      /\ next.asset = job[r].asset /\ next.failed = job[r].failed /\ next.at = job[r].at
      /\ next.answer = job[r].answer
  <2>1. job[r] \in Job /\ "sent" \in {"idle", "waiting"} \cup Asking
    BY Parts, JobTyped DEF Asking
  <2>2. QED BY <1>2, <2>1 DEF Job
<1> HIDE DEF next
<1>4. Runs(r) /\ next.pc \in Asking /\ next.dayStart <= today
  BY <1>1, <1>2, <1>3 DEF Runs, Asking
<1>5. QED BY <1>1, <1>3, <1>4, AskStep

LEMMA PriceReplyInv ==
  ASSUME MInv, NEW r \in Requests, PriceReply(r)
  PROVE  MInv'
<1> DEFINE next == [job[r] EXCEPT !.pc = "quoted", !.price = tick]
<1>1. /\ job[r].pc = "price" /\ job' = [job EXCEPT ![r] = next]
      /\ UNCHANGED <<exchange, tables, mutex>>
  BY DEF PriceReply, At
<1>2. tick \in 0..MaxTick /\ tick \in Nat /\ 1 <= tick
  BY Parts, Numbers DEF Clock
<1>3. /\ next \in Job /\ next.pc = "quoted" /\ next.dayStart = job[r].dayStart
      /\ next.asset = job[r].asset /\ next.failed = job[r].failed /\ next.at = job[r].at
      /\ next.answer = job[r].answer /\ next.price = tick
  <2>1. job[r] \in Job /\ "quoted" \in {"idle", "waiting"} \cup Asking
    BY Parts, JobTyped DEF Asking
  <2>2. QED BY <1>2, <2>1 DEF Job
<1> HIDE DEF next
<1>4. Runs(r) /\ next.pc \in Asking
  BY <1>1, <1>3 DEF Runs, Asking
<1>5. next.dayStart <= today /\ job[r].at.tick <= tick
  BY <1>3, <1>4, Parts DEF JobInv, DoneSoFar
<1>6. PriceNewest(r)'
  <2>1. job'[r] = next /\ tick' = tick /\ quote' = quote
    BY <1>1, <1>3, Parts, JobStep DEF exchange, tables
  <2>2. Symbol(r)' = Symbol(r) /\ quote[Symbol(r)] <= tick
    BY <1>3, <2>1, Parts, SymbolTyped DEF Symbol, QuotesTraded
  <2>3. QED BY <1>2, <1>3, <1>5, <2>1, <2>2 DEF PriceNewest
<1>7. QED BY <1>1, <1>3, <1>4, <1>5, <1>6, AskStep

\* The reply to a request of an earlier day holds that day's final closes.
LEMMA CandlesReplyInv ==
  ASSUME MInv, NEW r \in Requests, CandlesReply(r)
  PROVE  MInv'
<1> DEFINE start == job[r].dayStart
           rows  == Buckets(WindowStart(start), start)
           next  == [job[r] EXCEPT !.pc = "rows", !.rows = rows]
<1>1. /\ job[r].pc = "sent" /\ job' = [job EXCEPT ![r] = next]
      /\ UNCHANGED <<exchange, tables, mutex>>
  BY DEF CandlesReply, At
<1>2. /\ tick \in 1..MaxTick /\ today \in Nat /\ today <= MaxDay /\ start \in Nat /\ start <= today
      /\ bucket \in Series /\ MaxDay \in Nat
  BY Parts, Numbers, JobTyped DEF Clock, JobInv
<1>3. WindowStart(start) \in Int
  BY <1>2, Numbers DEF WindowStart
<1>4. /\ DOMAIN rows = {e \in DOMAIN bucket : WindowStart(start) <= e /\ e <= start}
      /\ \A d \in DOMAIN rows : rows[d] = bucket[d]
  BY DEF Buckets
<1>5. rows \in Series
  <2>1. DOMAIN rows \in SUBSET (1..MaxDay)
    BY <1>2, <1>4, SeriesDays
  <2>2. \A d \in DOMAIN rows : rows[d] \in 1..MaxTick
    BY <1>2, <1>4, SeriesDays
  <2>3. rows \in [DOMAIN rows -> 1..MaxTick]
    BY <2>2 DEF Buckets
  <2>4. QED BY <2>1, <2>3 DEF Series
<1> HIDE DEF rows, start
<1>6. /\ next \in Job /\ next.pc = "rows" /\ next.dayStart = start /\ next.rows = rows
      /\ next.asset = job[r].asset /\ next.failed = job[r].failed /\ next.at = job[r].at
      /\ next.answer = job[r].answer
  <2>1. job[r] \in Job /\ "rows" \in {"idle", "waiting"} \cup Asking
    BY Parts, JobTyped DEF Asking
  <2>2. QED BY <1>5, <2>1 DEF Job, start
<1> HIDE DEF next
<1>7. Runs(r) /\ next.pc \in Asking /\ next.dayStart <= today /\ next.pc # "quoted"
  BY <1>1, <1>2, <1>6 DEF Runs, Asking
<1>8. RowsFinal(r)'
  <2>1. job'[r] = next /\ bucket' = bucket
    BY <1>1, <1>6, Parts, JobStep DEF exchange
  <2>2. \A d \in DOMAIN rows : d \in DOMAIN bucket /\ rows[d] = bucket[d]
    BY <1>4
  <2>3. \A d \in DOMAIN bucket : WindowStart(start) <= d /\ d < start => d \in DOMAIN rows
    <3>1. \A d \in DOMAIN bucket : d \in Nat
      BY <1>2, SeriesDays
    <3>2. QED BY <1>2, <1>4, <3>1
  <2>4. QED BY <1>6, <2>1, <2>2, <2>3 DEF RowsFinal, WindowStart
<1>9. next.dayStart = job[r].dayStart
  BY <1>6 DEF start
<1>10. QED BY <1>1, <1>6, <1>7, <1>8, AskStep

-----------------------------------------------------------------------------
(***************************************************************************)
(* The steps that end an asset.                                            *)
(***************************************************************************)
\* What is true of every asset's price once the asset of r is dealt with.
Told(r, failed) ==
  /\ \A i \in 1..Len(Assets) :
       IF i <= job[r].asset /\ Assets[i] \notin failed
       THEN quote'[Assets[i]] >= job[r].at.tick
       ELSE quote'[Assets[i]] = job[r].at.quote[Assets[i]]
  /\ \A i \in job[r].asset + 1..Len(Assets) : Assets[i] \notin failed

LEMMA FailTold ==
  ASSUME MInv, NEW r \in Requests, Runs(r), quote' = quote,
         NEW failed, failed = job[r].failed \cup {Symbol(r)}
  PROVE  Told(r, failed)
<1>1. /\ job[r].asset \in Nat /\ job[r].asset >= 1 /\ job[r].asset <= Len(Assets)
      /\ DoneSoFar(r) /\ Symbol(r) = Assets[job[r].asset] /\ job[r].asset \in 1..Len(Assets)
  BY Parts, JobTyped, SymbolTyped DEF JobInv, Symbol
<1>2. ASSUME NEW i \in 1..Len(Assets)
      PROVE  IF i <= job[r].asset /\ Assets[i] \notin failed
             THEN quote'[Assets[i]] >= job[r].at.tick
             ELSE quote'[Assets[i]] = job[r].at.quote[Assets[i]]
  <2>1. i \in Nat
    BY Numbers
  <2>2. CASE i = job[r].asset
    BY <1>1, <2>2 DEF DoneSoFar
  <2>3. CASE i # job[r].asset
    <3>1. Assets[i] # Assets[job[r].asset]
      BY <1>1, <2>3, MarketDataAssumptions
    <3>2. Assets[i] \in failed <=> Assets[i] \in job[r].failed
      BY <1>1, <3>1
    <3>3. i <= job[r].asset <=> i < job[r].asset
      BY <1>1, <2>1, <2>3
    <3>4. QED BY <1>1, <3>2, <3>3 DEF DoneSoFar
  <2>4. QED BY <2>2, <2>3
<1>3. ASSUME NEW i \in job[r].asset + 1..Len(Assets)
      PROVE  Assets[i] \notin failed
  <2>1. i \in 1..Len(Assets) /\ i \in job[r].asset..Len(Assets) /\ i # job[r].asset
    BY <1>1, Numbers
  <2>2. Assets[i] # Assets[job[r].asset] /\ Assets[i] \notin job[r].failed
    BY <1>1, <2>1, MarketDataAssumptions DEF DoneSoFar
  <2>3. QED BY <1>1, <2>2
<1>4. QED BY <1>2, <1>3 DEF Told

LEMMA SaveTold ==
  ASSUME MInv, NEW r \in Requests, job[r].pc = "quoted",
         quote' = [quote EXCEPT ![Symbol(r)] = job[r].price]
  PROVE  Told(r, job[r].failed)
<1>1. /\ job[r].asset \in Nat /\ job[r].asset >= 1 /\ job[r].asset <= Len(Assets)
      /\ DoneSoFar(r) /\ PriceNewest(r) /\ Symbol(r) = Assets[job[r].asset]
      /\ job[r].asset \in 1..Len(Assets) /\ job[r].at.tick \in Nat /\ job[r].price \in Nat
  BY Parts, JobTyped, SymbolTyped DEF JobInv, Symbol, Runs, Asking
<1>2. /\ quote'[Symbol(r)] = job[r].price
      /\ \A a \in Symbols : a # Symbol(r) => quote'[a] = quote[a]
  BY Parts, SymbolTyped DEF Stored
<1>3. ASSUME NEW i \in 1..Len(Assets)
      PROVE  IF i <= job[r].asset /\ Assets[i] \notin job[r].failed
             THEN quote'[Assets[i]] >= job[r].at.tick
             ELSE quote'[Assets[i]] = job[r].at.quote[Assets[i]]
  <2>1. i \in Nat
    BY Numbers
  <2>2. CASE i = job[r].asset
    <3>1. Assets[i] \notin job[r].failed
      BY <1>1, <2>2 DEF DoneSoFar
    <3>2. quote'[Assets[i]] >= job[r].at.tick
      BY <1>1, <1>2, <2>2 DEF PriceNewest
    <3>3. QED BY <1>1, <2>2, <3>1, <3>2
  <2>3. CASE i # job[r].asset
    <3>1. Assets[i] # Assets[job[r].asset] /\ Assets[i] \in Symbols
      BY <1>1, <2>3, MarketDataAssumptions DEF Symbols
    <3>2. quote'[Assets[i]] = quote[Assets[i]]
      BY <1>1, <1>2, <3>1
    <3>3. i <= job[r].asset <=> i < job[r].asset
      BY <1>1, <2>1, <2>3
    <3>4. QED BY <1>1, <3>2, <3>3 DEF DoneSoFar
  <2>4. QED BY <2>2, <2>3
<1>4. ASSUME NEW i \in job[r].asset + 1..Len(Assets)
      PROVE  Assets[i] \notin job[r].failed
  <2>1. i \in job[r].asset..Len(Assets)
    BY <1>1, Numbers
  <2>2. QED BY <1>1, <2>1 DEF DoneSoFar
<1>5. QED BY <1>3, <1>4 DEF Told

\* The loop keeps the invariant of its request.
LEMMA NextAssetInv ==
  ASSUME MInv, NEW r \in Requests, Runs(r), NEW failed \in SUBSET Symbols,
         NextAsset(r, failed), Told(r, failed), tick' = tick, today' = today
  PROVE  /\ Jobs' /\ Holder' /\ JobInv(r)'
         /\ \A q \in Requests : q # r => job'[q] = job[q]
<1>1. /\ Jobs' /\ Holder'
      /\ \A q \in Requests : q # r => job'[q] = job[q]
      /\ \/ /\ job[r].asset < Len(Assets) /\ job'[r].asset = job[r].asset + 1
            /\ job'[r].pc \in {"candles", "price"} /\ job'[r].at = job[r].at
            /\ job'[r].failed = failed
            /\ job'[r].answer = job[r].answer /\ job'[r].dayStart = job[r].dayStart
         \/ /\ job'[r].pc = "idle" /\ job'[r].dayStart = 0
  BY Parts, NextAssetStep
<1>2. /\ JobInv(r) /\ DoneSoFar(r) /\ job[r].answer = "none" /\ job[r].asset \in Nat
      /\ tick \in Nat /\ today \in Nat /\ job[r].at.tick <= tick
  BY Parts, JobTyped, Numbers, IdleTyped DEF JobInv, Clock, Runs, DoneSoFar
<1>3. CASE job'[r].pc = "idle"
  BY <1>1, <1>2, <1>3, IdleTyped DEF JobInv, Runs
<1>4. CASE job'[r].asset = job[r].asset + 1 /\ job'[r].pc \in {"candles", "price"}
           /\ job'[r].at = job[r].at /\ job'[r].answer = job[r].answer
           /\ job'[r].failed = failed /\ job'[r].dayStart = job[r].dayStart
  <2>1. \A i \in 1..Len(Assets) : i <= job[r].asset <=> i < job'[r].asset
    BY <1>2, <1>4, Numbers
  <2>2. DoneSoFar(r)'
    BY <1>2, <1>4, <2>1 DEF DoneSoFar, Told
  <2>3. job'[r].answer = "none"
    BY <1>2, <1>4
  <2>4. job'[r].dayStart <= today'
    BY <1>2, <1>4 DEF JobInv
  <2>5. job'[r].pc \notin {"rows", "quoted", "idle", "waiting"}
    BY <1>4
  <2>6. QED BY <1>1, <2>2, <2>3, <2>4, <2>5 DEF JobInv
<1>5. QED BY <1>1, <1>3, <1>4

LEMMA FailInv ==
  ASSUME MInv, NEW r \in Requests, Fail(r)
  PROVE  MInv' /\ Told(r, job[r].failed \cup {Symbol(r)})
<1>1. /\ job[r].pc \in Asking /\ NextAsset(r, job[r].failed \cup {Symbol(r)})
      /\ UNCHANGED <<exchange, tables>>
  BY DEF Fail
<1>2. job[r].failed \cup {Symbol(r)} \in SUBSET Symbols
  <2>1. job[r].failed \in SUBSET Symbols
    BY Parts, JobTyped DEF Job
  <2>2. QED BY <2>1, Parts, SymbolTyped
<1>3. Runs(r) /\ quote' = quote /\ tick' = tick /\ today' = today
  BY <1>1 DEF Runs, exchange, tables
<1>4. Told(r, job[r].failed \cup {Symbol(r)})
  BY <1>3, FailTold
<1>5. /\ Jobs' /\ Holder' /\ JobInv(r)' /\ \A q \in Requests : q # r => job'[q] = job[q]
  BY <1>1, <1>2, <1>3, <1>4, NextAssetInv
<1>6. QED BY <1>1, <1>4, <1>5, RequestStep

-----------------------------------------------------------------------------
(***************************************************************************)
(* The transactions.                                                       *)
(***************************************************************************)
\* The stored days are closed ones with their final close, and one reply brings
\* every day with a trade from the window before the request.
LEMMA SaveDailyCandlesInv ==
  ASSUME MInv, NEW r \in Requests, SaveDailyCandles(r)
  PROVE  MInv'
<1> DEFINE rows   == job[r].rows
           start  == job[r].dayStart
           days   == Completed(rows, start)
           a      == Symbol(r)
           stored == candles[a]
           merged == [d \in DOMAIN stored \cup days |-> IF d \in days THEN rows[d] ELSE stored[d]]
           next   == [job[r] EXCEPT !.pc = "price", !.rows = <<>>]
<1>1. /\ job[r].pc = "rows" /\ days # {} /\ candles' = [candles EXCEPT ![a] = merged]
      /\ job' = [job EXCEPT ![r] = next] /\ UNCHANGED <<exchange, quote, history, limit, mutex>>
  BY DEF SaveDailyCandles, At
<1>2. /\ today \in Nat /\ start \in Nat /\ start <= today /\ DailyCandleLimit \in Nat \ {0}
      /\ RowsFinal(r) /\ rows \in Series /\ a \in Symbols /\ stored \in Series
      /\ candles \in [Symbols -> Series]
  BY <1>1, Parts, Numbers, JobTyped, SymbolTyped DEF Clock, JobInv, Stored, Job
<1>3. days = {d \in DOMAIN rows : start - DailyCandleLimit <= d /\ d < start /\ d < today}
  BY DEF Completed, WindowStart
<1>4. /\ \A d \in days : d \in Nat /\ d >= 1 /\ d <= MaxDay /\ d < start /\ d < today
                         /\ d \in DOMAIN bucket /\ rows[d] = bucket[d] /\ rows[d] \in 1..MaxTick
      /\ \A d \in DOMAIN bucket : start - DailyCandleLimit <= d /\ d < start => d \in days
  <2>1. \A d \in DOMAIN rows : d \in Nat /\ d >= 1 /\ d <= MaxDay /\ rows[d] \in 1..MaxTick
    BY <1>2, SeriesDays
  <2>2. \A d \in DOMAIN rows : d < start => d \in DOMAIN bucket /\ rows[d] = bucket[d]
    BY <1>2 DEF RowsFinal
  <2>3. \A d \in DOMAIN bucket : start - DailyCandleLimit <= d /\ d < start => d \in DOMAIN rows
    BY <1>2 DEF RowsFinal, WindowStart
  <2>4. \A d \in DOMAIN bucket : d < start => d < today
    <3>1. \A d \in DOMAIN bucket : d \in Nat
      BY Parts, SeriesDays DEF Clock
    <3>2. QED BY <1>2, <3>1
  <2>5. QED BY <1>3, <2>1, <2>2, <2>3, <2>4
<1>5. \A d \in DOMAIN stored : d \in Nat /\ d >= 1 /\ d <= MaxDay /\ stored[d] \in 1..MaxTick
  BY <1>2, SeriesDays
<1> HIDE DEF days, rows, stored, a, next
<1>6. /\ DOMAIN merged = DOMAIN stored \cup days
      /\ \A d \in DOMAIN merged : merged[d] = IF d \in days THEN rows[d] ELSE stored[d]
  OBVIOUS
<1>7. merged \in Series
  <2>1. DOMAIN merged \in SUBSET (1..MaxDay)
    BY <1>4, <1>5, <1>6, Numbers
  <2>2. \A d \in DOMAIN merged : merged[d] \in 1..MaxTick
    BY <1>4, <1>5, <1>6
  <2>3. merged \in [DOMAIN merged -> 1..MaxTick]
    BY <2>2
  <2>4. QED BY <2>1, <2>3 DEF Series
<1> HIDE DEF merged
<1>8. /\ candles' \in [Symbols -> Series] /\ candles'[a] = merged
      /\ \A b \in Symbols : b # a => candles'[b] = candles[b]
  BY <1>1, <1>2, <1>7
<1>9. /\ tick' = tick /\ today' = today /\ bucket' = bucket /\ quote' = quote
      /\ history' = history /\ limit' = limit /\ mutex' = mutex
  BY <1>1 DEF exchange
<1>10. CandlesFinal'
  <2>1. \A d \in DOMAIN stored : d < today /\ d \in DOMAIN bucket /\ stored[d] = bucket[d]
    BY <1>2, Parts DEF CandlesFinal, stored
  <2>2. \A d \in DOMAIN merged : d < today /\ d \in DOMAIN bucket /\ merged[d] = bucket[d]
    BY <1>4, <1>6, <2>1
  <2>3. QED BY <1>8, <1>9, <2>2, Parts DEF CandlesFinal
<1>11. RecentHistoryComplete'
  <2> SUFFICES \E day \in 1..today :
                 /\ \A d \in DOMAIN merged : d < day
                 /\ \A d \in DOMAIN bucket :
                      day - DailyCandleLimit <= d /\ d < day => d \in DOMAIN merged
    BY <1>8, <1>9, Parts DEF RecentHistoryComplete
  <2>1. start \in 1..today
    BY <1>1, <1>2, <1>4
  <2>2. CASE \A d \in DOMAIN stored : d < start
    <3>1. \A d \in DOMAIN merged : d < start
      BY <1>4, <1>6, <2>2
    <3>2. \A d \in DOMAIN bucket :
            start - DailyCandleLimit <= d /\ d < start => d \in DOMAIN merged
      BY <1>4, <1>6
    <3>3. QED BY <2>1, <3>1, <3>2
  <2>3. CASE ~(\A d \in DOMAIN stored : d < start)
    <3>1. PICK late \in DOMAIN stored : ~(late < start)
      BY <2>3
    <3>2. stored # <<>>
      BY <3>1
    <3>3. PICK day \in 1..today :
            /\ \A d \in DOMAIN stored : d < day
            /\ \A d \in DOMAIN bucket :
                 day - DailyCandleLimit <= d /\ d < day => d \in DOMAIN stored
      BY <1>2, <3>2, Parts DEF RecentHistoryComplete, stored
    <3>4. start < day
      BY <1>2, <1>5, <3>1, <3>3
    <3>5. \A d \in DOMAIN merged : d < day
      BY <1>2, <1>4, <1>6, <3>3, <3>4
    <3>6. QED BY <1>6, <3>3, <3>5
  <2>4. QED BY <2>2, <2>3
<1>12. /\ Clock' /\ Stored' /\ HistoryKeepsNewest' /\ QuotesTraded'
  BY <1>8, <1>9, Parts DEF Clock, Stored, HistoryKeepsNewest, QuotesTraded
<1>13. /\ next \in Job /\ next.pc = "price" /\ next.dayStart = job[r].dayStart
       /\ next.asset = job[r].asset /\ next.failed = job[r].failed /\ next.at = job[r].at
       /\ next.answer = job[r].answer
  <2>1. job[r] \in Job /\ "price" \in {"idle", "waiting"} \cup Asking
    BY Parts, JobTyped DEF Asking
  <2>2. QED BY <2>1, EmptySeries DEF Job, next
<1>14. Jobs' /\ job'[r] = next /\ \A q \in Requests : q # r => job'[q] = job[q]
  BY <1>1, <1>13, Parts, JobStep
<1>15. Holder' /\ Runs(r)
  BY <1>1, <1>9, <1>13, <1>14, Parts DEF Holder, Runs, Asking
<1>16. JobInv(r)'
  <2>1. DoneSoFar(r) /\ job[r].answer = "none" /\ job[r].dayStart <= today
    BY <1>1, <1>15, Parts DEF JobInv
  <2>2. DoneSoFar(r)'
    BY <1>9, <1>13, <1>14, <2>1 DEF DoneSoFar
  <2>3. QED BY <1>9, <1>13, <1>14, <2>1, <2>2 DEF JobInv
<1>17. ASSUME NEW q \in Requests, q # r
       PROVE  JobInv(q)'
  <2>1. tick' >= tick /\ today' >= today
    BY <1>9, Parts, Numbers DEF Clock
  <2>2. QED BY <1>9, <1>12, <1>14, <1>17, <2>1, Parts, JobKept, SamePast
<1>18. QED BY <1>10, <1>11, <1>12, <1>14, <1>15, <1>16, <1>17, Whole

LEMMA NewestPoints ==
  ASSUME NEW S, NEW points \in Seq(S), NEW n \in Nat \ {0}
  PROVE  /\ Newest(points, n) \in Seq(S) /\ Len(Newest(points, n)) <= n
         /\ Len(points) > 0 =>
              /\ Len(Newest(points, n)) > 0
              /\ Newest(points, n)[Len(Newest(points, n))] = points[Len(points)]
<1> DEFINE first == IF Len(points) < n THEN 1 ELSE Len(points) - n + 1
<1>1. /\ Len(points) \in Nat /\ first \in Int /\ first >= 1
      /\ Len(points) - first + 1 <= n /\ (Len(points) > 0 => first <= Len(points))
      /\ Newest(points, n) = SubSeq(points, first, Len(points))
  BY DEF Newest
<1> HIDE DEF first
<1>2. \A i \in first..Len(points) : points[i] \in S
  BY <1>1
<1>3. /\ Newest(points, n) \in Seq(S)
      /\ Len(Newest(points, n)) = IF first <= Len(points) THEN Len(points) - first + 1 ELSE 0
      /\ \A i \in 1..Len(points) - first + 1 : Newest(points, n)[i] = points[first + i - 1]
  BY <1>1, <1>2, SubSeqProperties
<1>4. QED BY <1>1, <1>3

\* The newest point, and no more points than the limit.
LEMMA SaveCurrentPriceInv ==
  ASSUME MInv, NEW r \in Requests, SaveCurrentPrice(r)
  PROVE  MInv' /\ Told(r, job[r].failed)
<1> DEFINE a == Symbol(r)
           price == job[r].price
<1>1. /\ job[r].pc = "quoted" /\ quote' = [quote EXCEPT ![a] = price]
      /\ history' = [history EXCEPT ![a] = Newest(Append(history[a], price), limit[a])]
      /\ NextAsset(r, job[r].failed) /\ UNCHANGED <<exchange, candles, limit>>
  BY DEF SaveCurrentPrice, At
<1>2. /\ a \in Symbols /\ price \in 1..MaxTick /\ price \in Nat /\ price <= tick /\ Runs(r)
      /\ quote \in [Symbols -> 0..MaxTick]
  <2>1. PriceNewest(r) /\ Runs(r)
    BY <1>1, Parts DEF JobInv, Runs, Asking
  <2>2. quote[Symbol(r)] \in 0..MaxTick /\ price \in Nat /\ tick \in 1..MaxTick
    BY Parts, JobTyped, SymbolTyped DEF Stored, Clock
  <2>3. QED BY <2>1, <2>2, Parts, SymbolTyped, Numbers DEF PriceNewest, Stored
<1> HIDE DEF a, price
<1>3. /\ quote' \in [Symbols -> 0..MaxTick] /\ quote'[a] = price
      /\ \A b \in Symbols : b # a => quote'[b] = quote[b]
  BY <1>1, <1>2, Numbers
<1> DEFINE points == Append(history[a], price)
           kept   == Newest(points, limit[a])
<1>4. /\ points \in Seq(1..MaxTick) /\ Len(points) > 0 /\ points[Len(points)] = price
  <2>1. history[a] \in Seq(1..MaxTick)
    BY <1>2, Parts DEF Stored
  <2>2. Len(history[a]) \in Nat
    BY <2>1
  <2>3. QED BY <1>2, <2>1, <2>2, AppendProperties
<1> HIDE DEF points
<1>5. limit[a] \in Nat \ {0}
  BY <1>2, Parts, Numbers DEF Stored
<1>6. /\ kept \in Seq(1..MaxTick) /\ Len(kept) <= limit[a] /\ Len(kept) > 0
      /\ kept[Len(kept)] = price
  BY <1>4, <1>5, NewestPoints
<1> HIDE DEF kept
<1>7. /\ history' = [history EXCEPT ![a] = kept]
      /\ tick' = tick /\ today' = today /\ bucket' = bucket /\ candles' = candles /\ limit' = limit
  BY <1>1 DEF kept, points, exchange
<1>8. /\ history' \in [Symbols -> Seq(1..MaxTick)] /\ history'[a] = kept
      /\ \A b \in Symbols : b # a => history'[b] = history[b]
  BY <1>2, <1>6, <1>7, Parts DEF Stored
<1>9. HistoryKeepsNewest'
  BY <1>3, <1>6, <1>7, <1>8, Parts DEF HistoryKeepsNewest
<1>10. QuotesTraded'
  BY <1>2, <1>3, <1>7, Parts DEF QuotesTraded
<1>11. /\ Clock' /\ Stored' /\ CandlesFinal' /\ RecentHistoryComplete'
  BY <1>3, <1>7, <1>8, Parts DEF Clock, Stored, CandlesFinal, RecentHistoryComplete
<1>12. job[r].failed \in SUBSET Symbols
  BY Parts, JobTyped DEF Job
<1>13. Told(r, job[r].failed)
  BY <1>1, SaveTold DEF a, price
<1>14. /\ Jobs' /\ Holder' /\ JobInv(r)' /\ \A q \in Requests : q # r => job'[q] = job[q]
  BY <1>1, <1>2, <1>7, <1>12, <1>13, NextAssetInv
<1>15. ASSUME NEW q \in Requests, q # r
       PROVE  JobInv(q)'
  <2>1. ~Runs(q)
    BY <1>2, <1>15, Parts, OneRuns
  <2>2. tick' >= tick /\ today' >= today
    BY <1>7, Parts, Numbers DEF Clock
  <2>3. job'[q] = job[q]
    BY <1>14, <1>15
  <2>4. QED BY <1>7, <1>11, <2>1, <2>2, <2>3, Parts, JobKept, SamePast
<1>16. \A q \in Requests : JobInv(q)'
  BY <1>14, <1>15
<1>17. MInv'
  BY <1>9, <1>10, <1>11, <1>14, <1>16, Whole
<1>18. QED BY <1>13, <1>17

LEMMA SaveLimitInv ==
  ASSUME MInv, NEW a \in Symbols, NEW n \in RecordLimits, SavePriceHistoryRecordLimit(a, n)
  PROVE  MInv'
<1> DEFINE kept == Newest(history[a], n)
<1>1. /\ limit' = [limit EXCEPT ![a] = n] /\ history' = [history EXCEPT ![a] = kept]
      /\ UNCHANGED <<exchange, candles, quote, mutex, job>>
  BY DEF SavePriceHistoryRecordLimit
<1>2. history[a] \in Seq(1..MaxTick) /\ n \in Nat \ {0} /\ Len(history[a]) \in Nat
  BY Parts, Numbers DEF Stored
<1>3. /\ kept \in Seq(1..MaxTick) /\ Len(kept) <= n
      /\ Len(history[a]) > 0 => Len(kept) > 0 /\ kept[Len(kept)] = history[a][Len(history[a])]
  BY <1>2, NewestPoints
<1> HIDE DEF kept
<1>4. /\ history' \in [Symbols -> Seq(1..MaxTick)] /\ history'[a] = kept
      /\ \A b \in Symbols : b # a => history'[b] = history[b]
  BY <1>1, <1>3, Parts DEF Stored
<1>5. /\ limit' \in [Symbols -> RecordLimits \cup {DefaultLimit}] /\ limit'[a] = n
      /\ \A b \in Symbols : b # a => limit'[b] = limit[b]
  BY <1>1, Parts DEF Stored
<1>6. /\ tick' = tick /\ today' = today /\ bucket' = bucket /\ candles' = candles
      /\ quote' = quote /\ mutex' = mutex /\ job' = job
  BY <1>1 DEF exchange
<1>7. HistoryKeepsNewest'
  BY <1>3, <1>4, <1>5, <1>6, Parts DEF HistoryKeepsNewest
<1>8. /\ Clock' /\ Stored' /\ CandlesFinal' /\ RecentHistoryComplete' /\ QuotesTraded'
      /\ Jobs' /\ Holder'
  BY <1>4, <1>5, <1>6, Parts DEF Clock, Stored, CandlesFinal, RecentHistoryComplete, QuotesTraded,
     Jobs, Holder
<1>9. \A r \in Requests : JobInv(r)'
  <2>1. tick' >= tick /\ today' >= today
    BY <1>6, Parts, Numbers DEF Clock
  <2>2. QED BY <1>6, <1>8, <2>1, Parts, JobKept, SamePast
<1>10. QED BY <1>7, <1>8, <1>9, Whole

-----------------------------------------------------------------------------
LEMMA Steps ==
  ASSUME Next
  PROVE  \/ Trade \/ Midnight \/ Restart
         \/ \E a \in Symbols, n \in RecordLimits : SavePriceHistoryRecordLimit(a, n)
         \/ \E r \in Requests : \/ Begin(r) \/ Acquire(r) \/ AskCandles(r) \/ CandlesReply(r)
                                \/ SaveDailyCandles(r) \/ PriceReply(r)
         \/ \E r \in Requests : Fail(r)
         \/ \E r \in Requests : SaveCurrentPrice(r)
BY DEF Next, Running

LEMMA NextMarket ==
  ASSUME MInv, [Next]_vars
  PROVE  MInv'
<1>1. CASE Next
  BY <1>1, Steps, TradeInv, MidnightInv, RestartInv, SaveLimitInv, BeginInv, AcquireInv,
     AskCandlesInv, CandlesReplyInv, SaveDailyCandlesInv, PriceReplyInv, FailInv, SaveCurrentPriceInv
<1>2. CASE UNCHANGED vars
  <2>1. /\ UNCHANGED <<exchange, tables>> /\ mutex' = mutex /\ job' = job
        /\ tick' = tick /\ today' = today /\ bucket' = bucket /\ quote' = quote
    BY <1>2 DEF vars, exchange, tables
  <2>2. /\ Clock' /\ Stored' /\ CandlesFinal' /\ RecentHistoryComplete'
        /\ HistoryKeepsNewest' /\ QuotesTraded' /\ Jobs' /\ Holder'
    BY <2>1, WorldKept, Parts DEF Jobs, Holder
  <2>3. tick' >= tick /\ today' >= today
    BY <2>1, Parts, Numbers DEF Clock
  <2>4. \A r \in Requests : JobInv(r)'
    BY <2>1, <2>2, <2>3, Parts, JobKept, SamePast
  <2>5. QED BY <2>2, <2>4, Whole
<1>3. QED BY <1>1, <1>2

\* What the theorems below are read off: the mutex admits one request, so the
\* price it holds, the closes it holds and what it has done of its assets stay
\* true until it saves or answers.
THEOREM MarketInvariance == Spec => []MInv
BY InitMarket, NextMarket, PTL DEF Spec

\* The types, and that the mutex is held by exactly the request that runs.
THEOREM MarketTypeCorrect == Spec => []TypeOK
<1>1. MInv => TypeOK
  BY DEF MInv
<1>2. QED BY MarketInvariance, <1>1, PTL

\* Only closed days are stored, with their final close, whatever midnight does
\* to a request under way.
THEOREM OnlyFinalCandles == Spec => []CandlesFinal
<1>1. MInv => CandlesFinal
  BY DEF MInv
<1>2. QED BY MarketInvariance, <1>1, PTL

\* Late and failed refreshes leave no hole of their own in the newest days:
\* what is missing there is a day without a trade.
THEOREM NoRecentGap == Spec => []RecentHistoryComplete
<1>1. MInv => RecentHistoryComplete
  BY DEF MInv
<1>2. QED BY MarketInvariance, <1>1, PTL

\* The price history keeps to its limit and ends with the price on display.
THEOREM HistoryBounded == Spec => []HistoryKeepsNewest
<1>1. MInv => HistoryKeepsNewest
  BY DEF MInv
<1>2. QED BY MarketInvariance, <1>1, PTL

\* The price on display never goes back, although requests overlap.
THEOREM QuoteGrows == Spec => QuoteNeverGoesBack
<1> DEFINE Grows == \A a \in Symbols : quote'[a] >= quote[a]
<1>1. ASSUME MInv, [Next]_vars
      PROVE  Grows
  <2>1. quote \in [Symbols -> 0..MaxTick] /\ \A a \in Symbols : quote[a] \in Nat
    BY <1>1, Parts, Numbers DEF Stored
  <2>2. CASE quote' = quote
    BY <2>1, <2>2
  <2>3. ASSUME NEW r \in Requests, SaveCurrentPrice(r)
        PROVE  Grows
    <3>1. quote' = [quote EXCEPT ![Symbol(r)] = job[r].price] /\ job[r].pc = "quoted"
      BY <2>3 DEF SaveCurrentPrice, At
    <3>2. quote[Symbol(r)] <= job[r].price /\ job[r].price \in Nat /\ Symbol(r) \in Symbols
      BY <1>1, <3>1, Parts, JobTyped, SymbolTyped DEF JobInv, PriceNewest
    <3>3. QED BY <2>1, <3>1, <3>2
  <2>4. CASE UNCHANGED vars
    BY <2>2, <2>4 DEF vars
  <2>5. CASE Next
    <3>1. quote' = quote \/ \E r \in Requests : SaveCurrentPrice(r)
      BY <2>5, Steps DEF Trade, Midnight, Restart, SavePriceHistoryRecordLimit, Begin, Acquire,
         AskCandles, CandlesReply, SaveDailyCandles, PriceReply, Fail, exchange, tables
    <3>2. QED BY <2>2, <2>3, <3>1
  <2>6. QED BY <1>1, <2>4, <2>5
<1>2. QED BY MarketInvariance, <1>1, PTL DEF Spec, QuoteNeverGoesBack

-----------------------------------------------------------------------------
(***************************************************************************)
(* What an answer says.  Beside the prices, which MInv follows, a full     *)
(* request has brought the closed days of the assets it is through with.   *)
(***************************************************************************)
\* Asset i is one that r has brought the candles of.
Brought(r, i) ==
  /\ Assets[i] \notin job[r].failed
  /\ i < job[r].asset \/ (i = job[r].asset /\ job[r].pc \in {"price", "quoted"})

BackSoFar(r) ==
  /\ job[r].at.today <= today
  /\ job[r].pc \in {"sent", "rows"} => job[r].at.today <= job[r].dayStart
  /\ r \in FullRequests =>
       \A i \in 1..Len(Assets) : Brought(r, i) => Owed(r) \subseteq DOMAIN candles[Assets[i]]

OwedInv == \A r \in Requests : Runs(r) => BackSoFar(r)

LEMMA AtTyped ==
  ASSUME Jobs, NEW r \in Requests
  PROVE  job[r].at.today \in Nat
<1>1. job[r] \in Job
  BY DEF Jobs
<1> HIDE DEF Symbols, Series
<1>2. job[r].at.today \in 0..MaxDay
  BY <1>1 DEF Job
<1>3. QED BY <1>2, Numbers

\* Time goes forward, past buckets stay, and no stored day is taken away.
LEMMA StoreGrows ==
  ASSUME MInv, [Next]_vars
  PROVE  /\ today' >= today /\ PastKept
         /\ \A a \in Symbols : DOMAIN candles[a] \subseteq DOMAIN candles'[a]
<1>1. today \in Nat /\ candles \in [Symbols -> Series]
  BY Parts, Numbers DEF Clock, Stored
<1>2. CASE today' = today /\ bucket' = bucket /\ candles' = candles
  BY <1>1, <1>2, SamePast
<1>3. CASE Trade
  <2>1. /\ today' = today /\ candles' = candles
        /\ DOMAIN bucket' = DOMAIN bucket \cup {today}
        /\ \A d \in DOMAIN bucket' : bucket'[d] = IF d = today THEN tick + 1 ELSE bucket[d]
    BY <1>3 DEF Trade, tables
  <2>2. ~(today < today)
    BY <1>1
  <2>3. PastKept
    BY <2>1, <2>2 DEF PastKept
  <2>4. QED BY <1>1, <2>1, <2>3
<1>4. CASE Midnight
  <2>1. today' = today + 1 /\ bucket' = bucket /\ candles' = candles
    BY <1>4 DEF Midnight, tables
  <2>2. QED BY <1>1, <2>1, SamePast
<1>5. ASSUME NEW r \in Requests, SaveDailyCandles(r)
      PROVE  today' = today /\ bucket' = bucket
             /\ \A a \in Symbols : DOMAIN candles[a] \subseteq DOMAIN candles'[a]
  <2> DEFINE days == Completed(job[r].rows, job[r].dayStart)
             stored == candles[Symbol(r)]
             merged == [d \in DOMAIN stored \cup days |->
                          IF d \in days THEN job[r].rows[d] ELSE stored[d]]
  <2>1. candles' = [candles EXCEPT ![Symbol(r)] = merged] /\ UNCHANGED exchange
    BY <1>5 DEF SaveDailyCandles
  <2>2. DOMAIN stored \subseteq DOMAIN merged
    OBVIOUS
  <2> HIDE DEF merged
  <2>3. ASSUME NEW a \in Symbols
        PROVE  DOMAIN candles[a] \subseteq DOMAIN candles'[a]
    <3>1. CASE a = Symbol(r)
      BY <1>1, <2>1, <2>2, <3>1
    <3>2. CASE a # Symbol(r)
      BY <1>1, <2>1, <3>2
    <3>3. QED BY <3>1, <3>2
  <2>4. QED BY <2>1, <2>3 DEF exchange
<1>6. CASE Next
  <2>1. \/ Trade \/ Midnight
        \/ \E r \in Requests : SaveDailyCandles(r)
        \/ today' = today /\ bucket' = bucket /\ candles' = candles
    BY <1>6, Steps DEF Restart, SavePriceHistoryRecordLimit, Begin, Acquire, AskCandles,
       CandlesReply, PriceReply, Fail, SaveCurrentPrice, exchange, tables
  <2>2. ASSUME NEW r \in Requests, SaveDailyCandles(r)
        PROVE  /\ today' >= today /\ PastKept
               /\ \A a \in Symbols : DOMAIN candles[a] \subseteq DOMAIN candles'[a]
    BY <1>1, <1>5, <2>2, SamePast
  <2>3. QED BY <1>2, <1>3, <1>4, <2>1, <2>2
<1>7. CASE UNCHANGED vars
  BY <1>2, <1>7 DEF vars
<1>8. QED BY <1>6, <1>7

\* The days a request owes become fewer as days pass.
LEMMA OwedShrinks ==
  ASSUME MInv, MInv', NEW r \in Requests, job'[r].at = job[r].at, job[r].at.today <= today,
         today' >= today, PastKept
  PROVE  Owed(r)' \subseteq Owed(r)
<1>1. /\ today \in Nat /\ today' \in Nat /\ job[r].at.today \in Nat /\ DailyCandleLimit \in Nat
      /\ \A d \in DOMAIN bucket' : d \in Nat
  <2>1. Clock /\ Clock' /\ Jobs
    BY Parts DEF MInv, TypeOK, Clock
  <2>2. today \in Nat /\ today' \in Nat
    BY <2>1, Numbers DEF Clock
  <2>3. bucket' \in Series
    BY <2>1 DEF Clock
  <2>4. QED BY <2>1, <2>2, <2>3, SeriesDays, AtTyped, Numbers
<1>2. ASSUME NEW d \in DOMAIN bucket', today' - DailyCandleLimit <= d, d < job[r].at.today
      PROVE  d \in DOMAIN bucket /\ today - DailyCandleLimit <= d
  <2>1. d \in Nat /\ d < today
    BY <1>1, <1>2
  <2>2. QED BY <1>1, <1>2, <2>1 DEF PastKept
<1>3. QED BY <1>2 DEF Owed

\* A step after which r has brought nothing but what it had, or what it brings.
LEMMA BackMoves ==
  ASSUME MInv, MInv', [Next]_vars, NEW r \in Requests, BackSoFar(r), job'[r].at = job[r].at,
         job'[r].pc \in {"sent", "rows"} => job[r].at.today <= job'[r].dayStart,
         r \in FullRequests =>
           \A i \in 1..Len(Assets) :
             Brought(r, i)' => Brought(r, i) \/ Owed(r) \subseteq DOMAIN candles'[Assets[i]]
  PROVE  BackSoFar(r)'
<1>1. /\ today' >= today /\ PastKept /\ job[r].at.today <= today
      /\ \A a \in Symbols : DOMAIN candles[a] \subseteq DOMAIN candles'[a]
  BY StoreGrows DEF BackSoFar
<1>2. job'[r].at.today <= today'
  <2>1. today \in Nat /\ today' \in Nat /\ job[r].at.today \in Nat
    BY Parts, AtTyped, Numbers DEF Clock, MInv, TypeOK
  <2>2. QED BY <1>1, <2>1
<1>3. Owed(r)' \subseteq Owed(r)
  BY <1>1, OwedShrinks
<1>4. ASSUME r \in FullRequests, NEW i \in 1..Len(Assets), Brought(r, i)'
      PROVE  Owed(r)' \subseteq DOMAIN candles'[Assets[i]]
  <2>1. Assets[i] \in Symbols
    BY DEF Symbols
  <2>2. Owed(r) \subseteq DOMAIN candles'[Assets[i]]
    BY <1>1, <1>4, <2>1 DEF BackSoFar
  <2>3. QED BY <1>3, <2>2
<1>5. QED BY <1>2, <1>4 DEF BackSoFar

\* What r has brought when it is through with its asset.
BroughtSoFar(r, failed) ==
  r \in FullRequests =>
    \A i \in 1..Len(Assets) :
      i <= job[r].asset /\ Assets[i] \notin failed => Owed(r) \subseteq DOMAIN candles'[Assets[i]]

LEMMA EndsBrought ==
  ASSUME MInv, [Next]_vars, NEW r \in Requests, BackSoFar(r), NEW failed,
         \/ failed = job[r].failed \cup {Symbol(r)}
         \/ failed = job[r].failed /\ job[r].pc = "quoted"
  PROVE  BroughtSoFar(r, failed)
<1> SUFFICES ASSUME r \in FullRequests, NEW i \in 1..Len(Assets), i <= job[r].asset,
                    Assets[i] \notin failed
             PROVE  Owed(r) \subseteq DOMAIN candles'[Assets[i]]
  BY DEF BroughtSoFar
<1>1. job[r].asset \in Nat /\ i \in Nat /\ Symbol(r) = Assets[job[r].asset]
  BY Parts, JobTyped, Numbers DEF Symbol
<1>2. Brought(r, i)
  <2>1. Assets[i] \notin job[r].failed /\ (i = job[r].asset => job[r].pc = "quoted")
    BY <1>1
  <2>2. QED BY <1>1, <2>1 DEF Brought
<1>3. Assets[i] \in Symbols
  BY DEF Symbols
<1>4. QED BY <1>2, <1>3, StoreGrows DEF BackSoFar

\* The loop keeps it.
LEMMA NextAssetBack ==
  ASSUME MInv, MInv', [Next]_vars, NEW r \in Requests, Runs(r), BackSoFar(r),
         NEW failed \in SUBSET Symbols, NextAsset(r, failed), BroughtSoFar(r, failed), Runs(r)'
  PROVE  BackSoFar(r)'
<1>1. /\ job'[r].asset = job[r].asset + 1 /\ job'[r].at = job[r].at
      /\ job'[r].pc = FirstStep(r) /\ job'[r].failed = failed
  BY Parts, NextAssetStep, IdleTyped DEF Runs
<1>2. job[r].asset \in Nat /\ \A i \in 1..Len(Assets) : i \in Nat
  BY Parts, JobTyped, Numbers
<1>3. ASSUME r \in FullRequests, NEW i \in 1..Len(Assets), Brought(r, i)'
      PROVE  Owed(r) \subseteq DOMAIN candles'[Assets[i]]
  <2>1. job'[r].pc = "candles"
    BY <1>1, <1>3 DEF FirstStep
  <2>2. i < job[r].asset + 1 /\ Assets[i] \notin failed
    BY <1>1, <1>3, <2>1 DEF Brought
  <2>3. i <= job[r].asset
    BY <1>2, <2>2
  <2>4. QED BY <1>3, <2>2, <2>3 DEF BroughtSoFar
<1>4. job'[r].pc \notin {"sent", "rows"}
  BY <1>1 DEF FirstStep
<1>5. QED BY <1>1, <1>3, <1>4, BackMoves

\* The window of a reply reaches back as far as the request owes.
LEMMA RowsOwed ==
  ASSUME MInv, NEW r \in Requests, BackSoFar(r), SaveDailyCandles(r)
  PROVE  Owed(r) \subseteq DOMAIN candles'[Symbol(r)]
<1> DEFINE rows  == job[r].rows
           start == job[r].dayStart
           days  == Completed(rows, start)
           stored == candles[Symbol(r)]
           merged == [d \in DOMAIN stored \cup days |-> IF d \in days THEN rows[d] ELSE stored[d]]
<1>1. job[r].pc = "rows" /\ candles' = [candles EXCEPT ![Symbol(r)] = merged]
  BY DEF SaveDailyCandles, At
<1>2. /\ today \in Nat /\ start \in Nat /\ start <= today /\ DailyCandleLimit \in Nat
      /\ job[r].at.today \in Nat /\ job[r].at.today <= start
      /\ RowsFinal(r) /\ \A d \in DOMAIN bucket : d \in Nat
  BY <1>1, Parts, JobTyped, AtTyped, SeriesDays, Numbers DEF JobInv, BackSoFar, Clock
<1>3. ASSUME NEW d \in Owed(r)
      PROVE  d \in days
  <2>1. d \in DOMAIN bucket /\ today - DailyCandleLimit <= d /\ d < job[r].at.today
    BY DEF Owed
  <2>2. d < start /\ d < today /\ WindowStart(start) <= d
    BY <1>2, <2>1 DEF WindowStart
  <2>3. d \in DOMAIN rows
    BY <1>2, <2>1, <2>2 DEF RowsFinal
  <2>4. QED BY <2>2, <2>3 DEF Completed
<1>4. days \subseteq DOMAIN merged
  OBVIOUS
<1> HIDE DEF days, merged
<1>5. candles'[Symbol(r)] = merged
  <2>1. candles \in [Symbols -> Series] /\ Symbol(r) \in Symbols
    BY Parts, SymbolTyped DEF Stored
  <2>2. QED BY <1>1, <2>1
<1>6. QED BY <1>3, <1>4, <1>5

\* A step of a request within an asset.
LEMMA WithinAssetBack ==
  ASSUME MInv, MInv', [Next]_vars, NEW r \in Requests, Runs(r), BackSoFar(r),
         AskCandles(r) \/ CandlesReply(r) \/ SaveDailyCandles(r) \/ PriceReply(r)
  PROVE  BackSoFar(r)'
<1>1. job[r] \in Job /\ job \in [Requests -> Job]
  BY Parts DEF Jobs
<1>2. /\ job'[r].asset = job[r].asset /\ job'[r].failed = job[r].failed /\ job'[r].at = job[r].at
      /\ \/ job'[r].pc = "sent" /\ job'[r].dayStart = today
         \/ job[r].pc = "sent" /\ job'[r].pc = "rows" /\ job'[r].dayStart = job[r].dayStart
         \/ SaveDailyCandles(r) /\ job'[r].pc = "price"
         \/ job[r].pc = "price" /\ job'[r].pc = "quoted"
  <2>1. CASE AskCandles(r)
    BY <1>1, <2>1 DEF AskCandles, At, Job
  <2>2. CASE CandlesReply(r)
    BY <1>1, <2>2 DEF CandlesReply, At, Job
  <2>3. CASE SaveDailyCandles(r)
    BY <1>1, <2>3 DEF SaveDailyCandles, At, Job
  <2>4. CASE PriceReply(r)
    BY <1>1, <2>4 DEF PriceReply, At, Job
  <2>5. QED BY <2>1, <2>2, <2>3, <2>4
<1>3. job'[r].pc \in {"sent", "rows"} => job[r].at.today <= job'[r].dayStart
  BY <1>2 DEF BackSoFar
<1>4. ASSUME NEW i \in 1..Len(Assets), Brought(r, i)'
      PROVE  Brought(r, i) \/ Owed(r) \subseteq DOMAIN candles'[Assets[i]]
  <2>1. CASE SaveDailyCandles(r) /\ i = job[r].asset
    BY <2>1, RowsOwed DEF Symbol
  <2>2. CASE i # job[r].asset
    BY <1>2, <1>4, <2>2 DEF Brought
  <2>3. CASE i = job[r].asset /\ ~SaveDailyCandles(r)
    BY <1>2, <1>4, <2>3 DEF Brought
  <2>4. QED BY <2>1, <2>2, <2>3
<1>5. QED BY <1>2, <1>3, <1>4, BackMoves

LEMMA AcquireBack ==
  ASSUME MInv, NEW r \in Requests, Acquire(r)
  PROVE  BackSoFar(r)'
<1>1. job[r] \in Job /\ job \in [Requests -> Job] /\ today \in Nat
  BY Parts, Numbers DEF Jobs, Clock
<1>2. job[r].asset = 1
  BY Parts DEF Acquire, At, JobInv
<1>3. /\ job'[r].pc = FirstStep(r) /\ job'[r].at.today = today /\ job'[r].asset = 1
      /\ today' = today
  BY <1>1, <1>2 DEF Acquire, Job, exchange
<1>4. FirstStep(r) \notin {"sent", "rows"} /\ (r \in FullRequests => FirstStep(r) = "candles")
  BY DEF FirstStep
<1>5. r \in FullRequests => \A i \in 1..Len(Assets) : ~Brought(r, i)'
  BY <1>3, <1>4, Numbers DEF Brought
<1>6. QED BY <1>1, <1>3, <1>4, <1>5 DEF BackSoFar

\* The requests that do not move, and the one that does.
LEMMA NextOwed ==
  ASSUME MInv, OwedInv, [Next]_vars
  PROVE  OwedInv'
<1>1. MInv'
  BY NextMarket
<1> SUFFICES ASSUME NEW r \in Requests, Runs(r)'
             PROVE  BackSoFar(r)'
  BY DEF OwedInv
<1>2. CASE job'[r] = job[r]
  <2>1. Runs(r) /\ BackSoFar(r)
    BY <1>2 DEF Runs, OwedInv
  <2>2. job[r].pc \in {"sent", "rows"} => job[r].at.today <= job[r].dayStart
    BY <2>1 DEF BackSoFar
  <2>3. \A i \in 1..Len(Assets) : Brought(r, i)' => Brought(r, i)
    BY <1>2 DEF Brought
  <2>4. QED BY <1>1, <1>2, <2>1, <2>2, <2>3, BackMoves
<1>3. CASE Fail(r)
  <2>1. Runs(r) /\ BackSoFar(r) /\ NextAsset(r, job[r].failed \cup {Symbol(r)})
    BY <1>3 DEF Fail, Runs, OwedInv
  <2>2. job[r].failed \cup {Symbol(r)} \in SUBSET Symbols
    BY Parts, JobTyped, SymbolTyped DEF Job
  <2>3. QED BY <1>1, <2>1, <2>2, EndsBrought, NextAssetBack
<1>4. CASE SaveCurrentPrice(r)
  <2>1. Runs(r) /\ job[r].pc = "quoted" /\ NextAsset(r, job[r].failed)
    BY <1>4 DEF SaveCurrentPrice, At, Runs, Asking
  <2>2. BackSoFar(r) /\ job[r].failed \in SUBSET Symbols
    BY <2>1, Parts, JobTyped DEF Job, OwedInv
  <2>3. QED BY <1>1, <2>1, <2>2, EndsBrought, NextAssetBack
<1>5. CASE AskCandles(r) \/ CandlesReply(r) \/ SaveDailyCandles(r) \/ PriceReply(r)
  <2>1. Runs(r)
    BY <1>5 DEF AskCandles, CandlesReply, SaveDailyCandles, PriceReply, At, Runs, Asking
  <2>2. QED BY <1>1, <1>5, <2>1, WithinAssetBack DEF OwedInv
<1>6. CASE Acquire(r)
  BY <1>6, AcquireBack
<1>7. ~Restart /\ ~Begin(r)
  <2>1. job \in [Requests -> Job] /\ job'[r].pc \notin {"idle", "waiting"}
    BY Parts, IdleTyped DEF Jobs, Runs
  <2>2. ~Restart
    BY <2>1 DEF Restart, Idle
  <2>3. ~Begin(r)
    BY <2>1 DEF Begin, Idle
  <2>4. QED BY <2>2, <2>3
<1>8. ASSUME NEW q \in Requests, q # r,
             \/ Begin(q) \/ Acquire(q) \/ AskCandles(q) \/ CandlesReply(q)
             \/ SaveDailyCandles(q) \/ PriceReply(q) \/ Fail(q) \/ SaveCurrentPrice(q)
      PROVE  job'[r] = job[r]
  BY <1>8, Parts DEF Jobs, Begin, Acquire, AskCandles, CandlesReply, SaveDailyCandles, PriceReply,
     Fail, SaveCurrentPrice, NextAsset
<1>9. CASE UNCHANGED vars \/ Trade \/ Midnight
           \/ \E a \in Symbols, n \in RecordLimits : SavePriceHistoryRecordLimit(a, n)
  BY <1>2, <1>9 DEF vars, Trade, Midnight, SavePriceHistoryRecordLimit
<1>10. CASE Next
  BY <1>2, <1>3, <1>4, <1>5, <1>6, <1>7, <1>8, <1>9, <1>10, Steps
<1>11. QED BY <1>9, <1>10

\* A request in the middle of its work has not answered, and its steps that
\* end no asset do not answer.
LEMMA NoEarlyAnswer ==
  ASSUME MInv, NEW q \in Requests, NEW r \in Requests, Runs(r),
         \/ Begin(q) \/ Acquire(q) \/ AskCandles(q) \/ CandlesReply(q)
         \/ SaveDailyCandles(q) \/ PriceReply(q)
  PROVE  job'[r].answer = "none"
<1>1. job \in [Requests -> Job] /\ job[r].answer = "none"
  BY Parts, IdleTyped DEF Jobs, JobInv, Runs
<1>2. CASE r # q
  <2>1. job'[r] = job[r]
    BY <1>1, <1>2 DEF Begin, Acquire, AskCandles, CandlesReply, SaveDailyCandles, PriceReply
  <2>2. QED BY <1>1, <2>1
<1>3. CASE r = q
  <2>1. job[r] \in Job /\ ~Begin(r)
    BY <1>1, IdleTyped DEF Begin, At, Runs
  <2>2. job'[r].answer = job[r].answer
    <3>1. CASE Acquire(r)
      BY <1>1, <2>1, <3>1 DEF Acquire, Job
    <3>2. CASE AskCandles(r)
      BY <1>1, <2>1, <3>2 DEF AskCandles, Job
    <3>3. CASE CandlesReply(r)
      BY <1>1, <2>1, <3>3 DEF CandlesReply, Job
    <3>4. CASE SaveDailyCandles(r)
      BY <1>1, <2>1, <3>4 DEF SaveDailyCandles, Job
    <3>5. CASE PriceReply(r)
      BY <1>1, <2>1, <3>5 DEF PriceReply, Job
    <3>6. QED BY <1>3, <2>1, <3>1, <3>2, <3>3, <3>4, <3>5
  <2>3. QED BY <1>1, <2>2
<1>4. QED BY <1>2, <1>3

\* What the answer of r promises of the tables after it.
Promised(r) ==
  /\ Answers(r, "refreshed") =>
       \A a \in Symbols :
         /\ quote'[a] >= job[r].at.tick
         /\ r \in FullRequests => Owed(r) \subseteq DOMAIN candles'[a]
  /\ Answers(r, "kept") => \E a \in Symbols : quote'[a] = job[r].at.quote[a]

\* A request answers only after its last asset, so what it is told of the
\* assets up to its own is told of all of them.
LEMMA Answered ==
  ASSUME MInv, NEW r \in Requests, Runs(r), NEW q \in Requests, Runs(q),
         NEW failed \in SUBSET Symbols, NextAsset(q, failed), Told(q, failed),
         BroughtSoFar(q, failed), job'[r].answer # "none"
  PROVE  Promised(r)
<1>1. q = r
  BY Parts, OneRuns
<1>2. job[r].answer = "none"
  BY Parts, IdleTyped DEF JobInv, Runs
<1>3. job[r].asset = Len(Assets) /\ Len(Assets) \in Nat /\ job'[r].answer = Answer(failed)
  <2>1. job'[r].answer # job[r].answer
    BY <1>2
  <2>2. QED BY <1>1, <2>1, Parts, NextAssetStep, Numbers
<1>4. ASSUME NEW a \in Symbols
      PROVE  \E i \in 1..Len(Assets) : a = Assets[i] /\ i <= job[r].asset
  BY <1>3 DEF Symbols
<1>5. ASSUME failed = {}, NEW a \in Symbols
      PROVE  /\ quote'[a] >= job[r].at.tick
             /\ r \in FullRequests => Owed(r) \subseteq DOMAIN candles'[a]
  <2>1. PICK i \in 1..Len(Assets) : a = Assets[i] /\ i <= job[r].asset
    BY <1>4
  <2>2. QED BY <1>1, <1>5, <2>1 DEF Told, BroughtSoFar
<1>6. ASSUME failed # {}
      PROVE  \E a \in Symbols : quote'[a] = job[r].at.quote[a]
  <2>1. PICK a \in Symbols : a \in failed
    BY <1>6
  <2>2. PICK i \in 1..Len(Assets) : a = Assets[i] /\ i <= job[r].asset
    BY <1>4
  <2>3. quote'[a] = job[r].at.quote[a]
    BY <1>1, <2>1, <2>2 DEF Told
  <2>4. QED BY <2>3
<1>7. /\ Answers(r, "refreshed") => failed = {}
      /\ Answers(r, "kept") => failed # {}
  BY <1>3 DEF Answers, Answer
<1>8. QED BY <1>5, <1>6, <1>7 DEF Promised

\* A refresh that reports success has brought every price and, a full one,
\* every recent candle; one that reports the prices as kept has kept one.
THEOREM AnswersTrue == Spec => AnswerTellsTheStore
<1>1. ASSUME MInv, OwedInv, [Next]_vars
      PROVE  \A r \in Requests : Promised(r)
  <2> SUFFICES ASSUME NEW r \in Requests, Runs(r), job'[r].answer \in {"refreshed", "kept"}
               PROVE  Promised(r)
    BY DEF Promised, Answers, Runs
  <2>1. job[r].answer = "none" /\ job'[r].answer # "none"
    BY <1>1, Parts, IdleTyped DEF JobInv, Runs
  <2>2. job' # job
    BY <2>1
  <2>3. ~Restart
    BY <2>1 DEF Restart, Idle
  <2>4. ASSUME NEW q \in Requests, Fail(q)
        PROVE  Promised(r)
    <3>1. /\ Runs(q) /\ NextAsset(q, job[q].failed \cup {Symbol(q)})
          /\ Told(q, job[q].failed \cup {Symbol(q)})
      BY <1>1, <2>4, FailInv DEF Fail, Runs
    <3>2. job[q].failed \cup {Symbol(q)} \in SUBSET Symbols
      BY <1>1, Parts, JobTyped, SymbolTyped DEF Job
    <3>3. BroughtSoFar(q, job[q].failed \cup {Symbol(q)})
      BY <1>1, <3>1, EndsBrought DEF OwedInv
    <3>4. QED BY <1>1, <2>1, <3>1, <3>2, <3>3, Answered
  <2>5. ASSUME NEW q \in Requests, SaveCurrentPrice(q)
        PROVE  Promised(r)
    <3>1. /\ Runs(q) /\ NextAsset(q, job[q].failed) /\ Told(q, job[q].failed)
          /\ job[q].pc = "quoted"
      BY <1>1, <2>5, SaveCurrentPriceInv DEF SaveCurrentPrice, Runs, At, Asking
    <3>2. job[q].failed \in SUBSET Symbols
      BY <1>1, Parts, JobTyped DEF Job
    <3>3. BroughtSoFar(q, job[q].failed)
      BY <1>1, <3>1, EndsBrought DEF OwedInv
    <3>4. QED BY <1>1, <2>1, <3>1, <3>2, <3>3, Answered
  <2>6. \/ \E q \in Requests : Fail(q)
        \/ \E q \in Requests : SaveCurrentPrice(q)
    <3>1. ~Trade /\ ~Midnight /\ ~UNCHANGED vars
      BY <2>2 DEF Trade, Midnight, vars
    <3>2. ~\E b \in Symbols, n \in RecordLimits : SavePriceHistoryRecordLimit(b, n)
      BY <2>2 DEF SavePriceHistoryRecordLimit
    <3>3. ~\E q \in Requests : \/ Begin(q) \/ Acquire(q) \/ AskCandles(q) \/ CandlesReply(q)
                               \/ SaveDailyCandles(q) \/ PriceReply(q)
      BY <1>1, <2>1, NoEarlyAnswer
    <3>4. QED BY <1>1, <2>3, <3>1, <3>2, <3>3, Steps
  <2>7. QED BY <2>4, <2>5, <2>6
<1>2. Init => OwedInv
  <2>1. Init => \A r \in Requests : job[r].pc = "idle"
    BY DEF Init, Idle
  <2>2. QED BY <2>1, IdleTyped DEF OwedInv, Runs
<1>3. MInv /\ OwedInv /\ [Next]_vars => OwedInv'
  BY NextOwed
<1>4. Spec => []OwedInv
  BY <1>2, <1>3, MarketInvariance, PTL DEF Spec
<1>5. MInv /\ OwedInv /\ [Next]_vars => \A r \in Requests : Promised(r)
  BY <1>1
<1>6. Spec => [][\A r \in Requests : Promised(r)]_vars
  BY <1>4, <1>5, MarketInvariance, PTL DEF Spec
<1>7. QED BY <1>6 DEF AnswerTellsTheStore, Promised

-----------------------------------------------------------------------------
(***************************************************************************)
(* How long a request works.  That it ends is liveness and is left to TLC; *)
(* what is proved is the part of the argument that depends on the code's   *)
(* loops: a bound on its steps that each of them lowers and nobody raises. *)
(***************************************************************************)
AssetSteps(pc) ==
  CASE pc = "candles" -> 5 [] pc = "sent" -> 4 [] pc = "rows" -> 3
    [] pc = "price" -> 2 [] pc = "quoted" -> 1

\* At most so many steps until the request answers and unlocks the mutex.
StepsLeft(r) ==
  IF Runs(r) THEN 5 * (Len(Assets) - job[r].asset) + AssetSteps(job[r].pc) ELSE 0

\* What the others do, and what the exchange and the clock do, does not
\* lengthen the work of a request; what it does itself brings it nearer to
\* its end, whether it succeeds or fails.
WorkShrinks ==
  [][\A r \in Requests : Runs(r) =>
       /\ job'[r] = job[r] \/ StepsLeft(r)' < StepsLeft(r)
       /\ Running(r) => StepsLeft(r)' < StepsLeft(r)]_vars

LEMMA StepsCounted ==
  ASSUME Jobs, NEW r \in Requests
  PROVE  /\ StepsLeft(r) \in 0..5 * Len(Assets)
         /\ Runs(r) => StepsLeft(r) > 5 * (Len(Assets) - job[r].asset)
<1>1. job[r].asset \in 1..Len(Assets) /\ Len(Assets) \in Nat
  BY SymbolTyped, Numbers
<1>2. Runs(r) => AssetSteps(job[r].pc) \in 1..5
  BY DEF Runs, Asking, AssetSteps
<1>3. QED BY <1>1, <1>2 DEF StepsLeft

\* The end of an asset, with or without a failure.
LEMMA AssetEnds ==
  ASSUME Jobs, Holder, NEW r \in Requests, Runs(r), NEW failed \in SUBSET Symbols,
         NextAsset(r, failed)
  PROVE  StepsLeft(r)' < StepsLeft(r)
<1>1. job[r].asset \in 1..Len(Assets) /\ Len(Assets) \in Nat
  BY SymbolTyped, Numbers
<1>2. StepsLeft(r) \in Nat /\ StepsLeft(r) > 5 * (Len(Assets) - job[r].asset)
  BY StepsCounted, <1>1
<1>3. CASE /\ job'[r].asset = job[r].asset + 1 /\ job[r].asset < Len(Assets)
           /\ job'[r].pc \in {"candles", "price"}
  <2>1. StepsLeft(r)' <= 5 * (Len(Assets) - (job[r].asset + 1)) + 5
    BY <1>1, <1>3 DEF StepsLeft, Runs, Asking, AssetSteps
  <2>2. StepsLeft(r)' \in Int
    BY <1>1, <1>3 DEF StepsLeft, Runs, Asking, AssetSteps
  <2>3. QED BY <1>1, <1>2, <2>1, <2>2
<1>4. CASE job'[r].pc = "idle"
  <2>1. StepsLeft(r)' = 0
    BY <1>4, IdleTyped DEF StepsLeft, Runs
  <2>2. QED BY <1>1, <1>2, <2>1
<1>5. QED BY <1>3, <1>4, NextAssetStep

\* A step within an asset.
LEMMA AssetGoesOn ==
  ASSUME Jobs, NEW r \in Requests,
         AskCandles(r) \/ CandlesReply(r) \/ SaveDailyCandles(r) \/ PriceReply(r)
  PROVE  StepsLeft(r)' < StepsLeft(r)
<1>1. job[r] \in Job /\ job \in [Requests -> Job]
  BY DEF Jobs
<1>2. job[r].asset \in 1..Len(Assets) /\ Len(Assets) \in Nat
  BY SymbolTyped, Numbers
<1>3. /\ job'[r].asset = job[r].asset
      /\ \/ job[r].pc = "candles" /\ job'[r].pc = "sent"
         \/ job[r].pc = "sent" /\ job'[r].pc = "rows"
         \/ job[r].pc = "rows" /\ job'[r].pc = "price"
         \/ job[r].pc = "price" /\ job'[r].pc = "quoted"
  <2>1. CASE AskCandles(r)
    BY <1>1, <2>1 DEF AskCandles, At, Job
  <2>2. CASE CandlesReply(r)
    BY <1>1, <2>2 DEF CandlesReply, At, Job
  <2>3. CASE SaveDailyCandles(r)
    BY <1>1, <2>3 DEF SaveDailyCandles, At, Job
  <2>4. CASE PriceReply(r)
    BY <1>1, <2>4 DEF PriceReply, At, Job
  <2>5. QED BY <2>1, <2>2, <2>3, <2>4
<1>4. QED BY <1>2, <1>3 DEF StepsLeft, Runs, Asking, AssetSteps

LEMMA RunningShrinks ==
  ASSUME MInv, NEW r \in Requests, Running(r)
  PROVE  StepsLeft(r)' < StepsLeft(r)
<1>1. CASE Fail(r)
  <2>1. Runs(r) /\ NextAsset(r, job[r].failed \cup {Symbol(r)})
    BY <1>1 DEF Fail, Runs
  <2>2. job[r].failed \cup {Symbol(r)} \in SUBSET Symbols
    BY Parts, JobTyped, SymbolTyped DEF Job
  <2>3. QED BY <2>1, <2>2, Parts, AssetEnds
<1>2. CASE SaveCurrentPrice(r)
  <2>1. Runs(r) /\ NextAsset(r, job[r].failed)
    BY <1>2 DEF SaveCurrentPrice, At, Runs, Asking
  <2>2. job[r].failed \in SUBSET Symbols
    BY Parts, JobTyped DEF Job
  <2>3. QED BY <2>1, <2>2, Parts, AssetEnds
<1>3. CASE AskCandles(r) \/ CandlesReply(r) \/ SaveDailyCandles(r) \/ PriceReply(r)
  BY <1>3, Parts, AssetGoesOn
<1>4. QED BY <1>1, <1>2, <1>3 DEF Running

\* The holder of the mutex answers after at most five steps per asset, whatever
\* fails and whatever else happens meanwhile: so nobody waits for ever for a
\* mutex that is held, provided its holder is scheduled.
THEOREM WorkIsBounded ==
  Spec => WorkShrinks /\ [](\A r \in Requests : StepsLeft(r) \in 0..5 * Len(Assets))
<1> DEFINE Shrinks == \A r \in Requests : Runs(r) =>
                        /\ job'[r] = job[r] \/ StepsLeft(r)' < StepsLeft(r)
                        /\ Running(r) => StepsLeft(r)' < StepsLeft(r)
           Bounded == \A r \in Requests : StepsLeft(r) \in 0..5 * Len(Assets)
<1>1. MInv => Bounded
  BY Parts, StepsCounted
<1>2. ASSUME MInv, [Next]_vars
      PROVE  Shrinks
  <2> SUFFICES ASSUME NEW r \in Requests, Runs(r)
               PROVE  job'[r] = job[r] \/ StepsLeft(r)' < StepsLeft(r)
    BY <1>2, RunningShrinks
  <2>1. job \in [Requests -> Job] /\ ~At(r, "idle") /\ ~At(r, "waiting")
    BY <1>2, Parts, IdleTyped DEF Jobs, Runs, At
  <2>2. CASE Restart
    <3>1. job'[r] = Idle
      BY <2>2 DEF Restart
    <3>2. StepsLeft(r)' = 0
      BY <3>1, IdleTyped DEF StepsLeft, Runs
    <3>3. job[r].asset \in 1..Len(Assets) /\ Len(Assets) \in Nat
      BY <1>2, Parts, SymbolTyped, Numbers
    <3>4. StepsLeft(r) > 5 * (Len(Assets) - job[r].asset) /\ StepsLeft(r) \in Nat
      BY <1>2, <3>3, Parts, StepsCounted
    <3>5. QED BY <3>2, <3>3, <3>4
  <2>3. ASSUME NEW q \in Requests, Begin(q) \/ Acquire(q)
        PROVE  job'[r] = job[r]
    BY <2>1, <2>3 DEF Begin, Acquire, At
  <2>4. ASSUME NEW q \in Requests, Running(q)
        PROVE  job'[r] = job[r] \/ StepsLeft(r)' < StepsLeft(r)
    <3>1. CASE q = r
      BY <1>2, <2>4, <3>1, RunningShrinks
    <3>2. CASE q # r
      BY <2>1, <2>4, <3>2 DEF Running, AskCandles, CandlesReply, SaveDailyCandles, PriceReply,
         SaveCurrentPrice, Fail, NextAsset
    <3>3. QED BY <3>1, <3>2
  <2>5. CASE job' = job
    BY <2>5
  <2>6. QED BY <1>2, <2>2, <2>3, <2>4, <2>5
        DEF Next, vars, Trade, Midnight, SavePriceHistoryRecordLimit
<1>3. QED BY MarketInvariance, <1>1, <1>2, PTL DEF Spec, WorkShrinks
=============================================================================
