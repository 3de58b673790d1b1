-------------------------- MODULE DashboardProofs --------------------------
(***************************************************************************)
(* Proofs about the page, for any assets, any number of refreshes in       *)
(* flight and of answers.  The flag lets one refresh run at a time, so the *)
(* price a refresh brings was read after the one on the page; and an id    *)
(* that the page, a reply or an answer names was given, to a               *)
(* recommendation of that asset, so it never names a later one.            *)
(***************************************************************************)
EXTENDS Dashboard, TLAPS

KnownAs(id, a) == id < nextId /\ \A r \in open : r.id = id => r.strategy = a

Ids ==
  /\ nextId >= 1 /\ \A r \in open : r.id >= 1 /\ r.id < nextId
  /\ \A r, q \in open : r.id = q.id => r = q
  /\ \A a \in Assets : KnownAs(page.advice[a], a)
  /\ \A j \in Slots, a \in Assets : KnownAs(jobs[j].got[a], a)
  /\ \A q \in answers : KnownAs(q.id, q.asset)

OneRefresh == \A i, j \in Slots : jobs[i].running /\ jobs[j].running => i = j

Prices ==
  /\ page.quote <= quote
  /\ \A j \in Slots :
       jobs[j].running /\ "market" \in jobs[j].reads \ (jobs[j].waiting \union jobs[j].failed) =>
         page.quote <= jobs[j].got["market"] /\ jobs[j].got["market"] <= quote

PageInv == TypeOK /\ Ids /\ OneRefresh /\ Prices

-----------------------------------------------------------------------------
(***************************************************************************)
(* Jobs.                                                                   *)
(***************************************************************************)
LEMMA IdleTyped == Idle \in Job /\ ~Idle.running /\ \A x \in Everything : Idle.got[x] = 0
BY DEF Idle, Job

LEMMA RefreshTyped ==
  ASSUME NEW reads \in SUBSET Everything, NEW post \in BOOLEAN
  PROVE  /\ Refresh(reads, post) \in Job /\ Refresh(reads, post).running
         /\ Refresh(reads, post).waiting = reads /\ Refresh(reads, post).reads = reads
         /\ \A x \in Everything : Refresh(reads, post).got[x] = 0
BY DEF Refresh, Idle, Job

\* A step of job j leaves the others alone.
LEMMA JobStep ==
  ASSUME jobs \in [Slots -> Job], NEW j \in Slots, NEW next \in Job,
         jobs' = [jobs EXCEPT ![j] = next]
  PROVE  /\ jobs' \in [Slots -> Job] /\ jobs'[j] = next
         /\ \A i \in Slots : i # j => jobs'[i] = jobs[i]
<1> HIDE DEF Job
<1> QED OBVIOUS

\* What a reply changes.
LEMMA SettleStep ==
  ASSUME jobs \in [Slots -> Job], NEW j \in Slots, NEW x \in Everything,
         NEW value \in Nat, NEW lost \in BOOLEAN, Settle(j, x, value, lost)
  PROVE  /\ jobs' \in [Slots -> Job]
         /\ \A i \in Slots : i # j => jobs'[i] = jobs[i]
         /\ jobs'[j].running = jobs[j].running /\ jobs'[j].reads = jobs[j].reads
         /\ jobs'[j].posting = jobs[j].posting /\ jobs'[j].waiting = jobs[j].waiting \ {x}
         /\ jobs[j].failed \subseteq jobs'[j].failed
         /\ \/ jobs'[j].got[x] = value
            \/ jobs'[j].got[x] = 0 /\ x \in jobs'[j].failed
         /\ \A y \in Everything \ {x} : jobs'[j].got[y] = jobs[j].got[y]
<1> DEFINE job  == jobs[j]
           next == [job EXCEPT !.waiting = job.waiting \ {x},
                               !.failed = IF lost THEN job.failed \union {x} ELSE job.failed,
                               !.got = [job.got EXCEPT ![x] = IF lost THEN 0 ELSE value]]
<1>1. jobs[j] \in Job
  OBVIOUS
<1>2. jobs[j].got \in [Everything -> Nat] /\ (IF lost THEN 0 ELSE value) \in Nat
  BY <1>1 DEF Job
<1>3. /\ [jobs[j].got EXCEPT ![x] = IF lost THEN 0 ELSE value] \in [Everything -> Nat]
      /\ [jobs[j].got EXCEPT ![x] = IF lost THEN 0 ELSE value][x] = IF lost THEN 0 ELSE value
      /\ \A y \in Everything \ {x} :
           [jobs[j].got EXCEPT ![x] = IF lost THEN 0 ELSE value][y] = jobs[j].got[y]
  BY <1>2
<1>4. /\ next \in Job
      /\ next.running = jobs[j].running /\ next.reads = jobs[j].reads
      /\ next.posting = jobs[j].posting /\ next.waiting = jobs[j].waiting \ {x}
      /\ next.failed = IF lost THEN jobs[j].failed \union {x} ELSE jobs[j].failed
      /\ next.got = [jobs[j].got EXCEPT ![x] = IF lost THEN 0 ELSE value]
  BY <1>1, <1>3 DEF Job
<1>5. jobs' = [jobs EXCEPT ![j] = next]
  BY DEF Settle
<1> HIDE DEF next
<1>6. jobs' \in [Slots -> Job] /\ jobs'[j] = next /\ \A i \in Slots : i # j => jobs'[i] = jobs[i]
  BY <1>4, <1>5, JobStep
<1>7. /\ jobs[j].failed \subseteq jobs'[j].failed
      /\ \/ jobs'[j].got[x] = value
         \/ jobs'[j].got[x] = 0 /\ x \in jobs'[j].failed
  BY <1>3, <1>4, <1>6
<1>8. QED BY <1>3, <1>4, <1>6, <1>7

-----------------------------------------------------------------------------
(***************************************************************************)
(* The server.                                                             *)
(***************************************************************************)
OpenOK ==
  /\ open \subseteq Server!Recommendations /\ nextId \in Nat /\ nextId >= 1
  /\ \A r \in open : r.id >= 1 /\ r.id < nextId
  /\ \A r, q \in open : r.id = q.id => r = q

\* What an id was known as, it stays.
LEMMA KnownStaysKnown ==
  ASSUME OpenOK, nextId' \in Nat, nextId' >= nextId,
         \A r \in open' \ open : r.id >= nextId,
         NEW id \in Nat, NEW a \in Assets, KnownAs(id, a)
  PROVE  id < nextId' /\ \A r \in open' : r.id = id => r.strategy = a
<1>1. id < nextId /\ nextId \in Nat /\ \A r \in open : r.id = id => r.strategy = a
  BY DEF KnownAs, OpenOK
<1>2. ASSUME NEW r \in open', r.id = id
      PROVE  r.strategy = a
  <2>1. r \in open
    BY <1>1, <1>2
  <2>2. QED BY <1>1, <1>2, <2>1
<1>3. QED BY <1>1, <1>2

LEMMA EvaluateServer ==
  ASSUME OpenOK, NEW a \in Assets, Evaluate(a)
  PROVE  OpenOK' /\ nextId' >= nextId /\ \A r \in open' \ open : r.id >= nextId
<1>1. ASSUME NEW kind \in Advised, Server!Advise(a, kind)
      PROVE  OpenOK' /\ nextId' >= nextId /\ \A r \in open' \ open : r.id >= nextId
  <2> DEFINE new == [id |-> nextId, strategy |-> a, kind |-> kind]
  <2>1. /\ open' = (open \ Server!WaitingFor(a)) \union {new} /\ nextId' = nextId + 1
    BY <1>1 DEF Server!Advise
  <2>2. new \in Server!Recommendations /\ new.id = nextId
    BY DashboardAssumptions DEF OpenOK, Server!Recommendations
  <2> HIDE DEF new
  <2>3. nextId' \in Nat /\ nextId' >= 1 /\ nextId' >= nextId /\ nextId < nextId'
    BY <2>1 DEF OpenOK
  <2>4. \A r \in open' : r \in open \/ r = new
    BY <2>1
  <2>5. open' \subseteq Server!Recommendations
    BY <2>2, <2>4 DEF OpenOK
  <2>6. \A r \in open' : r.id >= 1 /\ r.id < nextId'
    BY <2>1, <2>2, <2>4 DEF OpenOK, Server!Recommendations
  <2>7. \A r, q \in open' : r.id = q.id => r = q
    BY <2>2, <2>4 DEF OpenOK
  <2>8. \A r \in open' \ open : r.id >= nextId
    BY <2>2, <2>4 DEF OpenOK
  <2>9. QED BY <2>3, <2>5, <2>6, <2>7, <2>8 DEF OpenOK
<1>2. CASE Server!Withdraw(a)
  BY <1>2 DEF Server!Withdraw, OpenOK
<1>3. CASE UNCHANGED <<open, nextId>>
  BY <1>3 DEF OpenOK
<1>4. QED BY <1>1, <1>2, <1>3 DEF Evaluate

LEMMA AnswerServer ==
  ASSUME OpenOK, NEW r \in open, Server!Answer(r)
  PROVE  OpenOK' /\ nextId' >= nextId /\ \A q \in open' \ open : q.id >= nextId
BY DEF Server!Answer, OpenOK

\* The recommendation that an evaluation returns is the asset's, 0 is no id.
LEMMA WaitingKnown ==
  ASSUME OpenOK', NEW a \in Assets
  PROVE  WaitingId(a)' \in Nat /\ KnownAs(WaitingId(a), a)' /\ KnownAs(0, a)'
<1>1. KnownAs(0, a)'
  BY DEF KnownAs, OpenOK
<1>2. CASE WaitingIds(a)' = {}
  BY <1>1, <1>2 DEF WaitingId, KnownAs
<1>3. CASE WaitingIds(a)' # {}
  <2>1. WaitingId(a)' \in WaitingIds(a)'
    BY <1>3 DEF WaitingId
  <2>2. PICK r \in open' : r.strategy = a /\ r.id = WaitingId(a)'
    BY <2>1 DEF WaitingIds, Server!WaitingFor
  <2>3. r.id \in Nat /\ r.id < nextId' /\ \A q \in open' : q.id = r.id => q = r
    BY <2>2 DEF OpenOK, Server!Recommendations
  <2>4. QED BY <1>1, <2>2, <2>3 DEF KnownAs
<1>4. QED BY <1>1, <1>2, <1>3

-----------------------------------------------------------------------------
(***************************************************************************)
(* The page.                                                               *)
(***************************************************************************)
Pages == [position : Nat, quote : Nat, advice : [Assets -> Nat]]

Answers == [n : Nat, id : Nat, asset : Assets, done : BOOLEAN]

Saves == [pc : {"idle", "stored", "read"}, read : Nat]

\* The parts of the invariant under names of their own.
LEMMA Parts ==
  ASSUME PageInv
  PROVE  /\ OpenOK /\ position \in Nat /\ quote \in Nat /\ page \in Pages
         /\ jobs \in [Slots -> Job] /\ save \in Saves /\ answers \subseteq Answers
         /\ missed \in BOOLEAN /\ busy = (\E j \in Slots : jobs[j].running)
         /\ OneRefresh /\ Prices
         /\ \A a \in Assets : page.advice[a] \in Nat /\ KnownAs(page.advice[a], a)
         /\ \A j \in Slots, a \in Assets : jobs[j].got[a] \in Nat /\ KnownAs(jobs[j].got[a], a)
         /\ \A q \in answers : q.id \in Nat /\ q.asset \in Assets /\ KnownAs(q.id, q.asset)
<1>1. TypeOK /\ Ids /\ OneRefresh /\ Prices
  BY DEF PageInv
<1>2. \A j \in Slots, a \in Assets : jobs[j].got[a] \in Nat
  BY <1>1 DEF TypeOK, Job, Everything
<1>3. QED BY <1>1, <1>2 DEF TypeOK, Ids, OpenOK, Pages, Answers, Saves, Server!LifeTypeOK

LEMMA Whole ==
  ASSUME OpenOK', position' \in Nat, quote' \in Nat, page' \in Pages,
         jobs' \in [Slots -> Job], save' \in Saves, answers' \subseteq Answers,
         missed' \in BOOLEAN, busy' = (\E j \in Slots : jobs'[j].running), OneRefresh', Prices',
         \A a \in Assets : KnownAs(page.advice[a], a)',
         \A j \in Slots, a \in Assets : KnownAs(jobs[j].got[a], a)',
         \A q \in answers' : KnownAs(q.id, q.asset)'
  PROVE  PageInv'
BY DEF PageInv, TypeOK, Ids, OpenOK, Pages, Answers, Saves, Server!LifeTypeOK

LEMMA InitPage == Init => PageInv
<1> SUFFICES ASSUME Init PROVE PageInv
  OBVIOUS
<1>1. OpenOK
  BY DEF Init, OpenOK, Server!LifeInit
<1>2. FirstSlot \in Slots
  BY DashboardAssumptions DEF FirstSlot
<1> DEFINE first == Refresh(Everything, FALSE)
<1>3. /\ Idle \in Job /\ ~Idle.running /\ first \in Job /\ first.running
      /\ first.waiting = Everything /\ first.reads = Everything
      /\ \A x \in Everything : Idle.got[x] = 0 /\ first.got[x] = 0
  BY IdleTyped, RefreshTyped
<1> HIDE DEF first
<1>4. \A j \in Slots : jobs[j] = IF j = FirstSlot THEN first ELSE Idle
  BY DEF Init, first
<1>5. jobs \in [Slots -> Job]
  BY <1>3 DEF Init, first
<1>6. busy = (\E j \in Slots : jobs[j].running)
  BY <1>2, <1>3, <1>4 DEF Init
<1>7. OneRefresh
  BY <1>3, <1>4 DEF OneRefresh
<1>8. /\ page.quote = 0 /\ quote = 0 /\ page \in Pages /\ open = {} /\ nextId = 1
      /\ \A a \in Assets : page.advice[a] = 0
  <2>1. /\ page = [position |-> 0, quote |-> 0, advice |-> [a \in Assets |-> 0]]
        /\ quote = 0 /\ open = {} /\ nextId = 1
    BY DEF Init, Server!LifeInit
  <2>2. [a \in Assets |-> 0] \in [Assets -> Nat] /\ \A a \in Assets : [b \in Assets |-> 0][a] = 0
    OBVIOUS
  <2>3. QED BY <2>1, <2>2 DEF Pages
<1>9. Prices
  BY <1>3, <1>4, <1>8 DEF Prices
<1>10. /\ \A j \in Slots, a \in Assets : KnownAs(jobs[j].got[a], a)
       /\ \A a \in Assets : KnownAs(page.advice[a], a)
  <2>1. \A j \in Slots, a \in Assets : jobs[j].got[a] = 0
    BY <1>3, <1>4 DEF Everything
  <2>2. \A a : KnownAs(0, a)
    BY <1>8 DEF KnownAs
  <2>3. QED BY <1>8, <2>1, <2>2
<1>11. /\ position \in Nat /\ quote \in Nat /\ save \in Saves
       /\ answers = {} /\ missed \in BOOLEAN
  BY DEF Init, Saves
<1>12. QED BY <1>1, <1>5, <1>6, <1>7, <1>8, <1>9, <1>10, <1>11
          DEF PageInv, TypeOK, Ids, OpenOK, Pages, Saves, Server!LifeTypeOK

\* A step of the page that may begin a refresh and leaves the server's advice
\* and quotes, the price shown and the cards alone.
LEMMA PageStep ==
  ASSUME PageInv, UNCHANGED <<open, nextId, quote>>, position' \in Nat, page' \in Pages,
         page'.quote = page.quote, page'.advice = page.advice,
         save' \in Saves, answers' \subseteq Answers, missed' \in BOOLEAN,
         \A q \in answers' : KnownAs(q.id, q.asset),
         \/ UNCHANGED <<jobs, busy>>
         \/ /\ ~busy /\ busy' = TRUE
            /\ \E reads \in SUBSET Everything, post \in BOOLEAN :
                 jobs' = [jobs EXCEPT ![FreeSlot] = Refresh(reads, post)]
  PROVE  PageInv'
<1>1. /\ OpenOK' /\ quote' \in Nat
      /\ \A a \in Assets : KnownAs(page.advice[a], a)'
      /\ \A q \in answers' : KnownAs(q.id, q.asset)'
  BY Parts DEF OpenOK, KnownAs
<1>2. CASE UNCHANGED <<jobs, busy>>
  <2>1. /\ jobs' \in [Slots -> Job] /\ busy' = (\E j \in Slots : jobs'[j].running)
        /\ OneRefresh' /\ Prices'
    BY <1>2, Parts DEF OneRefresh, Prices
  <2>2. \A j \in Slots, a \in Assets : KnownAs(jobs[j].got[a], a)'
    <3> SUFFICES ASSUME NEW j \in Slots, NEW a \in Assets PROVE KnownAs(jobs[j].got[a], a)'
      OBVIOUS
    <3>1. KnownAs(jobs[j].got[a], a)
      BY Parts
    <3>2. QED BY <1>2, <3>1 DEF KnownAs
  <2>3. QED BY <1>1, <2>1, <2>2, Whole
<1>3. ASSUME ~busy, busy' = TRUE, NEW reads \in SUBSET Everything, NEW post \in BOOLEAN,
             jobs' = [jobs EXCEPT ![FreeSlot] = Refresh(reads, post)]
      PROVE  PageInv'
  <2>1. FreeSlot \in Slots /\ \A j \in Slots : ~jobs[j].running
    BY <1>3, Parts, DashboardAssumptions DEF FreeSlot
  <2> DEFINE next == Refresh(reads, post)
  <2>2. /\ next \in Job /\ next.running /\ next.waiting = reads /\ next.reads = reads
        /\ \A x \in Everything : next.got[x] = 0
    BY RefreshTyped
  <2> HIDE DEF next
  <2>3. /\ jobs' \in [Slots -> Job] /\ jobs'[FreeSlot] = next
        /\ \A i \in Slots : i # FreeSlot => jobs'[i] = jobs[i]
    BY <1>3, <2>1, <2>2, Parts, JobStep DEF next
  <2>4. busy' = (\E j \in Slots : jobs'[j].running) /\ OneRefresh'
    BY <1>3, <2>1, <2>2, <2>3 DEF OneRefresh
  <2>5. Prices'
    BY <2>1, <2>2, <2>3, Parts DEF Prices
  <2>6. \A j \in Slots, a \in Assets : KnownAs(jobs[j].got[a], a)'
    <3> SUFFICES ASSUME NEW j \in Slots, NEW a \in Assets PROVE KnownAs(jobs[j].got[a], a)'
      OBVIOUS
    <3>1. jobs'[j].got[a] = 0 \/ jobs'[j] = jobs[j]
      BY <2>2, <2>3 DEF Everything
    <3>2. KnownAs(jobs[j].got[a], a) /\ KnownAs(0, a)
      BY Parts DEF KnownAs, OpenOK
    <3>3. CASE jobs'[j].got[a] = 0
      BY <3>2, <3>3 DEF KnownAs
    <3>4. CASE jobs'[j] = jobs[j]
      BY <3>2, <3>4 DEF KnownAs
    <3>5. QED BY <3>1, <3>3, <3>4
  <2>7. QED BY <1>1, <2>3, <2>4, <2>5, <2>6, Whole
<1>4. QED BY <1>2, <1>3

\* A step of job j that begins and ends no refresh.  What it gets of an asset is
\* the asset's, and a price it gets is the newest.
LEMMA ReplyStep ==
  ASSUME PageInv, NEW j \in Slots, OpenOK', nextId' >= nextId,
         \A r \in open' \ open : r.id >= nextId,
         position' = position, quote' \in Nat, quote' >= quote,
         UNCHANGED <<page, busy, save, answers, missed>>,
         jobs' \in [Slots -> Job], \A i \in Slots : i # j => jobs'[i] = jobs[i],
         jobs'[j].running = jobs[j].running, jobs'[j].reads = jobs[j].reads,
         \A a \in Assets : \/ jobs'[j].got[a] = jobs[j].got[a]
                           \/ KnownAs(jobs[j].got[a], a)',
         \/ jobs'[j].got["market"] = quote /\ quote' = quote
         \/ /\ jobs'[j].got["market"] = jobs[j].got["market"]
            /\ "market" \in jobs[j].waiting \union jobs[j].failed =>
                 "market" \in jobs'[j].waiting \union jobs'[j].failed
         \/ "market" \in jobs'[j].failed
  PROVE  PageInv'
<1>1. /\ \A id \in Nat, a \in Assets : KnownAs(id, a) =>
           id < nextId' /\ \A r \in open' : r.id = id => r.strategy = a
  BY Parts, KnownStaysKnown DEF OpenOK
<1>2. /\ page' = page /\ answers' = answers /\ save' = save /\ missed' = missed /\ busy' = busy
  OBVIOUS
<1>3. busy' = (\E i \in Slots : jobs'[i].running) /\ OneRefresh'
  <2>1. \A i \in Slots : jobs'[i].running = jobs[i].running
    OBVIOUS
  <2>2. busy = (\E i \in Slots : jobs[i].running) /\ OneRefresh
    BY Parts
  <2>3. QED BY <1>2, <2>1, <2>2 DEF OneRefresh
<1>4. Prices'
  <2>1. Prices /\ page.quote \in Nat /\ quote \in Nat
    BY Parts DEF Pages
  <2>2. page.quote <= quote'
    BY <2>1 DEF Prices
  <2>3. ASSUME NEW i \in Slots, jobs'[i].running,
               "market" \in jobs'[i].reads \ (jobs'[i].waiting \union jobs'[i].failed)
        PROVE  page.quote <= jobs'[i].got["market"] /\ jobs'[i].got["market"] <= quote'
    <3>1. CASE i = j => /\ jobs'[j].got["market"] = jobs[j].got["market"]
                        /\ "market" \in jobs[j].waiting \union jobs[j].failed =>
                             "market" \in jobs'[j].waiting \union jobs'[j].failed
      <4>1. /\ jobs'[i].got["market"] = jobs[i].got["market"] /\ jobs[i].running
            /\ "market" \in jobs[i].reads \ (jobs[i].waiting \union jobs[i].failed)
        <5>1. CASE i = j
          BY <2>3, <3>1, <5>1
        <5>2. CASE i # j
          <6>1. jobs'[i] = jobs[i]
            BY <5>2
          <6>2. QED BY <2>3, <6>1
        <5>3. QED BY <5>1, <5>2
      <4>2. page.quote <= jobs[i].got["market"] /\ jobs[i].got["market"] <= quote
        BY <2>1, <4>1 DEF Prices
      <4>3. jobs[i].got["market"] \in Nat
        BY Parts DEF Job, Everything
      <4>4. QED BY <2>1, <4>1, <4>2, <4>3
    <3>2. CASE i = j /\ jobs'[j].got["market"] = quote /\ quote' = quote
      BY <2>1, <3>2 DEF Prices
    <3>3. QED BY <2>3, <3>1, <3>2
  <2>4. QED BY <1>2, <2>2, <2>3 DEF Prices
<1>5. \A i \in Slots, a \in Assets : KnownAs(jobs[i].got[a], a)'
  <2> SUFFICES ASSUME NEW i \in Slots, NEW a \in Assets, jobs'[i].got[a] = jobs[i].got[a]
               PROVE  KnownAs(jobs[i].got[a], a)'
    OBVIOUS
  <2>1. jobs[i].got[a] \in Nat /\ KnownAs(jobs[i].got[a], a)
    BY Parts
  <2>2. QED BY <1>1, <2>1 DEF KnownAs
<1>6. \A a \in Assets : KnownAs(page.advice[a], a)'
  <2> SUFFICES ASSUME NEW a \in Assets PROVE KnownAs(page.advice[a], a)'
    OBVIOUS
  <2>1. page.advice[a] \in Nat /\ KnownAs(page.advice[a], a)
    BY Parts
  <2>2. QED BY <1>1, <1>2, <2>1 DEF KnownAs
<1>7. \A q \in answers' : KnownAs(q.id, q.asset)'
  <2> SUFFICES ASSUME NEW q \in answers PROVE KnownAs(q.id, q.asset)'
    BY <1>2
  <2>1. q.id \in Nat /\ q.asset \in Assets /\ KnownAs(q.id, q.asset)
    BY Parts
  <2>2. QED BY <1>1, <2>1 DEF KnownAs
<1>8. QED BY <1>2, <1>3, <1>4, <1>5, <1>6, <1>7, Parts, Whole

LEMMA RepliesInv ==
  ASSUME PageInv, NEW j \in Slots, NEW lost \in BOOLEAN,
         \/ Post(j, lost) \/ ReadPortfolio(j, lost) \/ ReadMarket(j, lost)
         \/ \E a \in Assets : ReadAdvice(j, a, lost)
  PROVE  PageInv'
<1>1. /\ OpenOK /\ position \in Nat /\ quote \in Nat /\ jobs \in [Slots -> Job] /\ jobs[j] \in Job
  BY Parts
<1>2. CASE Post(j, lost)
  <2> DEFINE next == [jobs[j] EXCEPT
         !.posting = FALSE, !.failed = IF lost THEN jobs[j].failed \union {"post"} ELSE jobs[j].failed]
  <2>1. /\ next \in Job /\ next.running = jobs[j].running /\ next.reads = jobs[j].reads
        /\ next.got = jobs[j].got /\ next.waiting = jobs[j].waiting
        /\ next.failed \in {jobs[j].failed, jobs[j].failed \union {"post"}}
    BY <1>1 DEF Job
  <2>2. jobs' = [jobs EXCEPT ![j] = next]
    BY <1>2 DEF Post
  <2>3. /\ quote' \in Nat /\ quote' >= quote /\ position' = position /\ OpenOK' /\ nextId' >= nextId
        /\ open' = open /\ UNCHANGED <<page, busy, save, answers, missed>>
    BY <1>1, <1>2 DEF Post, Quoted, OpenOK
  <2> HIDE DEF next
  <2>4. jobs' \in [Slots -> Job] /\ jobs'[j] = next /\ \A i \in Slots : i # j => jobs'[i] = jobs[i]
    BY <1>1, <2>1, <2>2, JobStep
  <2>5. \/ /\ jobs'[j].got["market"] = jobs[j].got["market"]
           /\ "market" \in jobs[j].waiting \union jobs[j].failed =>
                "market" \in jobs'[j].waiting \union jobs'[j].failed
        \/ "market" \in jobs'[j].failed
    BY <2>1, <2>4
  <2>6. /\ jobs'[j].running = jobs[j].running /\ jobs'[j].reads = jobs[j].reads
        /\ \A a \in Assets : jobs'[j].got[a] = jobs[j].got[a]
    BY <2>1, <2>4
  <2>7. QED BY <2>3, <2>4, <2>5, <2>6, ReplyStep
<1>3. CASE ReadPortfolio(j, lost)
  <2>1. /\ Settle(j, "portfolio", position, lost) /\ UNCHANGED server
        /\ UNCHANGED <<page, busy, save, answers, missed>>
    BY <1>3 DEF ReadPortfolio
  <2>2. /\ OpenOK' /\ open' = open /\ nextId' = nextId /\ position' = position /\ quote' = quote
    BY <1>1, <2>1 DEF server, OpenOK
  <2> DEFINE x == "portfolio"
  <2> x \in Everything
    BY DEF Everything
  <2> HIDE DEF x
  <2>3. /\ jobs' \in [Slots -> Job] /\ \A i \in Slots : i # j => jobs'[i] = jobs[i]
        /\ jobs'[j].running = jobs[j].running /\ jobs'[j].reads = jobs[j].reads
        /\ jobs'[j].waiting = jobs[j].waiting \ {x}
        /\ jobs[j].failed \subseteq jobs'[j].failed
        /\ \A y \in Everything \ {x} : jobs'[j].got[y] = jobs[j].got[y]
    <3>1. Settle(j, x, position, lost)
      BY <2>1 DEF x
    <3>2. QED BY <1>1, <3>1, SettleStep
  <2>4. /\ jobs'[j].got["market"] = jobs[j].got["market"]
        /\ \A a \in Assets : jobs'[j].got[a] = jobs[j].got[a]
        /\ "market" \in jobs[j].waiting \union jobs[j].failed =>
             "market" \in jobs'[j].waiting \union jobs'[j].failed
    BY <2>3, DashboardAssumptions DEF Everything, x
  <2>5. nextId' >= nextId /\ quote' >= quote /\ quote' \in Nat
    BY <1>1, <2>2 DEF OpenOK
  <2>6. QED BY <2>1, <2>2, <2>3, <2>4, <2>5, ReplyStep
<1>4. CASE ReadMarket(j, lost)
  <2>1. /\ Settle(j, "market", quote, lost) /\ UNCHANGED server
        /\ UNCHANGED <<page, busy, save, answers, missed>>
    BY <1>4 DEF ReadMarket
  <2>2. /\ OpenOK' /\ open' = open /\ nextId' = nextId /\ position' = position /\ quote' = quote
    BY <1>1, <2>1 DEF server, OpenOK
  <2> DEFINE x == "market"
  <2> x \in Everything
    BY DEF Everything
  <2> HIDE DEF x
  <2>3. /\ jobs' \in [Slots -> Job] /\ \A i \in Slots : i # j => jobs'[i] = jobs[i]
        /\ jobs'[j].running = jobs[j].running /\ jobs'[j].reads = jobs[j].reads
        /\ jobs'[j].got[x] = quote \/ x \in jobs'[j].failed
        /\ \A y \in Everything \ {x} : jobs'[j].got[y] = jobs[j].got[y]
    <3>1. Settle(j, x, quote, lost)
      BY <2>1 DEF x
    <3>2. jobs'[j].got[x] = quote \/ x \in jobs'[j].failed
      BY <1>1, <3>1, SettleStep
    <3>3. QED BY <1>1, <3>1, <3>2, SettleStep
  <2>4. /\ \A a \in Assets : jobs'[j].got[a] = jobs[j].got[a]
        /\ jobs'[j].got["market"] = quote \/ "market" \in jobs'[j].failed
    BY <2>3, DashboardAssumptions DEF Everything, x
  <2>5. nextId' >= nextId /\ quote' >= quote /\ quote' \in Nat
    BY <1>1, <2>2 DEF OpenOK
  <2>6. QED BY <2>1, <2>2, <2>3, <2>4, <2>5, ReplyStep
<1>5. ASSUME NEW a \in Assets, ReadAdvice(j, a, lost)
      PROVE  PageInv'
  <2>1. /\ Evaluate(a) /\ Settle(j, a, WaitingId(a)', lost)
        /\ UNCHANGED <<position, quote, page, busy, save, answers, missed>>
    BY <1>5 DEF ReadAdvice
  <2>2. OpenOK' /\ nextId' >= nextId /\ \A r \in open' \ open : r.id >= nextId
    BY <1>1, <2>1, EvaluateServer
  <2>3. WaitingId(a)' \in Nat /\ KnownAs(WaitingId(a), a)' /\ KnownAs(0, a)'
    BY <2>2, WaitingKnown
  <2>4. /\ jobs' \in [Slots -> Job] /\ \A i \in Slots : i # j => jobs'[i] = jobs[i]
        /\ jobs'[j].running = jobs[j].running /\ jobs'[j].reads = jobs[j].reads
        /\ jobs'[j].waiting = jobs[j].waiting \ {a}
        /\ jobs[j].failed \subseteq jobs'[j].failed
        /\ jobs'[j].got[a] = WaitingId(a)' \/ jobs'[j].got[a] = 0
        /\ \A y \in Everything \ {a} : jobs'[j].got[y] = jobs[j].got[y]
    <3>1. a \in Everything
      BY DEF Everything
    <3>2. QED BY <1>1, <2>1, <2>3, <3>1, SettleStep
  <2>5. /\ jobs'[j].got["market"] = jobs[j].got["market"] /\ a # "market"
        /\ "market" \in jobs[j].waiting \union jobs[j].failed =>
             "market" \in jobs'[j].waiting \union jobs'[j].failed
        /\ \A b \in Assets \ {a} : jobs'[j].got[b] = jobs[j].got[b]
    BY <2>4, DashboardAssumptions DEF Everything
  <2>6. KnownAs(jobs[j].got[a], a)'
    <3>1. CASE jobs'[j].got[a] = 0
      BY <2>3, <3>1 DEF KnownAs
    <3>2. CASE jobs'[j].got[a] = WaitingId(a)'
      BY <2>3, <3>2 DEF KnownAs
    <3>3. QED BY <2>4, <3>1, <3>2
  <2>7. \A b \in Assets : jobs'[j].got[b] = jobs[j].got[b] \/ KnownAs(jobs[j].got[b], b)'
    BY <2>5, <2>6
  <2>8. quote' = quote /\ quote' \in Nat /\ quote' >= quote
    BY <1>1, <2>1
  <2>9. QED BY <2>1, <2>2, <2>4, <2>5, <2>7, <2>8, ReplyStep
<1>6. QED BY <1>2, <1>3, <1>4, <1>5

\* What a finished refresh shows: advice of the right asset, and a price at
\* least as new as the one it replaces.
LEMMA FinishShows ==
  ASSUME PageInv, NEW j \in Slots, Finish(j)
  PROVE  /\ page' \in Pages /\ page'.quote >= page.quote /\ page'.quote <= quote
         /\ \A a \in Assets : page'.advice[a] \in {jobs[j].got[a], page.advice[a]}
<1>1. /\ page \in Pages /\ jobs[j] \in Job /\ quote \in Nat /\ Prices
      /\ jobs[j].running /\ jobs[j].waiting = {}
  BY Parts DEF Finish, Settled
<1>2. jobs[j].got \in [Everything -> Nat]
  BY <1>1 DEF Job
<1>3. /\ jobs[j].got["portfolio"] \in Nat /\ jobs[j].got["market"] \in Nat
      /\ \A a \in Assets : jobs[j].got[a] \in Nat
  BY <1>2 DEF Everything
<1> DEFINE has(x) == x \in jobs[j].reads \ jobs[j].failed
           advice == [a \in Assets |-> IF has(a) THEN jobs[j].got[a] ELSE page.advice[a]]
           new    == IF has("market") THEN jobs[j].got["market"] ELSE page.quote
           saved  == IF has("portfolio") THEN jobs[j].got["portfolio"] ELSE page.position
<1>4. page' = [position |-> saved, quote |-> new, advice |-> advice]
  BY DEF Finish, Shown
<1>5. saved \in Nat
  BY <1>1, <1>3 DEF Pages
<1>6. new \in Nat /\ new >= page.quote /\ new <= quote
  <2>1. page.quote \in Nat /\ page.quote <= quote
    BY <1>1 DEF Pages, Prices
  <2>2. CASE has("market")
    <3>1. page.quote <= jobs[j].got["market"] /\ jobs[j].got["market"] <= quote
      BY <1>1, <2>2 DEF Prices
    <3>2. QED BY <1>3, <2>1, <2>2, <3>1
  <2>3. CASE ~has("market")
    BY <2>1, <2>3
  <2>4. QED BY <2>2, <2>3
<1>7. /\ advice \in [Assets -> Nat]
      /\ \A a \in Assets : advice[a] \in {jobs[j].got[a], page.advice[a]}
  <2>1. page.advice \in [Assets -> Nat]
    BY <1>1 DEF Pages
  <2>2. QED BY <1>3, <2>1
<1> HIDE DEF advice, new, saved
<1>8. /\ page'.quote = new /\ page'.advice = advice /\ page' \in Pages
  BY <1>4, <1>5, <1>6, <1>7 DEF Pages
<1>9. QED BY <1>6, <1>7, <1>8

LEMMA FinishInv ==
  ASSUME PageInv, NEW j \in Slots, Finish(j)
  PROVE  PageInv'
<1>1. /\ UNCHANGED <<open, nextId, position, quote, save, answers>> /\ busy' = FALSE
      /\ jobs' = [jobs EXCEPT ![j] = Idle] /\ missed' \in BOOLEAN /\ jobs[j].running
  BY Parts DEF Finish, BusyAfter, Settled, server
<1>2. OpenOK' /\ position' \in Nat /\ quote' \in Nat /\ save' \in Saves /\ answers' \subseteq Answers
  BY <1>1, Parts DEF OpenOK
<1>3. /\ jobs' \in [Slots -> Job] /\ jobs'[j] = Idle
      /\ \A i \in Slots : i # j => jobs'[i] = jobs[i]
  BY <1>1, Parts, IdleTyped, JobStep
<1>4. \A i \in Slots : ~jobs'[i].running
  BY <1>1, <1>3, Parts, IdleTyped DEF OneRefresh
<1>5. OneRefresh' /\ busy' = (\E i \in Slots : jobs'[i].running)
  BY <1>1, <1>4 DEF OneRefresh
<1>6. page' \in Pages /\ Prices'
  BY <1>1, <1>4, FinishShows DEF Prices
<1>7. \A a \in Assets : KnownAs(page.advice[a], a)'
  <2> SUFFICES ASSUME NEW a \in Assets PROVE KnownAs(page.advice[a], a)'
    OBVIOUS
  <2>1. page'.advice[a] = jobs[j].got[a] \/ page'.advice[a] = page.advice[a]
    BY FinishShows
  <2>2. KnownAs(jobs[j].got[a], a) /\ KnownAs(page.advice[a], a)
    BY Parts
  <2>3. QED BY <1>1, <2>1, <2>2 DEF KnownAs
<1>8. \A i \in Slots, a \in Assets : KnownAs(jobs[i].got[a], a)'
  <2> SUFFICES ASSUME NEW i \in Slots, NEW a \in Assets PROVE KnownAs(jobs[i].got[a], a)'
    OBVIOUS
  <2>1. jobs'[i].got[a] = 0 \/ jobs'[i].got[a] = jobs[i].got[a]
    BY <1>3, IdleTyped DEF Everything
  <2>2. KnownAs(jobs[i].got[a], a) /\ KnownAs(0, a)
    BY Parts DEF KnownAs, OpenOK
  <2>3. QED BY <1>1, <2>1, <2>2 DEF KnownAs
<1>9. \A q \in answers' : KnownAs(q.id, q.asset)'
  BY <1>1, Parts DEF KnownAs
<1>10. QED BY <1>1, <1>2, <1>3, <1>5, <1>6, <1>7, <1>8, <1>9, Whole

-----------------------------------------------------------------------------
(***************************************************************************)
(* The user.                                                               *)
(***************************************************************************)
LEMMA FollowUpStep ==
  ASSUME PageInv, FollowUp \/ BeginDashboard(FALSE) \/ BeginDashboard(TRUE)
  PROVE  /\ missed' \in BOOLEAN
         /\ \/ UNCHANGED <<jobs, busy>>
            \/ /\ ~busy /\ busy' = TRUE
               /\ \E reads \in SUBSET Everything, post \in BOOLEAN :
                    jobs' = [jobs EXCEPT ![FreeSlot] = Refresh(reads, post)]
<1>1. ASSUME NEW post \in BOOLEAN, BeginDashboard(post)
      PROVE  /\ missed' \in BOOLEAN /\ ~busy /\ busy' = TRUE
             /\ \E reads \in SUBSET Everything, p \in BOOLEAN :
                  jobs' = [jobs EXCEPT ![FreeSlot] = Refresh(reads, p)]
  BY <1>1 DEF BeginDashboard, MayRefresh
<1>2. CASE ~MayRefresh /\ missed' = TRUE /\ UNCHANGED <<jobs, busy>>
  BY <1>2
<1>3. QED BY <1>1, <1>2 DEF FollowUp

LEMMA RefreshInv ==
  ASSUME PageInv, RefreshDashboard \/ RefreshDisplayedPrices
  PROVE  PageInv'
<1>1. CASE RefreshDashboard
  <2>1. BeginDashboard(TRUE) /\ UNCHANGED <<server, page, save, answers>>
    BY <1>1 DEF RefreshDashboard
  <2>2. QED BY <2>1, FollowUpStep, Parts, PageStep DEF server
<1>2. CASE RefreshDisplayedPrices
  <2>1. /\ ~busy /\ busy' = TRUE /\ UNCHANGED <<server, page, save, answers, missed>>
        /\ \E reads \in SUBSET Everything, post \in BOOLEAN :
             jobs' = [jobs EXCEPT ![FreeSlot] = Refresh(reads, post)]
    BY <1>2 DEF RefreshDisplayedPrices, MayRefresh, Everything
  <2>2. QED BY <2>1, Parts, PageStep DEF server
<1>3. QED BY <1>1, <1>2

LEMMA SaveInv ==
  ASSUME PageInv,
         \/ \E lost \in BOOLEAN : PutPortfolio(lost) \/ GetPortfolio(lost)
         \/ HandlePortfolioSaved
  PROVE  PageInv'
<1>1. ASSUME NEW lost \in BOOLEAN, PutPortfolio(lost)
      PROVE  PageInv'
  <2>1. /\ position' \in Nat /\ save' \in Saves /\ missed' \in BOOLEAN
        /\ UNCHANGED <<open, nextId, quote, page, busy, jobs, answers>>
    BY <1>1, Parts DEF PutPortfolio, Saves
  <2>2. QED BY <2>1, Parts, PageStep
<1>2. ASSUME NEW lost \in BOOLEAN, GetPortfolio(lost)
      PROVE  PageInv'
  <2>1. /\ save' \in Saves /\ missed' \in BOOLEAN
        /\ UNCHANGED <<server, page, busy, jobs, answers>>
    BY <1>2, Parts DEF GetPortfolio, Saves
  <2>2. QED BY <2>1, Parts, PageStep DEF server
<1>3. CASE HandlePortfolioSaved
  <2>1. /\ page' = [page EXCEPT !.position = save.read] /\ save' = [pc |-> "idle", read |-> 0]
        /\ FollowUp /\ UNCHANGED <<server, answers>>
    BY <1>3 DEF HandlePortfolioSaved
  <2>2. save.read \in Nat
    BY Parts DEF Saves
  <2>3. /\ page' \in Pages /\ page'.quote = page.quote /\ page'.advice = page.advice
        /\ save' \in Saves
    BY <2>1, <2>2, Parts DEF Pages, Saves
  <2>4. QED BY <2>1, <2>3, FollowUpStep, Parts, PageStep DEF server
<1>4. QED BY <1>1, <1>2, <1>3

LEMMA AnswersInv ==
  ASSUME PageInv,
         \/ \E a \in Assets : ClickAnswer(a)
         \/ \E q \in answers : HandleResolved(q)
  PROVE  PageInv'
<1>1. ASSUME NEW a \in Assets, ClickAnswer(a)
      PROVE  PageInv'
  <2>1. PICK n \in 1..MaxAnswers : answers' = answers \union
          {[n |-> n, id |-> page.advice[a], asset |-> a, done |-> FALSE]}
    BY <1>1 DEF ClickAnswer
  <2>2. n \in Nat
    BY DashboardAssumptions
  <2>3. page.advice[a] \in Nat /\ KnownAs(page.advice[a], a)
    BY Parts
  <2> DEFINE new == [n |-> n, id |-> page.advice[a], asset |-> a, done |-> FALSE]
  <2>4. new \in Answers /\ new.id = page.advice[a] /\ new.asset = a
    BY <2>2, <2>3 DEF Answers
  <2>5. answers' = answers \union {new}
    BY <2>1
  <2> HIDE DEF new
  <2>6. answers' \subseteq Answers /\ \A q \in answers' : KnownAs(q.id, q.asset)
    BY <2>3, <2>4, <2>5, Parts
  <2>7. UNCHANGED <<server, page, busy, jobs, save, missed>>
    BY <1>1 DEF ClickAnswer
  <2>8. QED BY <2>6, <2>7, Parts, PageStep DEF server
<1>2. ASSUME NEW q \in answers, HandleResolved(q)
      PROVE  PageInv'
  <2>1. FollowUp /\ UNCHANGED <<server, page, save>> /\ answers' = answers \ {q}
    BY <1>2 DEF HandleResolved
  <2>2. QED BY <2>1, FollowUpStep, Parts, PageStep DEF server
<1>3. QED BY <1>1, <1>2

\* An answer ends the recommendation it names; the page learns of it later.
LEMMA ResolveInv ==
  ASSUME PageInv, NEW q \in answers, NEW lost \in BOOLEAN, ResolveRecommendation(q, lost)
  PROVE  PageInv'
<1>1. OpenOK' /\ nextId' >= nextId /\ \A r \in open' \ open : r.id >= nextId
  <2>1. CASE \E r \in Named(q) : Server!Answer(r)
    BY <2>1, Parts, AnswerServer DEF Named
  <2>2. CASE UNCHANGED <<open, nextId>>
    BY <2>2, Parts DEF OpenOK
  <2>3. QED BY <2>1, <2>2 DEF ResolveRecommendation
<1>2. \A id \in Nat, a \in Assets : KnownAs(id, a) =>
        id < nextId' /\ \A r \in open' : r.id = id => r.strategy = a
  BY <1>1, Parts, KnownStaysKnown DEF OpenOK
<1>3. /\ UNCHANGED <<position, quote, page, busy, jobs, save>> /\ missed' \in BOOLEAN
      /\ answers' \subseteq (answers \ {q}) \union {[q EXCEPT !.done = TRUE]}
  BY Parts DEF ResolveRecommendation
<1>4. /\ [q EXCEPT !.done = TRUE] \in Answers
      /\ [q EXCEPT !.done = TRUE].id = q.id /\ [q EXCEPT !.done = TRUE].asset = q.asset
  BY Parts DEF Answers
<1>5. answers' \subseteq Answers
  BY <1>3, <1>4, Parts
<1>6. \A p \in answers' : KnownAs(p.id, p.asset)'
  <2> SUFFICES ASSUME NEW p \in answers' PROVE KnownAs(p.id, p.asset)'
    OBVIOUS
  <2>1. PICK old \in answers : p.id = old.id /\ p.asset = old.asset
    BY <1>3, <1>4
  <2>2. old.id \in Nat /\ old.asset \in Assets /\ KnownAs(old.id, old.asset)
    BY Parts
  <2>3. QED BY <1>2, <2>1, <2>2 DEF KnownAs
<1>7. \A a \in Assets : KnownAs(page.advice[a], a)'
  <2> SUFFICES ASSUME NEW a \in Assets PROVE KnownAs(page.advice[a], a)'
    OBVIOUS
  <2>1. page.advice[a] \in Nat /\ KnownAs(page.advice[a], a)
    BY Parts
  <2>2. QED BY <1>2, <1>3, <2>1 DEF KnownAs
<1>8. \A j \in Slots, a \in Assets : KnownAs(jobs[j].got[a], a)'
  <2> SUFFICES ASSUME NEW j \in Slots, NEW a \in Assets PROVE KnownAs(jobs[j].got[a], a)'
    OBVIOUS
  <2>1. jobs[j].got[a] \in Nat /\ KnownAs(jobs[j].got[a], a)
    BY Parts
  <2>2. QED BY <1>2, <1>3, <2>1 DEF KnownAs
<1>9. /\ position' \in Nat /\ quote' \in Nat /\ page' \in Pages /\ jobs' \in [Slots -> Job]
      /\ save' \in Saves /\ busy' = (\E j \in Slots : jobs'[j].running)
      /\ OneRefresh' /\ Prices'
  BY <1>3, Parts DEF OneRefresh, Prices
<1>10. QED BY <1>1, <1>3, <1>5, <1>6, <1>7, <1>8, <1>9, Whole

\* The backend's own refresh: the quote may grow under a refresh in flight.
LEMMA BackgroundInv ==
  ASSUME PageInv, RunBackgroundRefresh
  PROVE  PageInv'
<1>1. /\ quote' \in Nat /\ quote' >= quote
      /\ UNCHANGED <<open, nextId, position, page, busy, jobs, save, answers, missed>>
  BY Parts DEF RunBackgroundRefresh, Quoted
<1>2. Prices'
  <2>1. Prices /\ page.quote \in Nat /\ quote \in Nat
    BY Parts DEF Pages
  <2>2. \A j \in Slots : jobs[j].got["market"] \in Nat
    BY Parts DEF Job, Everything
  <2>3. QED BY <1>1, <2>1, <2>2 DEF Prices
<1>3. /\ OpenOK' /\ position' \in Nat /\ page' \in Pages /\ jobs' \in [Slots -> Job]
      /\ save' \in Saves /\ answers' \subseteq Answers /\ missed' \in BOOLEAN
      /\ busy' = (\E j \in Slots : jobs'[j].running) /\ OneRefresh'
  BY <1>1, Parts DEF OpenOK, OneRefresh
<1>4. /\ \A a \in Assets : KnownAs(page.advice[a], a)'
      /\ \A j \in Slots, a \in Assets : KnownAs(jobs[j].got[a], a)'
      /\ \A q \in answers' : KnownAs(q.id, q.asset)'
  BY <1>1, Parts DEF KnownAs
<1>5. QED BY <1>1, <1>2, <1>3, <1>4, Whole

-----------------------------------------------------------------------------
\* The steps, as the theorems split them.
LEMMA Steps ==
  ASSUME PageInv, Next
  PROVE  \/ RefreshDashboard \/ RefreshDisplayedPrices
         \/ RunBackgroundRefresh
         \/ \E j \in Slots, lost \in BOOLEAN :
              \/ Post(j, lost) \/ ReadPortfolio(j, lost) \/ ReadMarket(j, lost)
              \/ \E a \in Assets : ReadAdvice(j, a, lost)
         \/ \E j \in Slots : Finish(j)
         \/ \/ \E lost \in BOOLEAN : PutPortfolio(lost) \/ GetPortfolio(lost)
            \/ HandlePortfolioSaved
         \/ \/ \E a \in Assets : ClickAnswer(a)
            \/ \E q \in answers : HandleResolved(q)
         \/ \E q \in answers, lost \in BOOLEAN : ResolveRecommendation(q, lost)
<1>1. Lost \subseteq BOOLEAN
  BY DEF Lost
<1>2. QED BY <1>1 DEF Next, Progress

LEMMA NextPage ==
  ASSUME PageInv, Next
  PROVE  PageInv'
BY Steps, RefreshInv, BackgroundInv, RepliesInv, FinishInv, SaveInv, AnswersInv, ResolveInv

\* The flag is set exactly while a refresh runs, one refresh runs at a time,
\* and every id that the page, a reply or an answer names was given out to a
\* recommendation of that asset.
THEOREM PageInvariance == Spec => []PageInv
<1>1. ASSUME PageInv, UNCHANGED vars
      PROVE  PageInv'
  BY <1>1, Parts, PageStep DEF vars
<1>2. QED BY InitPage, NextPage, <1>1, PTL DEF Spec

THEOREM PageTypeCorrect == Spec => []TypeOK
<1>1. PageInv => TypeOK
  BY DEF PageInv
<1>2. QED BY PageInvariance, <1>1, PTL

\* The price on the page never goes back, although the timer, the button and
\* the follow-ups of changes ask for refreshes whose replies take any time.
THEOREM PagePriceGrows == Spec => PriceNeverGoesBack
<1>1. ASSUME PageInv, [Next]_vars
      PROVE  [page'.quote >= page.quote]_vars
  <2>1. page.quote \in Nat
    BY <1>1, Parts DEF Pages
  <2>2. CASE page' = page
    BY <2>1, <2>2
  <2>3. ASSUME NEW j \in Slots, Finish(j)
        PROVE  page'.quote >= page.quote
    BY <1>1, <2>3, FinishShows
  <2>4. CASE HandlePortfolioSaved
    <3>1. page' = [page EXCEPT !.position = save.read] /\ page \in Pages
      BY <1>1, <2>4, Parts DEF HandlePortfolioSaved
    <3>2. QED BY <2>1, <3>1 DEF Pages
  <2>5. CASE UNCHANGED vars
    BY <2>2, <2>5 DEF vars
  <2>6. CASE Next
    <3>1. page' = page \/ HandlePortfolioSaved \/ \E j \in Slots : Finish(j)
      BY <1>1, <2>6, Steps DEF RefreshDashboard, RefreshDisplayedPrices, RunBackgroundRefresh, Post,
         ReadPortfolio, ReadMarket, ReadAdvice, PutPortfolio, GetPortfolio, ClickAnswer,
         HandleResolved, ResolveRecommendation
    <3>2. QED BY <2>2, <2>3, <2>4, <3>1
  <2>7. QED BY <1>1, <2>5, <2>6
<1>2. QED BY PageInvariance, <1>1, PTL DEF Spec, PriceNeverGoesBack

\* An entry or a sale ends only by an answer given on a card of its asset that
\* showed it.  The id of an answer was given out before, so it never names a
\* recommendation that came later, and an evaluation withdraws overrides only.
THEOREM AnswerEndsWhatWasShown == Spec => AnswersWhatWasShown
<1> DEFINE Ended == \A r \in open \ open' : r.kind # "OVERRIDE" =>
                      \E q \in answers : q.id = r.id /\ q.asset = r.strategy
<1>1. ASSUME PageInv, [Next]_vars
      PROVE  Ended
  <2>1. CASE open' = open
    BY <2>1
  <2>2. ASSUME NEW a \in Assets, Evaluate(a)
        PROVE  Ended
    <3>1. \A r \in open \ open' : r \in Server!WaitingFor(a) /\ Server!Withdrawable(a)
      BY <2>2 DEF Evaluate, Server!Advise, Server!Withdraw
    <3>2. QED BY <3>1 DEF Server!Withdrawable
  <2>3. ASSUME NEW q \in answers, NEW lost \in BOOLEAN, ResolveRecommendation(q, lost)
        PROVE  Ended
    <3>1. \A r \in open \ open' : r.id = q.id
      BY <2>3 DEF ResolveRecommendation, Named, Server!Answer
    <3>2. KnownAs(q.id, q.asset)
      BY <1>1, Parts
    <3>3. QED BY <3>1, <3>2 DEF KnownAs
  <2>4. CASE UNCHANGED vars
    BY <2>1, <2>4 DEF vars
  <2>5. CASE Next
    <3>1. \/ open' = open \/ \E a \in Assets : Evaluate(a)
          \/ \E q \in answers, lost \in BOOLEAN : ResolveRecommendation(q, lost)
      BY <1>1, <2>5, Steps DEF RefreshDashboard, RefreshDisplayedPrices, RunBackgroundRefresh, Post,
         ReadPortfolio, ReadMarket, ReadAdvice, Finish, PutPortfolio, GetPortfolio,
         HandlePortfolioSaved, ClickAnswer, HandleResolved, BeginDashboard, server
    <3>2. QED BY <2>1, <2>2, <2>3, <3>1
  <2>6. QED BY <1>1, <2>4, <2>5
<1>2. QED BY PageInvariance, <1>1, PTL DEF Spec, AnswersWhatWasShown

-----------------------------------------------------------------------------
(***************************************************************************)
(* What is on the page once everything has settled.  Of the refreshes js   *)
(* in flight, each that reads x holds its value or has yet to; without one *)
(* the page shows it.                                                      *)
(***************************************************************************)
FreshIn(js, x, value, shown) ==
  /\ \A j \in Slots : js[j].running /\ x \in js[j].reads =>
       x \in js[j].waiting \union js[j].failed \/ js[j].got[x] = value
  /\ (\A j \in Slots : js[j].running => x \notin js[j].reads) => shown = value

Working ==
  \A j \in Slots : jobs[j].waiting \subseteq jobs[j].reads /\ (jobs[j].waiting # {} => jobs[j].running)

NothingAnswered == \A q \in answers : ~q.done

PositionFresh ==
  ~missed /\ save.pc = "idle" => FreshIn(jobs, "portfolio", position, page.position)

AdviceFresh ==
  ~missed /\ NothingAnswered =>
    \A a \in Assets : FreshIn(jobs, a, WaitingId(a), page.advice[a])

QuietInv == PageInv /\ Working /\ PositionFresh /\ AdviceFresh

\* A refresh that begins in a free slot has yet to read what it reads.
LEMMA Begun ==
  ASSUME PageInv, Working, ~busy, NEW reads \in SUBSET Everything, NEW post \in BOOLEAN,
         jobs' = [jobs EXCEPT ![FreeSlot] = Refresh(reads, post)]
  PROVE  /\ Working'
         /\ \A x \in reads : \A value, shown : FreshIn(jobs', x, value, shown)
         /\ \A x \in Everything \ reads : \A value, shown :
              FreshIn(jobs, x, value, shown) => FreshIn(jobs', x, value, shown)
<1>1. FreeSlot \in Slots /\ \A j \in Slots : ~jobs[j].running
  BY Parts, DashboardAssumptions DEF FreeSlot
<1> DEFINE next == Refresh(reads, post)
<1>2. next \in Job /\ next.running /\ next.waiting = reads /\ next.reads = reads
  BY RefreshTyped
<1> HIDE DEF next
<1>3. /\ jobs'[FreeSlot] = next
      /\ \A i \in Slots : i # FreeSlot => jobs'[i] = jobs[i]
  BY <1>1, <1>2, Parts, JobStep DEF next
<1>4. Working'
  BY <1>2, <1>3 DEF Working
<1>5. \A x \in reads : \A value, shown : FreshIn(jobs', x, value, shown)
  BY <1>1, <1>2, <1>3 DEF FreshIn
<1>6. \A x \in Everything \ reads : \A value, shown :
        FreshIn(jobs, x, value, shown) => FreshIn(jobs', x, value, shown)
  BY <1>1, <1>2, <1>3 DEF FreshIn
<1>7. QED BY <1>4, <1>5, <1>6

\* The request of a change: dropped and noted, or everything is read again.
LEMMA FollowedUp ==
  ASSUME PageInv, Working, FollowUp \/ BeginDashboard(TRUE)
  PROVE  /\ Working'
         /\ \/ missed'
            \/ \A x \in Everything : \A value, shown : FreshIn(jobs', x, value, shown)
<1>1. ASSUME NEW post \in BOOLEAN, BeginDashboard(post)
      PROVE  Working' /\ \A x \in Everything : \A value, shown : FreshIn(jobs', x, value, shown)
  <2>1. ~busy /\ jobs' = [jobs EXCEPT ![FreeSlot] = Refresh(Everything, post)]
    BY <1>1 DEF BeginDashboard, MayRefresh
  <2>2. QED BY <2>1, Begun
<1>2. CASE ~MayRefresh /\ missed' = TRUE /\ UNCHANGED <<jobs, busy>>
  BY <1>2 DEF Working
<1>3. QED BY <1>1, <1>2 DEF FollowUp

\* A reply for x leaves the rest as it was, and is x's value of that moment.
LEMMA Replied ==
  ASSUME PageInv, Working, NEW j \in Slots, NEW x \in Everything, NEW value \in Nat,
         NEW lost \in BOOLEAN, Asks(j, x), Settle(j, x, value, lost)
  PROVE  /\ Working'
         /\ \A y \in Everything \ {x} : \A v, shown :
              FreshIn(jobs, y, v, shown) => FreshIn(jobs', y, v, shown)
         /\ \A shown : FreshIn(jobs', x, value, shown)
<1>1. /\ jobs' \in [Slots -> Job]
      /\ \A i \in Slots : i # j => jobs'[i] = jobs[i]
      /\ jobs'[j].running = jobs[j].running /\ jobs'[j].reads = jobs[j].reads
      /\ jobs'[j].waiting = jobs[j].waiting \ {x}
      /\ jobs[j].failed \subseteq jobs'[j].failed
      /\ jobs'[j].got[x] = value \/ x \in jobs'[j].failed
      /\ \A y \in Everything \ {x} : jobs'[j].got[y] = jobs[j].got[y]
  BY Parts, SettleStep
<1>2. jobs[j].running /\ x \in jobs[j].reads /\ OneRefresh
  BY Parts DEF Asks, Working
<1>3. Working'
  BY <1>1 DEF Working
<1>4. \A y \in Everything \ {x} : \A v, shown :
        FreshIn(jobs, y, v, shown) => FreshIn(jobs', y, v, shown)
  <2> SUFFICES ASSUME NEW y \in Everything \ {x}, NEW v, NEW shown, FreshIn(jobs, y, v, shown)
               PROVE  FreshIn(jobs', y, v, shown)
    OBVIOUS
  <2>1. \A i \in Slots : /\ jobs'[i].running = jobs[i].running /\ jobs'[i].reads = jobs[i].reads
                         /\ jobs'[i].got[y] = jobs[i].got[y]
                         /\ y \in jobs[i].waiting \union jobs[i].failed =>
                              y \in jobs'[i].waiting \union jobs'[i].failed
    BY <1>1
  <2>2. QED BY <2>1 DEF FreshIn
<1>5. \A shown : FreshIn(jobs', x, value, shown)
  <2>1. \A i \in Slots : jobs'[i].running => i = j
    BY <1>1, <1>2 DEF OneRefresh
  <2>2. QED BY <1>1, <1>2, <2>1 DEF FreshIn
<1>6. QED BY <1>3, <1>4, <1>5

\* An evaluation of a leaves what waits for the other assets alone.
LEMMA OthersWait ==
  ASSUME NEW a \in Assets, NEW b \in Assets \ {a}, Evaluate(a)
  PROVE  WaitingId(b)' = WaitingId(b)
<1>1. ASSUME NEW kind \in Advised, Server!Advise(a, kind)
      PROVE  Server!WaitingFor(b)' = Server!WaitingFor(b)
  BY <1>1 DEF Server!Advise, Server!WaitingFor
<1>2. ASSUME Server!Withdraw(a)
      PROVE  Server!WaitingFor(b)' = Server!WaitingFor(b)
  <2>1. open' = open \ {r \in open : r.strategy = a}
    BY <1>2 DEF Server!Withdraw, Server!WaitingFor
  <2>2. {r \in open' : r.strategy = b} = {r \in open : r.strategy = b}
    BY <2>1
  <2>3. QED BY <2>2 DEF Server!WaitingFor
<1>3. ASSUME open' = open
      PROVE  Server!WaitingFor(b)' = Server!WaitingFor(b)
  <2>1. {r \in open' : r.strategy = b} = {r \in open : r.strategy = b}
    BY <1>3
  <2>2. QED BY <2>1 DEF Server!WaitingFor
<1>4. Server!WaitingFor(b)' = Server!WaitingFor(b)
  BY <1>1, <1>2, <1>3 DEF Evaluate
<1>5. QED BY <1>4 DEF WaitingId, WaitingIds

\* With the recommendations the same, so is what waits.
LEMMA SameWait ==
  ASSUME open' = open, NEW a \in Assets
  PROVE  WaitingId(a)' = WaitingId(a)
BY DEF WaitingId, WaitingIds, Server!WaitingFor

LEMMA InitQuiet == Init => Working /\ PositionFresh /\ AdviceFresh
<1> SUFFICES ASSUME Init PROVE Working /\ PositionFresh /\ AdviceFresh
  OBVIOUS
<1> DEFINE first == Refresh(Everything, FALSE)
<1>1. FirstSlot \in Slots
  BY DashboardAssumptions DEF FirstSlot
<1>2. /\ ~Idle.running /\ Idle.waiting = {} /\ Idle.reads = {}
      /\ first.running /\ first.waiting = Everything /\ first.reads = Everything
  BY RefreshTyped DEF Idle
<1> HIDE DEF first
<1>3. \A j \in Slots : jobs[j] = IF j = FirstSlot THEN first ELSE Idle
  BY DEF Init, first
<1>4. Working
  BY <1>2, <1>3 DEF Working
<1>5. \A x \in Everything : \A value, shown : FreshIn(jobs, x, value, shown)
  BY <1>1, <1>2, <1>3 DEF FreshIn
<1>6. QED BY <1>4, <1>5 DEF PositionFresh, AdviceFresh, Everything

LEMMA RepliesQuiet ==
  ASSUME QuietInv, NEW j \in Slots, NEW lost \in BOOLEAN,
         \/ Post(j, lost) \/ ReadPortfolio(j, lost) \/ ReadMarket(j, lost)
         \/ \E a \in Assets : ReadAdvice(j, a, lost)
  PROVE  Working' /\ PositionFresh' /\ AdviceFresh'
<1>1. /\ PageInv /\ Working /\ PositionFresh /\ AdviceFresh
      /\ "portfolio" \in Everything /\ "market" \in Everything /\ Assets \subseteq Everything
      /\ "portfolio" \notin Assets /\ "market" \notin Assets
  BY DashboardAssumptions DEF QuietInv, Everything
<1>2. ASSUME UNCHANGED <<position, page, save, answers, missed, open>>, Working',
             \A x \in Everything \ {"market"} : \A value, shown :
               FreshIn(jobs, x, value, shown) => FreshIn(jobs', x, value, shown)
      PROVE  Working' /\ PositionFresh' /\ AdviceFresh'
  <2>1. PositionFresh'
    BY <1>1, <1>2 DEF PositionFresh
  <2>2. AdviceFresh'
    BY <1>1, <1>2, SameWait DEF AdviceFresh, NothingAnswered
  <2>3. QED BY <1>2, <2>1, <2>2
<1>3. CASE Post(j, lost)
  <2> DEFINE next == [jobs[j] EXCEPT
         !.posting = FALSE, !.failed = IF lost THEN jobs[j].failed \union {"post"} ELSE jobs[j].failed]
  <2>1. /\ next \in Job /\ next.running = jobs[j].running /\ next.reads = jobs[j].reads
        /\ next.got = jobs[j].got /\ next.waiting = jobs[j].waiting
        /\ jobs[j].failed \subseteq next.failed
    BY Parts, <1>1 DEF Job
  <2>2. jobs' = [jobs EXCEPT ![j] = next]
    BY <1>3 DEF Post
  <2> HIDE DEF next
  <2>3. jobs'[j] = next /\ \A i \in Slots : i # j => jobs'[i] = jobs[i]
    BY <1>1, Parts, <2>1, <2>2, JobStep
  <2>4. Working'
    BY <1>1, <2>1, <2>3 DEF Working
  <2>5. \A x \in Everything : \A value, shown :
          FreshIn(jobs, x, value, shown) => FreshIn(jobs', x, value, shown)
    <3>1. \A i \in Slots : /\ jobs'[i].running = jobs[i].running /\ jobs'[i].reads = jobs[i].reads
                           /\ jobs'[i].got = jobs[i].got /\ jobs'[i].waiting = jobs[i].waiting
                           /\ jobs[i].failed \subseteq jobs'[i].failed
      BY <2>1, <2>3
    <3>2. QED BY <3>1 DEF FreshIn
  <2>6. UNCHANGED <<position, page, save, answers, missed, open>>
    BY <1>3 DEF Post
  <2>7. QED BY <1>2, <2>4, <2>5, <2>6
<1>4. CASE ReadMarket(j, lost)
  <2>1. /\ Asks(j, "market") /\ Settle(j, "market", quote, lost) /\ quote \in Nat
        /\ UNCHANGED <<position, page, save, answers, missed, open>>
    BY <1>1, <1>4, Parts DEF ReadMarket, server
  <2>2. QED BY <1>1, <1>2, <2>1, Replied
<1>5. CASE ReadPortfolio(j, lost)
  <2>1. /\ Asks(j, "portfolio") /\ Settle(j, "portfolio", position, lost) /\ position \in Nat
        /\ UNCHANGED <<position, page, save, answers, missed, open>>
    BY <1>1, <1>5, Parts DEF ReadPortfolio, server
  <2>2. /\ Working' /\ FreshIn(jobs', "portfolio", position, page.position)
        /\ \A y \in Assets : \A v, shown :
             FreshIn(jobs, y, v, shown) => FreshIn(jobs', y, v, shown)
    BY <1>1, <2>1, Replied
  <2>3. PositionFresh'
    BY <2>1, <2>2 DEF PositionFresh
  <2>4. AdviceFresh'
    BY <1>1, <2>1, <2>2, SameWait DEF AdviceFresh, NothingAnswered
  <2>5. QED BY <2>2, <2>3, <2>4
<1>6. ASSUME NEW a \in Assets, ReadAdvice(j, a, lost)
      PROVE  Working' /\ PositionFresh' /\ AdviceFresh'
  <2>1. /\ Asks(j, a) /\ Evaluate(a) /\ Settle(j, a, WaitingId(a)', lost)
        /\ UNCHANGED <<position, page, save, answers, missed>>
    BY <1>6 DEF ReadAdvice
  <2>2. WaitingId(a)' \in Nat
    BY <1>1, <2>1, Parts, EvaluateServer, WaitingKnown
  <2>3. /\ Working' /\ \A shown : FreshIn(jobs', a, WaitingId(a)', shown)
        /\ \A y \in Everything \ {a} : \A v, shown :
             FreshIn(jobs, y, v, shown) => FreshIn(jobs', y, v, shown)
    BY <1>1, <2>1, <2>2, Replied
  <2>4. PositionFresh'
    BY <1>1, <2>1, <2>3 DEF PositionFresh
  <2>5. ASSUME ~missed, NothingAnswered, NEW b \in Assets
        PROVE  FreshIn(jobs', b, WaitingId(b)', page.advice[b])
    <3>1. CASE b = a
      BY <2>3, <3>1
    <3>2. CASE b # a
      <4>1. FreshIn(jobs, b, WaitingId(b), page.advice[b])
        BY <1>1, <2>5 DEF AdviceFresh
      <4>2. WaitingId(b)' = WaitingId(b)
        BY <2>1, <3>2, OthersWait
      <4>3. QED BY <1>1, <2>3, <3>2, <4>1, <4>2
    <3>3. QED BY <3>1, <3>2
  <2>6. AdviceFresh'
    BY <2>1, <2>5 DEF AdviceFresh, NothingAnswered
  <2>7. QED BY <2>3, <2>4, <2>6
<1>7. QED BY <1>3, <1>4, <1>5, <1>6

LEMMA FinishQuiet ==
  ASSUME QuietInv, NEW j \in Slots, Finish(j)
  PROVE  Working' /\ PositionFresh' /\ AdviceFresh'
<1>1. /\ PageInv /\ Working /\ PositionFresh /\ AdviceFresh /\ OneRefresh
      /\ page \in Pages /\ jobs[j] \in Job
  BY Parts DEF QuietInv
<1>2. /\ jobs[j].running /\ jobs[j].waiting = {} /\ page' = Shown(j)
      /\ UNCHANGED <<open, position, save, answers>> /\ jobs' = [jobs EXCEPT ![j] = Idle]
      /\ missed' = (missed \/ jobs[j].failed # {})
  BY DEF Finish, Settled, server
<1>3. jobs'[j] = Idle /\ \A i \in Slots : i # j => jobs'[i] = jobs[i]
  BY <1>1, <1>2, Parts, IdleTyped, JobStep
<1>4. \A i \in Slots : ~jobs'[i].running /\ (i # j => ~jobs[i].running)
  BY <1>1, <1>2, <1>3, IdleTyped DEF OneRefresh
<1>5. Working'
  BY <1>1, <1>3 DEF Working, Idle
<1>6. ASSUME NEW x \in Everything, NEW value, NEW shown, FreshIn(jobs, x, value, shown),
             jobs[j].failed = {}
      PROVE  /\ x \in jobs[j].reads => jobs[j].got[x] = value
             /\ x \notin jobs[j].reads => shown = value
             /\ FreshIn(jobs', x, value, value)
  <2>1. x \in jobs[j].reads => jobs[j].got[x] = value
    BY <1>2, <1>6 DEF FreshIn
  <2>2. x \notin jobs[j].reads => shown = value
    BY <1>4, <1>6 DEF FreshIn
  <2>3. FreshIn(jobs', x, value, value)
    BY <1>4 DEF FreshIn
  <2>4. QED BY <2>1, <2>2, <2>3
<1>7. ASSUME jobs[j].failed = {}
      PROVE  /\ page'.position = IF "portfolio" \in jobs[j].reads THEN jobs[j].got["portfolio"]
                                                                  ELSE page.position
             /\ \A a \in Assets : page'.advice[a] = IF a \in jobs[j].reads THEN jobs[j].got[a]
                                                                          ELSE page.advice[a]
  BY <1>2, <1>7 DEF Shown
<1>8. PositionFresh'
  <2> SUFFICES ASSUME ~missed, jobs[j].failed = {}, save.pc = "idle"
               PROVE  FreshIn(jobs', "portfolio", position, page'.position)
    BY <1>2 DEF PositionFresh
  <2>1. FreshIn(jobs, "portfolio", position, page.position) /\ "portfolio" \in Everything
    BY <1>1 DEF PositionFresh, Everything
  <2>2. page'.position = position
    BY <1>6, <1>7, <2>1
  <2>3. QED BY <1>6, <2>1, <2>2
<1>9. AdviceFresh'
  <2> SUFFICES ASSUME ~missed, jobs[j].failed = {}, NothingAnswered, NEW a \in Assets
               PROVE  FreshIn(jobs', a, WaitingId(a), page'.advice[a])
    BY <1>2, SameWait DEF AdviceFresh, NothingAnswered
  <2>1. FreshIn(jobs, a, WaitingId(a), page.advice[a]) /\ a \in Everything
    BY <1>1 DEF AdviceFresh, Everything
  <2>2. page'.advice[a] = WaitingId(a)
    BY <1>6, <1>7, <2>1
  <2>3. QED BY <1>6, <2>1, <2>2
<1>10. QED BY <1>5, <1>8, <1>9

\* A step that keeps what waits and is stored, and may begin a refresh.
LEMMA RefreshQuiet ==
  ASSUME QuietInv, RefreshDashboard \/ RefreshDisplayedPrices \/ RunBackgroundRefresh
  PROVE  Working' /\ PositionFresh' /\ AdviceFresh'
<1>1. /\ PageInv /\ Working /\ PositionFresh /\ AdviceFresh
      /\ "portfolio" \in Everything /\ "market" \in Everything /\ Assets \subseteq Everything
      /\ "portfolio" \notin Assets /\ "market" \notin Assets
  BY DashboardAssumptions DEF QuietInv, Everything
<1>2. UNCHANGED <<open, position, page, save, answers>>
  BY DEF RefreshDashboard, RefreshDisplayedPrices, RunBackgroundRefresh, server
<1>3. CASE RefreshDashboard
  <2>1. /\ Working'
        /\ \/ missed'
           \/ \A x \in Everything : \A value, shown : FreshIn(jobs', x, value, shown)
    BY <1>1, <1>3, FollowedUp DEF RefreshDashboard
  <2>2. QED BY <1>1, <2>1 DEF PositionFresh, AdviceFresh
<1>4. ASSUME missed' = missed, Working',
             \A x \in Everything \ {"market"} : \A value, shown :
               FreshIn(jobs, x, value, shown) => FreshIn(jobs', x, value, shown)
      PROVE  Working' /\ PositionFresh' /\ AdviceFresh'
  <2>1. PositionFresh'
    BY <1>1, <1>2, <1>4 DEF PositionFresh
  <2>2. AdviceFresh'
    BY <1>1, <1>2, <1>4, SameWait DEF AdviceFresh, NothingAnswered
  <2>3. QED BY <1>4, <2>1, <2>2
<1>5. CASE RefreshDisplayedPrices
  <2>1. ~busy /\ missed' = missed /\ jobs' = [jobs EXCEPT ![FreeSlot] = Refresh({"market"}, TRUE)]
    BY <1>5 DEF RefreshDisplayedPrices, MayRefresh
  <2>2. QED BY <1>1, <1>4, <2>1, Begun
<1>6. CASE RunBackgroundRefresh
  <2>1. missed' = missed /\ jobs' = jobs
    BY <1>6 DEF RunBackgroundRefresh
  <2>2. QED BY <1>1, <1>4, <2>1 DEF Working
<1>7. QED BY <1>3, <1>5, <1>6

LEMMA SaveQuiet ==
  ASSUME QuietInv,
         \/ \E lost \in BOOLEAN : PutPortfolio(lost) \/ GetPortfolio(lost)
         \/ HandlePortfolioSaved
  PROVE  Working' /\ PositionFresh' /\ AdviceFresh'
<1>1. /\ PageInv /\ Working /\ PositionFresh /\ AdviceFresh
      /\ "portfolio" \in Everything /\ Assets \subseteq Everything
  BY DEF QuietInv, Everything
<1>2. ASSUME NEW lost \in BOOLEAN, PutPortfolio(lost) \/ GetPortfolio(lost)
      PROVE  Working' /\ PositionFresh' /\ AdviceFresh'
  <2>1. /\ UNCHANGED <<open, page, jobs, answers>> /\ missed' = (missed \/ lost)
        /\ save'.pc # "idle" \/ lost
    BY <1>2, Parts, <1>1 DEF PutPortfolio, GetPortfolio, server, Saves
  <2>2. Working'
    BY <1>1, <2>1 DEF Working
  <2>3. PositionFresh'
    BY <2>1 DEF PositionFresh
  <2>4. AdviceFresh'
    BY <1>1, <2>1, SameWait DEF AdviceFresh, NothingAnswered
  <2>5. QED BY <2>2, <2>3, <2>4
<1>3. CASE HandlePortfolioSaved
  <2>1. /\ Working'
        /\ \/ missed'
           \/ \A x \in Everything : \A value, shown : FreshIn(jobs', x, value, shown)
    BY <1>1, <1>3, FollowedUp DEF HandlePortfolioSaved
  <2>2. QED BY <1>1, <2>1 DEF PositionFresh, AdviceFresh
<1>4. QED BY <1>2, <1>3

LEMMA AnswersQuiet ==
  ASSUME QuietInv,
         \/ \E a \in Assets : ClickAnswer(a)
         \/ \E q \in answers : HandleResolved(q)
         \/ \E q \in answers, lost \in BOOLEAN : ResolveRecommendation(q, lost)
  PROVE  Working' /\ PositionFresh' /\ AdviceFresh'
<1>1. /\ PageInv /\ Working /\ PositionFresh /\ AdviceFresh
      /\ "portfolio" \in Everything /\ Assets \subseteq Everything
  BY DEF QuietInv, Everything
<1>2. ASSUME UNCHANGED <<position, page, save, jobs>>, missed => missed',
             ~missed' /\ NothingAnswered' => NothingAnswered /\ open' = open
      PROVE  Working' /\ PositionFresh' /\ AdviceFresh'
  <2>1. Working' /\ PositionFresh'
    BY <1>1, <1>2 DEF Working, PositionFresh
  <2>2. AdviceFresh'
    BY <1>1, <1>2, SameWait DEF AdviceFresh
  <2>3. QED BY <2>1, <2>2
<1>3. ASSUME NEW a \in Assets, ClickAnswer(a)
      PROVE  Working' /\ PositionFresh' /\ AdviceFresh'
  <2>1. UNCHANGED <<open, position, page, save, jobs, missed>> /\ answers \subseteq answers'
    BY <1>3 DEF ClickAnswer, server
  <2>2. NothingAnswered' => NothingAnswered
    BY <2>1 DEF NothingAnswered
  <2>3. QED BY <1>2, <2>1, <2>2
<1>4. ASSUME NEW q \in answers, HandleResolved(q)
      PROVE  Working' /\ PositionFresh' /\ AdviceFresh'
  <2>1. /\ Working'
        /\ \/ missed'
           \/ \A x \in Everything : \A value, shown : FreshIn(jobs', x, value, shown)
    BY <1>1, <1>4, FollowedUp DEF HandleResolved
  <2>2. QED BY <1>1, <2>1 DEF PositionFresh, AdviceFresh
<1>5. ASSUME NEW q \in answers, NEW lost \in BOOLEAN, ResolveRecommendation(q, lost)
      PROVE  Working' /\ PositionFresh' /\ AdviceFresh'
  <2>1. /\ UNCHANGED <<position, page, save, jobs>> /\ missed' = (missed \/ lost) /\ ~q.done
    BY <1>5 DEF ResolveRecommendation
  <2>2. CASE lost
    BY <1>2, <2>1, <2>2
  <2>3. CASE ~lost /\ Named(q) = {}
    <3>1. open' = open /\ answers' = answers \ {q}
      BY <1>5, <2>3 DEF ResolveRecommendation
    <3>2. NothingAnswered' => NothingAnswered
      BY <2>1, <3>1 DEF NothingAnswered
    <3>3. QED BY <1>2, <2>1, <3>1, <3>2
  <2>4. CASE ~lost /\ Named(q) # {}
    <3>1. [q EXCEPT !.done = TRUE] \in answers'
      BY <1>5, <2>4 DEF ResolveRecommendation
    <3>2. q \in Answers
      BY <1>1, Parts
    <3>3. [q EXCEPT !.done = TRUE].done
      BY <3>2 DEF Answers
    <3>4. ~NothingAnswered'
      BY <3>1, <3>3 DEF NothingAnswered
    <3>5. QED BY <1>2, <2>1, <3>4
  <2>5. QED BY <2>2, <2>3, <2>4
<1>6. QED BY <1>3, <1>4, <1>5

\* Once everything has settled, and unless a refresh that a change asked for
\* was dropped or did not get every reply, the page shows the saved position
\* and what waits for each asset.
THEOREM QuietPageCurrent == Spec => []QuietPageIsCurrent
<1>1. Init => QuietInv
  BY InitPage, InitQuiet DEF QuietInv
<1>2. ASSUME QuietInv, [Next]_vars
      PROVE  QuietInv'
  <2>1. PageInv
    BY <1>2 DEF QuietInv
  <2>2. CASE UNCHANGED vars
    <3>1. PageInv'
      BY <2>1, <2>2, Parts, PageStep DEF vars
    <3>2. Working' /\ PositionFresh' /\ AdviceFresh'
      BY <1>2, <2>2, SameWait DEF vars, QuietInv, Working, PositionFresh, AdviceFresh, NothingAnswered
    <3>3. QED BY <3>1, <3>2 DEF QuietInv
  <2>3. CASE Next
    <3>1. PageInv'
      BY <2>1, <2>3, NextPage
    <3>2. Working' /\ PositionFresh' /\ AdviceFresh'
      BY <1>2, <2>1, <2>3, Steps, RepliesQuiet, FinishQuiet, RefreshQuiet, SaveQuiet, AnswersQuiet
    <3>3. QED BY <3>1, <3>2 DEF QuietInv
  <2>4. QED BY <1>2, <2>2, <2>3
<1>3. ASSUME QuietInv
      PROVE  QuietPageIsCurrent
  <2> SUFFICES ASSUME Quiet, ~missed
               PROVE  page.position = position /\ \A a \in Assets : page.advice[a] = WaitingId(a)
    BY DEF QuietPageIsCurrent
  <2>1. /\ \A j \in Slots : ~jobs[j].running
        /\ FreshIn(jobs, "portfolio", position, page.position)
        /\ \A a \in Assets : FreshIn(jobs, a, WaitingId(a), page.advice[a])
    BY <1>3, Parts DEF QuietInv, Quiet, PositionFresh, AdviceFresh, NothingAnswered
  <2>2. QED BY <2>1 DEF FreshIn
<1>4. QED BY <1>1, <1>2, <1>3, PTL DEF Spec

-----------------------------------------------------------------------------
(***************************************************************************)
(* What the page relies on: its server is an advisor, one recommendation   *)
(* waits per asset, and a refresh only goes on to its end.                 *)
(***************************************************************************)
\* To the server the page's requests are evaluations and answers: reads of the
\* portfolio and the market, saves, dropped refreshes and lost replies change
\* none of the recommendations, and a refused answer changes nothing.
THEOREM ServerIsAdvisor == Spec => Server!LifeSpec
<1>1. Init => Server!LifeInit
  BY DEF Init
<1>2. ASSUME PageInv, [Next]_vars
      PROVE  [Server!LifeNext]_<<open, nextId>>
  <2>1. ASSUME NEW a \in Assets, Evaluate(a)
        PROVE  [Server!LifeNext]_<<open, nextId>>
    <3>1. \A kind \in Advised : kind \in Server!Kinds
      BY DashboardAssumptions
    <3>2. QED BY <2>1, <3>1 DEF Evaluate, Server!LifeNext
  <2>2. ASSUME NEW q \in answers, NEW lost \in BOOLEAN, ResolveRecommendation(q, lost)
        PROVE  [Server!LifeNext]_<<open, nextId>>
    <3>1. CASE \E r \in Named(q) : Server!Answer(r)
      BY <3>1 DEF Named, Server!LifeNext
    <3>2. QED BY <2>2, <3>1 DEF ResolveRecommendation
  <2>3. CASE Next
    <3>1. \/ UNCHANGED <<open, nextId>> \/ \E a \in Assets : Evaluate(a)
          \/ \E q \in answers, lost \in BOOLEAN : ResolveRecommendation(q, lost)
      BY <1>2, <2>3, Steps DEF RefreshDashboard, RefreshDisplayedPrices, RunBackgroundRefresh, Post,
         ReadPortfolio, ReadMarket, ReadAdvice, Finish, PutPortfolio, GetPortfolio,
         HandlePortfolioSaved, ClickAnswer, HandleResolved, BeginDashboard, server
    <3>2. QED BY <2>1, <2>2, <3>1
  <2>4. QED BY <1>2, <2>3 DEF vars
<1>3. QED BY PageInvariance, <1>1, <1>2, PTL DEF Spec, Server!LifeSpec, Server!lifeVars

\* A card shows all that waits for its asset: there is one recommendation at a
\* time, and no two share an id, so an answer names one.
THEOREM OneWaitsPerAsset == Spec => []Server!OneOpenPerStrategy
<1>1. Init => Server!OneOpenPerStrategy
  BY DEF Init, Server!LifeInit, Server!OneOpenPerStrategy
<1>2. ASSUME PageInv, Server!OneOpenPerStrategy, [Server!LifeNext]_<<open, nextId>>
      PROVE  Server!OneOpenPerStrategy'
  <2>1. CASE open' \subseteq open
    BY <1>2, <2>1 DEF Server!OneOpenPerStrategy
  <2>2. ASSUME NEW a \in Assets, NEW kind \in Server!Kinds, Server!Advise(a, kind)
        PROVE  Server!OneOpenPerStrategy'
    <3> DEFINE new == [id |-> nextId, strategy |-> a, kind |-> kind]
    <3>1. open' = (open \ Server!WaitingFor(a)) \union {new}
      BY <2>2 DEF Server!Advise
    <3>2. new.id = nextId /\ new.strategy = a
      OBVIOUS
    <3> HIDE DEF new
    <3>3. \A r \in open : r.id \in Nat /\ r.id < nextId /\ nextId \in Nat
      BY <1>2, Parts DEF OpenOK, Server!Recommendations
    <3>4. ASSUME NEW r \in open', r # new
          PROVE  r \in open /\ r.strategy # a /\ r.id # nextId
      <4>1. r \in open /\ r \notin Server!WaitingFor(a)
        BY <3>1, <3>4
      <4>2. r.strategy # a
        BY <4>1 DEF Server!WaitingFor
      <4>3. r.id # nextId
        BY <3>3, <4>1
      <4>4. QED BY <4>1, <4>2, <4>3
    <3>5. \A r, q \in open : r.strategy = q.strategy \/ r.id = q.id => r = q
      BY <1>2 DEF Server!OneOpenPerStrategy
    <3>6. ASSUME NEW r \in open', NEW q \in open', r.strategy = q.strategy \/ r.id = q.id
          PROVE  r = q
      <4>1. CASE r \in open /\ q \in open
        BY <3>5, <3>6, <4>1
      <4>2. CASE r = new \/ q = new
        BY <3>2, <3>4, <3>6, <4>2
      <4>3. QED BY <3>4, <4>1, <4>2
    <3>7. QED BY <3>6 DEF Server!OneOpenPerStrategy
  <2>3. CASE (\E a \in Assets : Server!Withdraw(a)) \/ \E r \in open : Server!Answer(r)
    BY <2>1, <2>3 DEF Server!Withdraw, Server!Answer
  <2>4. QED BY <1>2, <2>1, <2>2, <2>3 DEF Server!LifeNext
<1>3. QED BY PageInvariance, ServerIsAdvisor, <1>1, <1>2, PTL
          DEF Spec, Server!LifeSpec, Server!lifeVars

\* The part of RefreshEnds that needs no fairness.  A refresh in flight posts
\* once, hears each reply once, then shows them and lowers the flag; nothing
\* else, neither the user nor the timer nor the server, restarts it or gives it
\* more to wait for.
Advances(j) ==
  \/ jobs[j].posting /\ ~jobs'[j].posting /\ jobs'[j].waiting = jobs[j].waiting
  \/ /\ jobs'[j].posting = jobs[j].posting
     /\ jobs'[j].waiting \subseteq jobs[j].waiting /\ jobs'[j].waiting # jobs[j].waiting

GoesOn(j) ==
  \/ jobs'[j] = jobs[j]
  \/ jobs'[j].running /\ Advances(j)
  \/ ~jobs'[j].running /\ ~busy'

RefreshAdvances ==
  [][\A j \in Slots : jobs[j].running =>
       GoesOn(j) /\ (Progress(j) => jobs'[j] # jobs[j])]_vars

\* Each reply is heard once: it leaves what the job waits for.
LEMMA ReplyAdvances ==
  ASSUME jobs \in [Slots -> Job], NEW j \in Slots, NEW x \in Everything,
         NEW value \in Nat, NEW lost \in BOOLEAN, Asks(j, x), Settle(j, x, value, lost)
  PROVE  /\ jobs'[j].running = jobs[j].running /\ Advances(j) /\ jobs'[j] # jobs[j]
         /\ \A i \in Slots : i # j => jobs'[i] = jobs[i]
<1>1. /\ jobs'[j].running = jobs[j].running /\ jobs'[j].posting = jobs[j].posting
      /\ jobs'[j].waiting = jobs[j].waiting \ {x}
      /\ \A i \in Slots : i # j => jobs'[i] = jobs[i]
  BY SettleStep
<1>2. x \in jobs[j].waiting
  BY DEF Asks
<1>3. QED BY <1>1, <1>2 DEF Advances

\* A step of a refresh brings it nearer to its end, or ends it and lowers the
\* flag, and touches no other job.
LEMMA ProgressStep ==
  ASSUME PageInv, NEW j \in Slots, Progress(j), jobs[j].running
  PROVE  /\ jobs'[j] # jobs[j]
         /\ GoesOn(j)
         /\ \A i \in Slots : i # j => jobs'[i] = jobs[i]
<1>1. jobs \in [Slots -> Job] /\ jobs[j] \in Job /\ Lost \subseteq BOOLEAN
  BY Parts DEF Lost
<1>2. ASSUME NEW lost \in BOOLEAN, Post(j, lost)
      PROVE  /\ jobs'[j].running /\ Advances(j) /\ jobs'[j] # jobs[j]
             /\ \A i \in Slots : i # j => jobs'[i] = jobs[i]
  <2> DEFINE next == [jobs[j] EXCEPT
        !.posting = FALSE,
        !.failed = IF lost THEN jobs[j].failed \union {"post"} ELSE jobs[j].failed]
  <2>1. jobs[j].posting /\ jobs' = [jobs EXCEPT ![j] = next]
    BY <1>2 DEF Post
  <2>2. /\ next \in Job /\ ~next.posting /\ next.running = jobs[j].running
        /\ next.waiting = jobs[j].waiting
    BY <1>1 DEF Job
  <2> HIDE DEF next
  <2>3. jobs'[j] = next /\ \A i \in Slots : i # j => jobs'[i] = jobs[i]
    BY <1>1, <2>1, <2>2, JobStep
  <2>4. QED BY <2>1, <2>2, <2>3 DEF Advances
<1>3. ASSUME NEW lost \in BOOLEAN, NEW x \in Everything, NEW value \in Nat,
             Asks(j, x), Settle(j, x, value, lost)
      PROVE  /\ jobs'[j].running /\ Advances(j) /\ jobs'[j] # jobs[j]
             /\ \A i \in Slots : i # j => jobs'[i] = jobs[i]
  BY <1>1, <1>3, ReplyAdvances
<1>4. ASSUME NEW lost \in BOOLEAN,
             \/ ReadPortfolio(j, lost) \/ ReadMarket(j, lost)
             \/ \E a \in Assets : ReadAdvice(j, a, lost)
      PROVE  \E x \in Everything, value \in Nat : Asks(j, x) /\ Settle(j, x, value, lost)
  <2>1. position \in Nat /\ quote \in Nat /\ OpenOK
    BY Parts
  <2>2. ASSUME NEW a \in Assets, ReadAdvice(j, a, lost)
        PROVE  WaitingId(a)' \in Nat
    <3>1. OpenOK'
      BY <2>1, <2>2, EvaluateServer DEF ReadAdvice
    <3>2. QED BY <3>1, WaitingKnown
  <2>3. {"portfolio", "market"} \union Assets = Everything
    BY DEF Everything
  <2>4. QED BY <1>4, <2>1, <2>2, <2>3 DEF ReadPortfolio, ReadMarket, ReadAdvice
<1>5. CASE Finish(j)
  <2>1. /\ jobs'[j] = Idle /\ \A i \in Slots : i # j => jobs'[i] = jobs[i]
    BY <1>1, <1>5, IdleTyped, JobStep DEF Finish
  <2>2. QED BY <1>5, <2>1, IdleTyped DEF Finish, BusyAfter, GoesOn
<1>6. QED BY <1>1, <1>2, <1>3, <1>4, <1>5 DEF Progress, GoesOn

\* With fairness only the scheduling is left to assume: every refresh has as
\* many steps before it as it sent requests, one more to post and one to show.
THEOREM RefreshGoesOn == Spec => RefreshAdvances
<1> DEFINE Steady == \A j \in Slots : jobs[j].running =>
                       GoesOn(j) /\ (Progress(j) => jobs'[j] # jobs[j])
<1>1. ASSUME PageInv, [Next]_vars
      PROVE  Steady
  <2> SUFFICES ASSUME NEW j \in Slots, jobs[j].running
               PROVE  GoesOn(j)
    BY <1>1, ProgressStep
  <2>1. CASE jobs' = jobs
    BY <2>1 DEF GoesOn
  <2>2. ASSUME NEW i \in Slots, Progress(i)
        PROVE  GoesOn(j)
    <3>1. CASE i = j
      BY <1>1, <2>2, <3>1, ProgressStep
    <3>2. CASE i # j
      <4>1. /\ jobs \in [Slots -> Job]
            /\ \E next : jobs' = [jobs EXCEPT ![i] = next]
        BY <1>1, <2>2, Parts DEF Progress, Post, ReadPortfolio, ReadMarket, ReadAdvice, Settle, Finish
      <4>2. QED BY <3>2, <4>1 DEF GoesOn
    <3>3. QED BY <3>1, <3>2
  <2>3. busy
    BY <1>1, Parts
  <2>4. CASE Next
    <3>1. jobs' = jobs \/ \E i \in Slots : Progress(i)
      BY <2>3, <2>4 DEF Next, RefreshDashboard, RefreshDisplayedPrices, RunBackgroundRefresh,
         PutPortfolio, GetPortfolio, HandlePortfolioSaved, ClickAnswer, HandleResolved,
         ResolveRecommendation, FollowUp, BeginDashboard, MayRefresh
    <3>2. QED BY <2>1, <2>2, <3>1
  <2>5. QED BY <1>1, <2>1, <2>4 DEF vars
<1>2. QED BY PageInvariance, <1>1, PTL DEF Spec, RefreshAdvances
=============================================================================
