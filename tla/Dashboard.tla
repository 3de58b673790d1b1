----------------------------- MODULE Dashboard -----------------------------
(***************************************************************************)
(* The page (frontend/src/App.tsx) against the server it reads.  A refresh *)
(* of the whole dashboard or of the prices sends its requests together and *)
(* updates the page when all have settled; one flag lets one refresh run   *)
(* at a time and drops the others.  Saving the portfolio and answering a   *)
(* recommendation are requests of their own that ask for a refresh when    *)
(* they are done.  The server is the abstract life of the recommendations  *)
(* (one strategy per asset is selected), the saved position and the quote. *)
(* A position is named by how many saves came before it and a quote by how *)
(* many were stored before it.                                             *)
(***************************************************************************)
EXTENDS Naturals, FiniteSets

CONSTANTS
  Assets,
  Slots,       \* refreshes the browser could have in flight
  Advised,     \* kinds of recommendation the rules come up with
  MayFail,     \* whether a request may fail or its answer be lost
  MaxRecs,     \* bounds: recommendations, saves of the portfolio, quotes,
  MaxSaves,    \* and answers in flight at once
  MaxQuotes,
  MaxAnswers

VARIABLES
  open, nextId,  \* server: see RecommendationLife
  position,      \* server: the portfolio row
  quote,         \* server: the market snapshot
  page,          \* what the page shows
  busy,          \* dashboardRefreshInProgress
  jobs,          \* the refreshes in flight
  save,          \* the save of the portfolio form
  answers,       \* the answers in flight
  missed         \* history: a refresh that a change asked for did not run, or
                 \* the last one did not get every reply

vars == <<open, nextId, position, quote, page, busy, jobs, save, answers, missed>>

server == <<open, nextId, position, quote>>

Server == INSTANCE RecommendationLife WITH Strategies <- Assets

ASSUME DashboardAssumptions ==
  /\ Assets \subseteq STRING /\ Assets \intersect {"portfolio", "market"} = {}
  /\ Slots # {}
  /\ Advised \subseteq Server!Kinds
  /\ MayFail \in BOOLEAN
  /\ MaxRecs \in Nat /\ MaxSaves \in Nat /\ MaxQuotes \in Nat /\ MaxAnswers \in Nat

\* What is fetched: the portfolio, the market (snapshots and history of both
\* assets) and the advice of each asset, which is an evaluation.
Everything == {"portfolio", "market"} \union Assets

Idle == [running |-> FALSE, posting |-> FALSE, reads |-> {}, waiting |-> {},
         failed |-> {}, got |-> [x \in Everything |-> 0]]

\* A refresh may begin by posting a market or price refresh.
Refresh(reads, post) ==
  [Idle EXCEPT !.running = TRUE, !.posting = post, !.reads = reads, !.waiting = reads]

FirstSlot == CHOOSE j \in Slots : TRUE

FreeSlot == CHOOSE j \in Slots : ~jobs[j].running

WaitingIds(a) == {r.id : r \in Server!WaitingFor(a)}

\* The recommendation an evaluation of a returns, 0 when there is none.
WaitingId(a) == IF WaitingIds(a) = {} THEN 0 ELSE CHOOSE id \in WaitingIds(a) : TRUE

Lost == IF MayFail THEN BOOLEAN ELSE {FALSE}

-----------------------------------------------------------------------------
\* The page is mounted and its first refresh is under way.
Init ==
  /\ Server!LifeInit
  /\ position = 0 /\ quote = 0
  /\ page = [position |-> 0, quote |-> 0, advice |-> [a \in Assets |-> 0]]
  /\ busy = TRUE
  /\ jobs = [j \in Slots |-> IF j = FirstSlot THEN Refresh(Everything, FALSE) ELSE Idle]
  /\ save = [pc |-> "idle", read |-> 0]
  /\ answers = {}
  /\ missed = FALSE

-----------------------------------------------------------------------------
(***************************************************************************)
(* The two refreshes.                                                      *)
(***************************************************************************)
\* Fault: nothing stops a second refresh.
MayRefreshAlways == \E j \in Slots : ~jobs[j].running

MayRefresh == ~busy

\* refreshDashboard, asked for by the page itself.
BeginDashboard(post) ==
  /\ MayRefresh
  /\ jobs' = [jobs EXCEPT ![FreeSlot] = Refresh(Everything, post)]
  /\ busy' = TRUE
  /\ missed' = FALSE

\* Fault: the change is shown without asking for a refresh.
NoFollowUp == UNCHANGED <<jobs, busy, missed>>

\* refreshDashboard after a change: it is dropped while one is running.
FollowUp ==
  \/ BeginDashboard(FALSE)
  \/ /\ ~MayRefresh
     /\ missed' = TRUE
     /\ UNCHANGED <<jobs, busy>>

\* The Refresh button.
RefreshDashboard ==
  /\ BeginDashboard(TRUE)
  /\ UNCHANGED <<server, page, save, answers>>

\* refreshDisplayedPrices, by the timer and when the dashboard is shown.
RefreshDisplayedPrices ==
  /\ MayRefresh
  /\ jobs' = [jobs EXCEPT ![FreeSlot] = Refresh({"market"}, TRUE)]
  /\ busy' = TRUE
  /\ UNCHANGED <<server, page, save, answers, missed>>

Quoted == quote' = quote \/ (quote < MaxQuotes /\ quote' = quote + 1)

\* handleRefreshMarket or handleRefreshPrices; a failure for one asset keeps
\* what was stored for the other.
Post(j, lost) ==
  /\ jobs[j].posting
  /\ Quoted
  /\ jobs' = [jobs EXCEPT ![j] = [jobs[j] EXCEPT
       !.posting = FALSE,
       !.failed = IF lost THEN jobs[j].failed \union {"post"} ELSE jobs[j].failed]]
  /\ UNCHANGED <<open, nextId, position, page, busy, save, answers, missed>>

Settle(j, x, value, lost) ==
  LET job == jobs[j] IN
  jobs' = [jobs EXCEPT ![j] =
    [job EXCEPT !.waiting = job.waiting \ {x},
                !.failed = IF lost THEN job.failed \union {x} ELSE job.failed,
                !.got = [job.got EXCEPT ![x] = IF lost THEN 0 ELSE value]]]

Asks(j, x) == ~jobs[j].posting /\ x \in jobs[j].waiting

ReadPortfolio(j, lost) ==
  /\ Asks(j, "portfolio")
  /\ Settle(j, "portfolio", position, lost)
  /\ UNCHANGED <<server, page, busy, save, answers, missed>>

ReadMarket(j, lost) ==
  /\ Asks(j, "market")
  /\ Settle(j, "market", quote, lost)
  /\ UNCHANGED <<server, page, busy, save, answers, missed>>

\* handleStrategy evaluates the asset's strategy and returns what waits.
Evaluate(a) ==
  \/ nextId <= MaxRecs /\ \E kind \in Advised : Server!Advise(a, kind)
  \/ Server!Withdraw(a)
  \/ UNCHANGED <<open, nextId>>

ReadAdvice(j, a, lost) ==
  /\ Asks(j, a)
  /\ Evaluate(a)
  /\ Settle(j, a, WaitingId(a)', lost)
  /\ UNCHANGED <<position, quote, page, busy, save, answers, missed>>

Settled(j) == jobs[j].running /\ ~jobs[j].posting /\ jobs[j].waiting = {}

\* What the page shows once the job's replies are set.
Shown(j) ==
  LET has(x) == x \in jobs[j].reads \ jobs[j].failed
      got    == jobs[j].got
  IN  [position |-> IF has("portfolio") THEN got["portfolio"] ELSE page.position,
       quote    |-> IF has("market") THEN got["market"] ELSE page.quote,
       advice   |-> [a \in Assets |-> IF has(a) THEN got[a] ELSE page.advice[a]]]

\* Fault: the flag is reset after the page is, but not when something failed.
StillBusy(j) == jobs[j].failed # {}

BusyAfter(j) == FALSE

\* All the requests have settled.
Finish(j) ==
  /\ Settled(j)
  /\ page' = Shown(j)
  /\ busy' = BusyAfter(j)
  /\ missed' = (missed \/ jobs[j].failed # {})
  /\ jobs' = [jobs EXCEPT ![j] = Idle]
  /\ UNCHANGED <<server, save, answers>>

-----------------------------------------------------------------------------
(***************************************************************************)
(* The portfolio form: PUT, GET, then onSaved.                             *)
(***************************************************************************)
\* A save whose reply is lost may have been stored; the form shows an error
\* and asks for nothing.
PutPortfolio(lost) ==
  /\ save.pc = "idle"
  /\ position < MaxSaves
  /\ \/ position' = position + 1
     \/ lost /\ UNCHANGED position
  /\ save' = [save EXCEPT !.pc = IF lost THEN "idle" ELSE "stored"]
  /\ missed' = (missed \/ lost)
  /\ UNCHANGED <<open, nextId, quote, page, busy, jobs, answers>>

GetPortfolio(lost) ==
  /\ save.pc = "stored"
  /\ save' = IF lost THEN [pc |-> "idle", read |-> 0]
                     ELSE [pc |-> "read", read |-> position]
  /\ missed' = (missed \/ lost)
  /\ UNCHANGED <<server, page, busy, jobs, answers>>

HandlePortfolioSaved ==
  /\ save.pc = "read"
  /\ page' = [page EXCEPT !.position = save.read]
  /\ save' = [pc |-> "idle", read |-> 0]
  /\ FollowUp
  /\ UNCHANGED <<server, answers>>

-----------------------------------------------------------------------------
(***************************************************************************)
(* Mark executed and Dismiss, offered while a recommendation is shown.     *)
(***************************************************************************)
ClickAnswer(a) ==
  /\ page.advice[a] # 0
  /\ Cardinality(answers) < MaxAnswers
  /\ \E n \in 1..MaxAnswers :
       /\ {q.n : q \in answers} \intersect 1..n = 1..n - 1
       /\ answers' = answers \union
            {[n |-> n, id |-> page.advice[a], asset |-> a, done |-> FALSE]}
  /\ UNCHANGED <<server, page, busy, jobs, save, missed>>

\* Fault: the answer names the asset.
WaitingOfAsset(q) == Server!WaitingFor(q.asset)

Named(q) == {r \in open : r.id = q.id}

\* handleResolveRecommendation: an id that waits no longer is refused, and the
\* page does nothing about a refusal or a lost reply.
ResolveRecommendation(q, lost) ==
  /\ ~q.done
  /\ \/ \E r \in Named(q) : Server!Answer(r)
     \/ (lost \/ Named(q) = {}) /\ UNCHANGED <<open, nextId>>
  /\ answers' = (answers \ {q}) \union
       (IF lost \/ Named(q) = {} THEN {} ELSE {[q EXCEPT !.done = TRUE]})
  /\ missed' = (missed \/ lost)
  /\ UNCHANGED <<position, quote, page, busy, jobs, save>>

HandleResolved(q) ==
  /\ q.done
  /\ answers' = answers \ {q}
  /\ FollowUp
  /\ UNCHANGED <<server, page, save>>

-----------------------------------------------------------------------------
\* The backend's ticker refreshes too, or fails to.
RunBackgroundRefresh ==
  /\ Quoted
  /\ UNCHANGED <<open, nextId, position, page, busy, jobs, save, answers, missed>>

Progress(j) ==
  \/ \E lost \in Lost :
       \/ Post(j, lost) \/ ReadPortfolio(j, lost) \/ ReadMarket(j, lost)
       \/ \E a \in Assets : ReadAdvice(j, a, lost)
  \/ Finish(j)

Next ==
  \/ RefreshDashboard \/ RefreshDisplayedPrices \/ RunBackgroundRefresh
  \/ \E j \in Slots : Progress(j)
  \/ \E lost \in Lost : PutPortfolio(lost) \/ GetPortfolio(lost)
  \/ HandlePortfolioSaved
  \/ \E a \in Assets : ClickAnswer(a)
  \/ \E q \in answers : HandleResolved(q) \/ \E lost \in Lost : ResolveRecommendation(q, lost)

Spec == Init /\ [][Next]_vars

(***************************************************************************)
(* The server bounds a market refresh by 70 seconds and a price refresh by *)
(* 15, its other handlers are single transactions, and a connection that   *)
(* breaks fails the request.  Nobody has to click.                         *)
(***************************************************************************)
FairSpec == Spec /\ \A j \in Slots : WF_vars(Progress(j))

-----------------------------------------------------------------------------
(***************************************************************************)
(* Properties.                                                             *)
(***************************************************************************)
Job == [running : BOOLEAN, posting : BOOLEAN, reads : SUBSET Everything,
        waiting : SUBSET Everything, failed : SUBSET (Everything \union {"post"}),
        got : [Everything -> Nat]]

\* The types, and that the flag is set exactly while a refresh is in flight.
TypeOK ==
  /\ Server!LifeTypeOK
  /\ position \in Nat /\ quote \in Nat
  /\ page \in [position : Nat, quote : Nat, advice : [Assets -> Nat]]
  /\ jobs \in [Slots -> Job]
  /\ busy = (\E j \in Slots : jobs[j].running)
  /\ save \in [pc : {"idle", "stored", "read"}, read : Nat]
  /\ answers \subseteq [n : Nat, id : Nat, asset : Assets, done : BOOLEAN]
  /\ missed \in BOOLEAN

Quiet == ~busy /\ save.pc = "idle" /\ answers = {}

\* Once everything has settled the page shows the saved position and, for each
\* asset, the recommendation that really waits, unless a refresh a change
\* asked for was dropped or did not get every reply.
QuietPageIsCurrent ==
  Quiet /\ ~missed =>
    /\ page.position = position
    /\ \A a \in Assets : page.advice[a] = WaitingId(a)

\* A saved position is on the page once everything has settled: "Saving
\* changes ... refreshes the advisory snapshot".
SavedPositionShown == Quiet => page.position = position

\* The displayed price is never replaced by an older one, although timer,
\* button and follow-up refreshes overlap and replies take any time.
PriceNeverGoesBack == [][page'.quote >= page.quote]_vars

\* An entry or a sale ends only by an answer that the user gave to it, on the
\* card of its own asset: never by one given to what was there before it,
\* although cards are stale while answers and refreshes are under way.
AnswersWhatWasShown ==
  [][\A r \in open \ open' : r.kind # "OVERRIDE" =>
       \E q \in answers : q.id = r.id /\ q.asset = r.strategy]_vars

\* A refresh ends, with failures or without, and the next one can begin.
RefreshEnds == busy ~> ~busy
=============================================================================
