# CryptoAssistant in TLA+

CryptoAssistant is a local advisor for two assets, BTC and ETH. A Go backend
keeps public Coinbase prices and daily candles in SQLite, evaluates one of two
strategies on every completed candle, asks the user to confirm what it
recommends, and simulates the same strategies on years of history. A React
frontend shows the result. It trades nothing itself: the user types in what is
held. So what can go wrong is not an order but advice: advice given twice, from
structure that has vanished, from a campaign that is over, from a price series
with a hole, or a simulation that trades on the future.

This directory holds TLA+ modules that model the backend and the dashboard page, TLC configurations
that check them on small instances, and proofs of their central properties for
every instance. Modules are written from the Go source; `PROJECT.json` maps each
definition to the lines it models, lists the runs, and gives for every checked
property a plausible bug (an operator marked "Fault" beside the definition it
replaces) that makes the property fail.

Run a check with `tlc -config adv_entries.cfg MCAdvisory`, a proof with
`tlapm AdvisoryProofs.tla`.

## Inventory

Paths are under `src/backend/internal` unless they say otherwise.

### Strategy engine (`strategy/`, `portfolio/`)

Pure functions. `EvaluateWithIntradayPrice` takes a profile, the override rule,
the candles, the position, the persisted state and an intraday quote, and
returns an action with a percentage and the next state. Two rulesets (Recovery
Breakout, Dip Accumulation) share the exits: a profit sale at a trigger, and
drawdown sales at three levels below the high-water mark. A "historical-peak
override" buys ahead of either ruleset.
*Hard*: the state is advanced when the advice is given, before anyone knows
whether it is followed; a gap crosses several levels at once; a re-entry must
not reuse the breakout of the cycle before.
*Correct if* consumed levels are the shallowest ones and belong to an open
campaign, a new cycle rests on a new correction, and advice fits what is held.

### Market structure (`strategy/pivots.go, recovery.go, correction.go, trend*.go`, `ath/spaced_peaks.go`, `indicator/sma.go`)

Pure functions over the candle series: confirmed pivots, the correction below
the newest local high, the newest pair of rising lows and its breakout, the
trend filter, and the average of historical peaks that are far enough apart.
*Hard*: the series grows by a day at each evaluation and state refers to days of
it. *Correct if* what was confirmed stays confirmed, the identity of a used
breakout is stable, and the peak selection is what its definition says.

### Advisory store (`storage/strategy_evaluation.go, strategy.go, settings.go, portfolio.go, history.go`, `strategyservice/`)

Rows per asset: settings with one profile per strategy, a state per strategy,
the position, pending recommendations, History events.
`EvaluateStrategyAtomically` (under a mutex and in one transaction) looks for a
pending recommendation, evaluates, saves the state, logs, and inserts the new
recommendation. The user resolves a recommendation, edits the portfolio, or
saves settings, in any order and from several windows.
*Hard*: `SaveAssetStrategySettings` reads the previous selection before its
transaction, `SaveStrategyConfig` reads all settings before that; an answer is
applied with the settings of the moment of the answer; a strategy switch carries
half of a state. *Correct if* there is one pending recommendation per strategy,
sales are withdrawn by nobody but the user, and milestones of an open campaign
survive a switch.

### Market data refresh (`marketdata/`, `market/coinbase/`, `storage/market.go, price_history.go, runtime_settings.go`)

The ticker, the refresh button (candles and prices) and the dashboard's poll
(prices only) share a mutex. A refresh walks the assets; for each it asks
Coinbase and saves, and goes on with the next asset after a failure; the handlers
answer success or, for any failure, one sentence. Tables: daily candles,
one display quote per asset, and a price history cut to a user's limit.
*Hard*: midnight between clock, reply and save; failure of one step of several;
the limit changing while prices arrive; a mutex that ignores deadlines.
*Correct if* only final candles are stored, the newest window lacks only days on
which nothing traded (the exchange has no bucket for them, and nobody checks the
reply for holes), quotes never go back, a success is one, and every request is
answered.

### Managed history (`backtestservice/history.go`, `storage/backtest.go`)

One candle series per asset for backtests, backfilled from 2015 in pages and
then appended to. Refreshes come from the launch, from listing the sets and from
a button; a lock per asset serialises them, but a deletion takes no lock, and
the series is read in two statements.
*Correct if* the stored series is one unbroken run of completed days that its
row describes, only grows, and is up to date when a refresh says so.

### Backtest service and archive (`backtestservice/service.go`, `storage/backtest_runs.go`)

Imports a CSV file as a candle set of its own, simulates on a stored set, saves
the run in a transaction, shows it from four statements, deletes runs and sets.
Nothing is locked. `backtestdata/csv.go` decides which files are accepted.
*Hard*: a set may be deleted, extended or imported again between the statements
that read it and the transaction that saves a run on it.
*Correct if* a saved run keeps its set and its details, a simulation never sees
part of a series, and an uploaded set never changes.

### Backtest simulator (`backtest/`)

`Run` walks the candles: the order of the previous close is filled at the open
with fee and slippage, then the close is evaluated by the same engine. Keeps
cash, the cycle's budget, quantity, cost, the strategy state, one pending order,
and the lists of signals and trades.
*Hard*: the engine's state runs ahead of the fill; rejections have to be
reconciled; money at the limit of the budget.
*Correct if* cash is never negative, each signal has one outcome, no level is
sold twice, protected exits keep break-even, and the engine's campaign is the
simulator's position.

### Dashboard page (`src/frontend/src/App.tsx`, `pages/PortfolioPage.tsx`, `components/AssetCard.tsx`) and its handlers (`api/server.go`)

Keeps what it last read of the portfolio, the prices and the advice of each
asset, and one flag, `dashboardRefreshInProgress`. A full refresh (mount, button,
after a change) sends its requests together and sets what came back when all
have settled; a price refresh does the same for the prices. While the flag is
set any other refresh is dropped. The portfolio form saves, reads back and asks
for a refresh; a card offers "Mark executed" and "Dismiss" for the
recommendation it shows.
*Hard*: replies in any order; a change while a refresh is in flight; a card that
is stale when it is clicked; a refresh that fails half way.
*Correct if* the page ends up showing what is stored, prices on it never go
back, an answer ends what the user saw and nothing else, and no refresh keeps the
flag.

### Not modelled

- *The other pages* (`pages/StrategySettingsPage.tsx`, `HistoryPage.tsx`,
  `BacktestPage.tsx`): each loads what it shows and reloads after its own calls;
  charts, forms and the error banner carry no control of the core.
- *Migrations runner* (`storage/storage.go`): the files of one directory in order,
  one transaction each, by one thread before the server listens. Nothing
  interleaves; a second process on one database is not something `main` starts.
- *Server process, configuration*: start-up in sequence. What it starts, the ticker
  and the backfill, are requests of `MarketData` and `ManagedHistory`.
- *HTTP api*: decoding, encoding and status codes. Handlers are actions of the
  modules above, and where one makes several calls the calls are its steps.
- *Bundled peaks* (`ath/peaks.go`): a table no evaluation reads any more.
- *A server without a managed history*: the service's branches for it delete a set
  with its last run; `main` always starts one with it.
- *Desktop shell, scripts*: no state.

### How the parts interact

    MarketData ---candles, quotes---> Advisory ---advice---> Dashboard ---> user
                                         |  ^---answers, portfolio----'
                                         |  ^---settings
                          both evaluate  |
                          StrategyEngine on facts of MarketStructure
                                         |
    ManagedHistory --series--> BacktestArchive --candles--> Backtest

All state passes through SQLite; there are no messages and no callbacks but the
HTTP requests of the user and the replies of the exchange.

## Modules

| module | models | state and actions |
|---|---|---|
| `StrategyEngine` | `strategy/engine.go`, `dip_accumulation.go`, `ath_entry_override.go`, `recovery_peak_gate.go`, `profile.go` | operators only; a ruleset is the list of its rules in the order of the code |
| `MarketFacts` | what those functions read from the candles | extends `StrategyEngine`; how the facts may start and change in a day |
| `MarketStructure` | pivots, correction, recovery, trend, peaks | `candles` grows by `NextDay`; computes the facts |
| `Advisory` | the store's advisory rows of one asset | `EvaluateStrategyAtomically`, `ResolveStrategyRecommendation`, `SaveStrategyConfig`, `LoadPrevious`, `SaveAssetStrategySettings`, `SavePortfolio`, and candles and quotes as they come |
| `RecommendationLife` | what `storage/strategy_evaluation.go` promises of waiting recommendations | abstract: `Advise`, `Withdraw`, `Answer`; implemented by `Advisory`, the server of `Dashboard` |
| `Dashboard` | `App.tsx`, `PortfolioPage.tsx`, `AssetCard.tsx` and the handlers of `api/server.go` they call | the page, the flag, one job per refresh in flight: `BeginDashboard`, `RefreshDisplayedPrices`, `Post`, `ReadPortfolio`, `ReadMarket`, `ReadAdvice`, `Finish`; `PutPortfolio`, `GetPortfolio`, `HandlePortfolioSaved`; `ClickAnswer`, `ResolveRecommendation`, `HandleResolved` |
| `Backtest` | `backtest.Run` | `EvaluateAtClose`, `FillAtOpen`, `NoFillAtOpen` |
| `MarketData` | refresher, provider, market tables | a program counter per request: `Acquire`, `AskCandles`, `CandlesReply`, `SaveDailyCandles`, `PriceReply`, `SaveCurrentPrice`, `Fail`; `Restart`, `Midnight`, `Trade` |
| `ManagedHistory` | `history.go` and its two transactions | a program counter per refresh: lock, metadata, pages, existing series, store; `DropCandleSet` |
| `BacktestArchive` | service, imports and saved runs | extends `ManagedHistory` with `ImportCandleSet`, simulations (`StartRun`, `ReadCandles`, `SaveBacktestRun`, `EndRun`) and deletions of runs and sets |
| `MC*` | | constants for TLC |
| `*Proofs` | | theorems |

`MarketFacts` is what keeps the other modules small. The engine reads eight facts
from up to three thousand candles: the day and the close, the newest local high
and whether the close is a pullback from it, the newest rising pair of lows and
its identity, how the close relates to the recovery high between them, and the
peak average. `Advisory` and `Backtest` let the facts change as `MarketFacts`
allows; `MarketStructure` computes them from candles, and its property
`FactsAdvance` says that real candles never do anything `MarketFacts` does not
allow. `AnchoredRecovery` justifies that the engine is given the newest pair
where the code searches again for a pair after the anchor.

`BacktestArchive` implements `ManagedHistory`'s specification (`ImplementsHistory`):
to a refresh the whole archive is a deletion now and then. It is checked and
proved, and the properties of the history are inherited from there.

`Advisory` implements `RecommendationLife` (`ImplementsLife`): its pending rows are
mapped to records of an id, a strategy and a kind (an override entry, another
entry, a sale), and every transaction is then an `Advise`, a `Withdraw`, an
`Answer` or a stutter. `Withdraw` and `Advise` require that what they replace is an
override entry, so that a strategy has one open recommendation and that a sale
is ended by nobody but the user are one statement. `Dashboard` instantiates the
same specification as its server, with one selected strategy per asset, which
keeps the ruleset out of the page's states.

### Choices worth knowing

- *Advisory* is one asset. The two assets share no row but the cash balance,
  which no rule reads. An evaluation that finds a pending recommendation changes
  nothing and is a stuttering step. Evaluations are serialised by a mutex and
  SQLite refuses a transaction whose snapshot was overtaken, so each transaction
  is one action; the reads outside transactions are steps of a *writer*.
  `Executed` uses the day after the newest candle for `time.Now()`.
- *Day 0* is "no day", *price 0* "no price", as the zero values of Go are in the
  code. Percentages are compared by cross-multiplication.
- *Backtest* counts money in integers: a division rounds down where the code has
  a float, and the code's epsilon is 0. Fees and slippage are whole percents.
- *MarketStructure* measures the distance of peaks in days where the code adds
  calendar months, and lets equal highs be taken in any order, for the code's
  sort is not stable.
- *MarketData* names a price by the tick it was traded at, so "older" means
  something. A tick of the timer is a `Begin` at any time. A day has a bucket from
  its first trade on, that of today changes with each trade, and a day without a
  trade never gets one; `bucket` is what the exchange holds, and midnight makes
  that of the day before final (a bucket that the exchange publishes late is not
  modelled). `Answer` is what the handlers make of the failed assets: one sentence
  for any failure.
- *ManagedHistory* is one asset: locks and rows are per asset. A process that ends
  loses the lock and the refresh and leaves the tables, which is what `Fail`
  does. A day without trades has no bucket at Coinbase.
- *Restart* in `MarketData` drops every request and keeps the tables.
- *BacktestArchive* names an upload by the days its records stand for, 0 being a
  record that does not parse. Each import gets a fresh id, as a UUID is. A file
  equal to a stored one is refused by the unique fingerprint; the fingerprint of
  the managed set is a failure of the refresh, which `Fail` covers.
- *Dashboard* names a position by the number of saves before it and a quote by the
  number stored before it. A lost reply may or may not have taken effect. React's
  state updates of one handler are one action, for JavaScript does not interrupt
  it. The variable `missed` records that a refresh a change asked for was dropped
  or did not get every reply, of a price refresh too; no action reads it. The four
  market requests of a refresh are one reply (`ReadMarket`), and one save of the
  portfolio is in flight at a time, as its button has it while the page is shown;
  a page left and opened again during a save could start a second one.

## Runs

Nine runs pass, three end in a violation that is a finding.

| run | instance | shows |
|---|---|---|
| `adv_entries` | 2 closes, override on, 3 days, structure free | `ReentryNeedsNewCorrection`, `AdviceFitsPosition` and the refinement `ImplementsLife` while answers, portfolio edits and evaluations interleave |
| `adv_exits` | 3 closes around a held position, a quote, 4 recommendations | `DrawdownsNested`, `ExitsNeverAutoDismissed`, `ExecutedConsumesExactly` |
| `adv_settings` | override on or off, one writer | `TypeOK`, `DipReferenceKnown`, `DrawdownsBelongToCampaign`, `MilestonesSurviveSwitch` through switches and profile saves |
| `bt_cycle` | both strategies, fee 2%, slippage 5%, six candles that rise, dip, fall through three levels and gap at the open, with recoveries that allow all entry stages, a purchase after a partial sale, and a second cycle | `NoNegativeBalance`, `SignalsSettled`, `SpentWithinBudget`, `ReferenceIsFill`, `LevelsSoldOnce`, `CampaignMatchesPosition`, `BreakEvenKept` |
| `ms_series` | every series of up to 7 candles of 4 shapes | `PivotsPersist`, `BreakoutKeepsItsHigh`, `PeaksJustified`, `AnchoredRecovery`, `FactsAdvance` |
| `md_quotes` | two assets, a full and a prices-only request, limits 1 and 2, 4 days and a trade on one of them | `HistoryKeepsNewest`, `QuoteNeverGoesBack`, `AnswerTellsTheStore` |
| `md_candles` | one asset, two full requests, 5 days, at least two of them without a trade | `CandlesFinal`, `RecentHistoryComplete`, and under fairness `RequestsAnswered` |
| `ar_runs` | two refreshes, a simulation, two runs, 5 days in pages of 2, one upload of a good or a bad file | the history's `SeriesConsistent`, `SeriesOnlyGrows`, `AnsweredUpToDate`, `RefreshesAnswered`; the archive's `ArchiveTypeOK`, `RunsKeepTheirSet`, `SimulatedOnWholeSeries`, `ImplementsHistory` |
| `ui_page` | one asset, room for two refreshes, one save, two recommendations, two answers in flight, every request may fail | `QuietPageIsCurrent`, `PriceNeverGoesBack`, `AnswersWhatWasShown`, and under fairness `RefreshEnds` |
| `find_stale_switch` | `adv_settings` with two writers | violates `MilestonesSurviveSwitch` |
| `find_gap` | `ar_runs` | violates `AppendsNeverRejected` |
| `find_page` | `ui_page` without failures | violates `SavedPositionShown` |

### Bounds, and why they are enough

- *Prices* are few and chosen by what they cross: a close below the override's
  threshold, one at the entry, one above the profit trigger, and closes below
  each drawdown level. Any other price is on the same side of every comparison.
- *Days*: `MaxDay` and `LastDay` leave room for an entry, its confirmation, an
  exit and a re-entry; `adv_entries` starts at day 5 so that structure exists.
- *Recommendations*: `MaxRecs` bounds how many are created; four make a campaign
  with two sales and an answer to each.
- *MarketStructure*: seven days with two days of confirmation hold two lows, the
  high between them, its breakout and a newer high. One setting of pullback,
  buffer and trend is checked; they only decide which fact an unchanged structure
  yields.
- *MarketData*: two requests suffice for every overlap, since only the holder of
  the mutex acts; five days hold a window of two, a day without a trade between two
  with one, a day missed by failing refreshes and a midnight during a refresh.
- *ManagedHistory*: five days in pages of two are a partial last page, a gap, a
  backfill and an append; a minimum of two candles makes a rejection possible. The
  uploaded files are a series, one with a gap, one out of order, one too short and
  one with a bad record.
- *Dashboard*: two slots show that the flag keeps the second one empty (the fault
  of `MayRefresh` fills it); one save, two recommendations and two answers give a
  late answer, a double click and an answer to a withdrawn entry. The assets share
  nothing but the flag.

`CHECK_DEADLOCK FALSE` appears in `ms_series` alone: a series ends at `MaxDays`.
A simulation that is done stutters explicitly (`Terminating`).

### Fairness

`md_candles` and `ar_runs` assume two things. A running refresh takes its next
step (weak fairness): each call to the exchange ends after 15 seconds at the
latest by the HTTP client's timeout, and a transaction by its context. A waiting
refresh gets its lock if the lock is free again and again (strong fairness): a Go
mutex hands itself to a waiter that starves. Nothing has to fail, to be asked
for, to be deleted or to pass midnight. `RequestsAnswered` depends on the mutex
being released on every path; `RefreshesAnswered` on a cursor that advances
through years without a candle.

`ui_page` assumes that the requests of a refresh settle and that the page then
handles them (weak fairness of `Progress`). The page has no timeout of its own;
the server bounds a market refresh by 70 and a price refresh by 15 seconds, its
other handlers are single reads or transactions, and a connection that breaks
rejects the request, which `Promise.allSettled` counts as settled. Nobody has to
click. `RefreshEnds` depends on the flag being reset after failures as well.

The advisory modules state no liveness: every step is a user's or the market's
choice, and the code promises nothing that happens by itself.

## Proofs

`tlapm` proves, for every value of the constants that the named assumptions
admit:

- *Advisory* (`AdvisoryProofs`): `TypeOK`, `OnePendingPerStrategy`,
  `ReentryNeedsNewCorrection`, `DrawdownsNested`, `DrawdownsBelongToCampaign`,
  `DipReferenceKnown` and the action properties `ExitsNeverAutoDismissed` and
  `AdviceFitsPosition`. The
  invariant `IInv` conjoins the types, `Sound` for each state and a condition on
  the pending recommendations (an override entry is a buy). None of the checked
  properties is inductive alone: an answer marks levels as consumed, so
  `DrawdownsBelongToCampaign` needs that a high-water mark exists only in an open
  campaign, which `Sound` adds and which in turn every rule of both rulesets must
  keep. The bulk of the proof is therefore `EvaluationSound` of
  `StrategyEngineProofs`: any evaluation of a sound state returns a sound state,
  one lemma per ruleset and per family of rules. `LifeImplemented` proves the refinement of `RecommendationLife` from
  `IInv`: that ids are fresh and that a strategy has one pending recommendation make
  the mapped step an `Advise`. Two properties hold under a condition on how the
  program is used, which the theorem states as a temporal hypothesis, because the
  code enforces neither. `MilestonesKept` proves `MilestonesSurviveSwitch` if saves
  of the settings take turns (`SavesTakeTurns`): then the selection a save has read
  is still the current one when it switches (`PreviousCurrent`). `ExactlyConsumed`
  proves `ExecutedConsumesExactly` if no save commits while a drawdown sale waits
  (`AnsweredBeforeSave`): the sale was measured at the profile's threshold
  (`PendingMeasured`, from `EvaluationMeasured` of the engine), and the answer
  recomputes it from the profile of that moment. `find_stale_switch` violates the
  first without its condition; the second fails with two profiles (see Findings).
- *Market structure* (`MarketStructureProofs`): `PivotsPersist`,
  `BreakoutKeepsItsHigh`, `AnchoredRecovery` and `FactsAdvance`, for every series,
  window and profile. One more candle can confirm one day only, later than all
  confirmed before (`HighsGrow`, `LowsGrow`), so at most one pair of lows is added,
  and it is the newest (`PairsGrow`, `RecoveryGrows`). `FactsAdvance` is the link to
  the other modules: under `FactsUnrestricted` (no day and no breakout fact is
  excluded) `MarketFacts` admits whatever real candles do. `PeaksJustified` is about
  a recursive function, of which TLA+ says nothing until one is known to exist. The
  proof shows that there is a selection for every list of candidates, by the least
  number of candidates for which there would be none, and that any selection has the
  property; the theorem says both.
- *Strategy engine* (`StrategyEngineProofs`): the lemmas on the rules that the
  advisor and the simulator share, for every valid profile: what an evaluation
  does to the campaign, the levels and the high-water mark, that it keeps
  `Sound`, that an entry names the next stage and its share of the budget
  (`EvaluationStage`), and that a drawdown sale lies at or below the level it is
  named for and above the next (`EvaluationMeasured`).
- *Simulator* (`BacktestProofs`): `CampaignMatchesPosition`, `NoNegativeBalance`,
  `SignalsSettled`, `BreakEvenKept`, `LevelsSoldOnce`, `ReferenceIsFill` and
  `TypeOK`, for every range, price, profile, slippage and cycle length. `SimInv`
  says that the state is sound and that a pending order is the one its last
  signal asked for, which ties the fill at the open to the decision at the close.
  `NoNegativeBalance`, `TypeOK` and `BreakEvenKept` assume `FeesBelowWhole`: above
  that a sale costs more than it brings (see Findings). Each of the others adds
  its own strengthening: `Counted` that the counters are the number of signals
  with that outcome, `FloorOfPosition` that the floor of a pending order is that of the
  average it will sell, `LevelInv` that the levels sold in the live cycle are consumed
  in the state, `ReferenceInv` that the reference of an open campaign is the fill
  of its first trade. `SpentWithinBudget` is a sum over the trades of a cycle;
  it is measured against the cash there was before the first of them, which the
  trades record, not against a budget that a fault could raise with the proceeds of a
  partial sale. `OpeningInv` says that the account's budget is that cash as long as
  the position is open, and `BudgetInv` what bounds the sum: each purchase of the
  cycle took its stage's share of the budget at most, stages are taken in order, and
  the sum is at most the shares of the stages whose order met an open.
- *Market data* (`MarketDataProofs`): `TypeOK`, `CandlesFinal`,
  `RecentHistoryComplete`, `HistoryKeepsNewest`, `QuoteNeverGoesBack` and
  `AnswerTellsTheStore`, for any requests, assets, window and limits. `MInv` adds to
  the properties what makes them inductive: a request works exactly while it
  holds the mutex, the price it carries is not older than the stored quote, the
  candles it carries are final and reach back over its window from the day it
  asked, and a request has stored the price of each asset it has passed and not
  failed on. `RecentHistoryComplete` is about the days that have a bucket, which
  no later trade can change once they are over (`PastKept`). `AnswerTellsTheStore`
  needs a second invariant for the candles, `OwedInv`: of each asset a full request
  is through with, every day it owes is stored. It rests on the order of two clock
  readings, the one at which the request got the mutex and the later one from which
  its window is counted, and on stored days never being removed.
  `WorkIsBounded` counts what a request has left to do: at most five steps per
  asset, less with each step of its own and never more by a step of another.
- *Dashboard* (`DashboardProofs`): `TypeOK`, with the flag set exactly while one
  refresh is in flight; `PriceNeverGoesBack`, because what the one refresh holds
  is at least what the page shows; `AnswersWhatWasShown`, because ids are given
  once, so an id shown on a card of one asset never names a recommendation of
  another. `QuietPageIsCurrent` rests on `QuietInv`: unless the page has asked in
  vain or owes a follow-up refresh for a change, a refresh in flight that reads a
  value holds the stored one or has yet to read it, and without such a refresh
  the page shows the stored one. `ServerIsAdvisor` proves that the server of this
  module, which gives and withdraws recommendations without a rule engine, is the
  life of recommendations that the advisor implements (`RecommendationLife`), so
  what the page is checked against is no weaker than what it talks to;
  `OneWaitsPerAsset` follows. `RefreshGoesOn` says that a refresh in flight only
  loses what it waits for until it ends and lowers the flag.
- *Managed history* (`ManagedHistoryProofs`): `HistoryTypeOK`, `SeriesConsistent`,
  `SeriesOnlyGrows` and `AnsweredUpToDate`. The series stays consistent without the lock: what is
  stored is rechecked in the transaction. It is append-only only because of the
  lock: `BackfillInv` says that a refresh that found no set still finds none when
  it replaces, and that a second refresh cannot have stored one meanwhile.
  `AnsweredUpToDate` follows from `PassedInv`: a published day before the cursor is
  not newer than some fetched day, or than the stored series. `RefreshIsBounded`
  counts the steps a refresh has left, at most `MaxDay + 4`: the cursor passes days
  that have no bucket. `OnlyGapsReject` says that on a calendar in which every day
  trades an append is never rejected (`FetchedInv`: what was fetched is then an
  unbroken run from the day after the series), so a day without a bucket, as in
  `find_gap`, is the only reason.
- *Archive* (`BacktestArchiveProofs`): `ArchiveSpec` implements `HistorySpec`, and
  `ArchiveInherits` collects what that brings: all theorems of the managed history
  hold beside uploads, simulations and saved runs. Its own are `ArchiveTypeOK`,
  `RunsKeepTheirSet`, and `SimulatedOnWholeSeries`, for which `LengthsRead` records
  that a length read from a row belongs to a series long enough to simulate.

Every invariant and every action property of the passing runs is a theorem, some
under the conditions named above (fees, and how settings are saved). Only model-checked are the liveness properties
`RequestsAnswered`, `RefreshesAnswered` and `RefreshEnds`: liveness under fairness
is out of the prover's reach. What is proved of them is the part that depends on the
code's own loops and flags (`WorkIsBounded`, `RefreshIsBounded`, `RefreshGoesOn`);
what remains for TLC is that fairness brings the steps about.

## Findings

Each is a run that ends in a violation.

- `find_stale_switch`: two overlapping settings saves. Both read the previous
  selection, one switches, the other carries the state of a strategy that is no
  longer selected, and the open campaign forgets its milestones
  (`storage/settings.go:114`), against the comment at `settings.go:163-164`.
- `find_gap`: Coinbase has no bucket for a day without trades. Once such a day
  follows the stored series, the series to append is not contiguous and every
  later refresh fails, against `history.go:58-59`. Only deleting the set helps.
  `OnlyGapsReject` proves that nothing else makes a refresh reject its own series.
- `find_page`: the user saves the portfolio while a refresh is in flight. The page
  shows the saved position, the refresh that the save asks for is dropped
  (`App.tsx:39`), and the one in flight puts back the position it had read. The
  page stays so until the next full refresh, for the timer reads prices only;
  `README.md:116-118` says that saving "refreshes the advisory snapshot".

Further disagreements seen while modelling, in the models but without a run:

- A refresh that saved the price of BTC and failed for ETH answers that "existing
  prices were kept" (`api/server.go:188` and 205; `marketdata/refresher.go:60-66`
  goes on after a failure and undoes nothing). What `AnswerTellsTheStore` says of
  that answer is only that some asset's price is still the one from before.
- The daily series keeps a hole where a day had no trade: neither the provider
  (`market/coinbase/provider.go:116-129`) nor the refresher (`refresher.go:31-38`)
  looks for one, where the managed history rejects such a series. An average over
  the newest candles then reaches further back than its number of days.
- A run deleted between the four statements that read it is returned with its
  summary and without equity points (`storage/backtest_runs.go:145`), which
  `validateBacktestResult` says a run must have (343-344).
- The managed set may be deleted and rebuilt while a simulation computes on it: the
  save finds a set of that id, and the run refers to candles that need not be
  those it saw (`storage/backtest_runs.go:39-102`), where `storage/backtest.go:228`
  says deletion "keeps saved simulations reproducible". `SimulatedOnWholeSeries`
  therefore speaks of uploaded sets alone, whose ids are never given twice.
- An answer that the server refuses or that is lost shows nothing: the page drops
  the rejection (`App.tsx:155-157`). The refusal itself is right, and
  `AnswersWhatWasShown` says so.
- A new high-water mark does not make consumed levels eligible again
  (`strategy/engine.go:230`), which the specification document promises
  (`.documentation/crypto_strategy_assistant_spec_mvp.md:679`).
- The high-water mark misses every close of days on which a recommendation is
  pending (`storage/strategy_evaluation.go:73`; the document's lines 585-603).
- An intraday quote below the break-even floor returns HOLD before the daily
  close is looked at, which alone would sell (`strategy/dip_accumulation.go:69`;
  the comment at `engine.go:168-169`).
- A repeated sale of one candle is pending at a price History does not show
  (`storage/strategy.go:179`; `README.md:123-124`).
- The levels an answer consumes follow the profile saved meanwhile
  (`storage/strategy_evaluation.go:194`; the comment at 225-226). The condition of
  `ExactlyConsumed` is that this does not happen.
- A late answer to a profit sale marks profit taken in a state without a campaign
  (`storage/strategy_evaluation.go:191`; `README.md:153-154`).
- A switch with an open campaign does not start a fresh cycle
  (`storage/settings.go:143`; `README.md:131`).
- A fee above 100 percent is accepted and makes a sale end in negative cash,
  which panics (`backtest/validate.go:31`, `execution.go:118`;
  `README.md:216-217`).

## Plan

Done, in this order: `StrategyEngine` and `MarketFacts`; `Advisory` and its
proofs; `Backtest`; `MarketStructure`; `MarketData`; `ManagedHistory`,
`BacktestArchive` and their proofs; uploads in the archive; `RecommendationLife`
and its refinement; `Dashboard`; the proofs of `Dashboard`, `MarketData` and
`Backtest`; `AnsweredUpToDate`; `AdviceFitsPosition`; the proofs of
`MarketStructure`, last that of `PeaksJustified`; `SpentWithinBudget`, over
purchases that follow partial sales; the two conditional theorems of the advisor;
the step bounds of the refreshes and of the page; `OnlyGapsReject`; the server of
the page as an advisor; days without a trade and the handlers' answers in
`MarketData`, with their proofs.

A run asks several questions of one instance where it can; new modules share
runs with what they compose with.

What is left: a theorem that the managed history recovers after its set is deleted,
which is the way out of `find_gap`; the reads of a saved run in four statements,
which need their own process in the archive; a proof that the advice of one close
depends only on the facts and the state, so that a repeated poll of an unchanged day
gives the same answer.
