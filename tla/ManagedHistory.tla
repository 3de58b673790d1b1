--------------------------- MODULE ManagedHistory ---------------------------
(***************************************************************************)
(* The managed Coinbase history of one asset                               *)
(* (backend/internal/backtestservice/history.go and the tables behind it). *)
(* Refreshes come from the launch backfill, from listing the sets and from *)
(* the refresh button; the asset's lock lets one run at a time.  Deleting  *)
(* the set takes no lock.  A day is a number; day 1 is 2015-01-01.         *)
(***************************************************************************)
EXTENDS Integers, FiniteSets

CONSTANTS
  Refreshes,           \* goroutines that call Current or Refresh
  PageDays,            \* coinbaseHistoryPageDays
  MinimumCandleCount,
  MaxDay,              \* bound: the calendar
  Nobody               \* the lock is free

ASSUME ManagedHistoryAssumptions ==
  /\ PageDays \in Nat \ {0} /\ MinimumCandleCount \in Nat \ {0}
  /\ MaxDay \in Nat /\ MaxDay >= 2
  /\ Nobody \notin Refreshes

VARIABLES
  today,      \* the UTC day
  published,  \* days for which Coinbase has a bucket: none for a day without trades
  set,        \* the row of backtest_candle_sets, or Absent
  rows,       \* days of the set in backtest_candles
  lock,       \* locks[asset]
  refresh     \* what each refresh is doing

historyVars == <<today, published, set, rows, lock, refresh>>

Absent == [first |-> 0, last |-> 0, count |-> 0]

Idle == [pc |-> "idle", isNew |-> FALSE, end |-> 0, count |-> 0, cursor |-> 0,
         added |-> {}, existing |-> {}, answer |-> "none"]

HistoryInit ==
  /\ today = 2 /\ published \in SUBSET {1}
  /\ set = Absent /\ rows = {}
  /\ lock = Nobody
  /\ refresh = [r \in Refreshes |-> Idle]

At(r, pc) == refresh[r].pc = pc

-----------------------------------------------------------------------------
(***************************************************************************)
(* Sets of days.                                                           *)
(***************************************************************************)
IsFirst(day, days) == day \in days /\ \A d \in days : day <= d

IsLast(day, days) == day \in days /\ \A d \in days : d <= day

\* backtest.ValidateCandles, on a series ordered by day.
Contiguous(days) ==
  /\ days # {}
  /\ \A c, d \in days : c <= d => c..d \subseteq days

LongestContiguousSuffix(days) ==
  {d \in days : \A e \in days : d <= e => d..e \subseteq days}

-----------------------------------------------------------------------------
\* A day closes, with a bucket or without one.
Midnight ==
  /\ today < MaxDay
  /\ today' = today + 1
  /\ published' \in {published, published \cup {today}}
  /\ UNCHANGED <<set, rows, lock, refresh>>

Begin(r) ==
  /\ At(r, "idle")
  /\ refresh' = [refresh EXCEPT ![r] = [Idle EXCEPT !.pc = "waiting"]]
  /\ UNCHANGED <<today, published, set, rows, lock>>

\* Fault: a refresh does not take the lock.
AcquireRegardless(r) ==
  /\ At(r, "waiting")
  /\ lock' = r
  /\ refresh' = [refresh EXCEPT ![r].pc = "metadata"]
  /\ UNCHANGED <<today, published, set, rows>>

Acquire(r) ==
  /\ At(r, "waiting")
  /\ lock = Nobody
  /\ lock' = r
  /\ refresh' = [refresh EXCEPT ![r].pc = "metadata"]
  /\ UNCHANGED <<today, published, set, rows>>

\* Return with the deferred unlock.
Answer(r, answer) ==
  /\ lock' = Nobody
  /\ refresh' = [refresh EXCEPT ![r] = [Idle EXCEPT !.answer = answer]]

\* The set's row and the clock fix the range of days to ask for.
ReadMetadata(r) ==
  LET start == IF set = Absent THEN 1 ELSE set.last + 1 IN
  /\ At(r, "metadata")
  /\ refresh' = [refresh EXCEPT ![r] = [@ EXCEPT !.pc = "pages", !.isNew = set = Absent,
                                                !.end = today, !.cursor = start]]
  /\ UNCHANGED <<today, published, set, rows, lock>>

PageEnd(cursor, end) == IF cursor + PageDays > end THEN end ELSE cursor + PageDays

\* Fault: the next page begins after the newest candle received.
CursorAfterNewest(cursor, end, page) ==
  IF page = {} THEN cursor ELSE 1 + CHOOSE d \in page : IsLast(d, page)

NextCursor(cursor, end, page) == PageEnd(cursor, end)

FetchPage(r) ==
  LET cursor == refresh[r].cursor
      end == refresh[r].end
      page == published \cap (cursor..PageEnd(cursor, end) - 1)
  IN /\ At(r, "pages")
     /\ cursor < end
     /\ refresh' = [refresh EXCEPT ![r].added = @ \cup page,
                                   ![r].cursor = NextCursor(cursor, end, page)]
     /\ UNCHANGED <<today, published, set, rows, lock>>

\* Fault: one page is taken for all there is.
FirstPageIsAll(r) == refresh[r].cursor >= refresh[r].end \/ refresh[r].added # {}

AllPagesRead(r) == refresh[r].cursor >= refresh[r].end

\* No day to ask for, or none published yet.
NothingToAdd(r) ==
  /\ At(r, "pages") /\ AllPagesRead(r)
  /\ ~refresh[r].isNew /\ refresh[r].added = {}
  /\ Answer(r, "ok")
  /\ UNCHANGED <<today, published, set, rows>>

\* A first backfill keeps what follows the last gap.
KeepSuffix(r) ==
  /\ At(r, "pages") /\ AllPagesRead(r)
  /\ refresh[r].isNew
  /\ refresh' = [refresh EXCEPT ![r].pc = "store", ![r].added = LongestContiguousSuffix(@)]
  /\ UNCHANGED <<today, published, set, rows, lock>>

\* The stored series is read in two statements, the set and then its candles.
ReadExistingSet(r) ==
  /\ At(r, "pages") /\ AllPagesRead(r)
  /\ ~refresh[r].isNew /\ refresh[r].added # {}
  /\ set # Absent
  /\ refresh' = [refresh EXCEPT ![r].pc = "existing", ![r].count = set.count]
  /\ UNCHANGED <<today, published, set, rows, lock>>

ReadExistingRows(r) ==
  /\ At(r, "existing")
  /\ Cardinality(rows) = refresh[r].count /\ Contiguous(rows)
  /\ refresh' = [refresh EXCEPT ![r].pc = "store", ![r].existing = rows]
  /\ UNCHANGED <<today, published, set, rows, lock>>

Merged(r) == refresh[r].existing \cup refresh[r].added

\* The merged series is too short or not contiguous.
Reject(r) ==
  /\ At(r, "store")
  /\ Cardinality(Merged(r)) < MinimumCandleCount \/ ~Contiguous(Merged(r))
  /\ Answer(r, "rejected")
  /\ UNCHANGED <<today, published, set, rows>>

Storable(r) ==
  /\ At(r, "store")
  /\ Cardinality(Merged(r)) >= MinimumCandleCount /\ Contiguous(Merged(r))

\* The row of a series.
Describe(days) ==
  [first |-> CHOOSE d \in days : IsFirst(d, days),
   last |-> CHOOSE d \in days : IsLast(d, days),
   count |-> Cardinality(days)]

\* After the commit the row is read back, which may fail.
Stored(r) == Answer(r, "ok") \/ Answer(r, "failed")

ReplaceManagedBacktestCandleSet(r) ==
  /\ Storable(r) /\ refresh[r].isNew
  /\ set' = Describe(Merged(r)) /\ rows' = Merged(r)
  /\ Stored(r)
  /\ UNCHANGED <<today, published>>

\* Fault: the row's count stays behind.
WithLastOnly(row, added) == [row EXCEPT !.last = CHOOSE d \in added : IsLast(d, added)]

WithAdded(row, added) ==
  [row EXCEPT !.last = CHOOSE d \in added : IsLast(d, added),
              !.count = @ + Cardinality(added)]

\* The transaction reads the row again before it inserts.
AppendManagedBacktestCandles(r) ==
  LET added == refresh[r].added IN
  /\ Storable(r) /\ ~refresh[r].isNew
  /\ set # Absent /\ IsFirst(set.last + 1, added) /\ Contiguous(added)
  /\ set' = WithAdded(set, added) /\ rows' = rows \cup added
  /\ Stored(r)
  /\ UNCHANGED <<today, published>>

\* The set was deleted, or changed between the two statements.
Conflict(r) ==
  LET added == refresh[r].added IN
  /\ \/ /\ At(r, "pages") /\ AllPagesRead(r)
        /\ ~refresh[r].isNew /\ added # {} /\ set = Absent
     \/ /\ At(r, "existing")
        /\ Cardinality(rows) # refresh[r].count \/ ~Contiguous(rows)
     \/ /\ Storable(r) /\ ~refresh[r].isNew
        /\ set = Absent \/ ~IsFirst(set.last + 1, added) \/ ~Contiguous(added)
  /\ Answer(r, "failed")
  /\ UNCHANGED <<today, published, set, rows>>

Working == {"metadata", "pages", "existing", "store"}

\* The provider, the context or the database fails.
Fail(r) ==
  /\ refresh[r].pc \in Working
  /\ Answer(r, "failed")
  /\ UNCHANGED <<today, published, set, rows>>

\* DELETE of the set cascades to its candles and takes no lock.
DropCandleSet ==
  /\ set # Absent
  /\ set' = Absent /\ rows' = {}
  /\ UNCHANGED <<today, published, lock, refresh>>

-----------------------------------------------------------------------------
Step(r) ==
  \/ ReadMetadata(r) \/ FetchPage(r) \/ NothingToAdd(r) \/ KeepSuffix(r)
  \/ ReadExistingSet(r) \/ ReadExistingRows(r) \/ Reject(r)
  \/ ReplaceManagedBacktestCandleSet(r) \/ AppendManagedBacktestCandles(r)
  \/ Conflict(r)

Refreshing == \E r \in Refreshes : Begin(r) \/ Acquire(r) \/ Step(r) \/ Fail(r)

HistoryNext == Midnight \/ Refreshing \/ DropCandleSet

HistorySpec == HistoryInit /\ [][HistoryNext]_historyVars

(***************************************************************************)
(* A refresh that holds the lock moves, for every call to Coinbase ends    *)
(* within 15 seconds; a Go mutex hands itself to a starving waiter.        *)
(* Nothing has to fail, to begin or to be deleted.                         *)
(***************************************************************************)
FairHistorySpec ==
  /\ HistorySpec
  /\ \A r \in Refreshes : WF_historyVars(Step(r)) /\ SF_historyVars(Acquire(r))

-----------------------------------------------------------------------------
(***************************************************************************)
(* Properties.                                                             *)
(***************************************************************************)
CandleSets == [first : 0..MaxDay, last : 0..MaxDay, count : 0..MaxDay]

RefreshJob == [pc : {"idle", "waiting"} \cup Working, isNew : BOOLEAN, end : 0..MaxDay,
               count : 0..MaxDay, cursor : 0..MaxDay, added : SUBSET (1..MaxDay),
               existing : SUBSET (1..MaxDay), answer : {"none", "ok", "failed", "rejected"}]

\* Every variable keeps its type, a refresh holds only published days, and the
\* lock is held by exactly the refresh that works between lock.Lock and its
\* deferred Unlock.
HistoryTypeOK ==
  /\ today \in 2..MaxDay /\ published \subseteq 1..today - 1
  /\ set \in CandleSets /\ rows \subseteq 1..MaxDay
  /\ refresh \in [Refreshes -> RefreshJob]
  /\ \A r \in Refreshes : refresh[r].added \cup refresh[r].existing \subseteq published
  /\ \A r \in Refreshes : lock = r <=> refresh[r].pc \in Working

\* The stored series is one unbroken run of completed, published days, long
\* enough for a simulation, and its row describes it exactly, although the
\* set may be deleted while a refresh is about to append to it.
SeriesConsistent ==
  IF set = Absent THEN rows = {}
  ELSE /\ rows = set.first..set.last
       /\ set.count = Cardinality(rows) /\ set.count >= MinimumCandleCount
       /\ rows \subseteq published /\ set.last < today

\* The series is append-only while it exists: no refresh, whatever failed
\* before it, replaces what is stored.
SeriesOnlyGrows ==
  [][set # Absent /\ set' # Absent => set'.first = set.first /\ rows \subseteq rows']_historyVars

\* A refresh that answers without an error leaves no published day behind, of
\* those completed when it read the clock, unless the set was deleted.
AnsweredUpToDate ==
  [][\A r \in Refreshes :
       refresh[r].pc \in Working /\ refresh'[r].answer = "ok" /\ set' # Absent =>
         \A d \in published : d < refresh[r].end => d <= set'.last]_historyVars

\* Every refresh that waits for the lock is answered, through any number of
\* pages, the empty ones of the years before an asset was listed included.
RefreshesAnswered == \A r \in Refreshes : At(r, "waiting") ~> At(r, "idle")

\* Refreshing never rejects the series it maintains: what a stored series
\* needs is "any small missed append" (Current, history.go:58-59).
AppendsNeverRejected ==
  \A r \in Refreshes : At(r, "store") /\ ~refresh[r].isNew => Contiguous(Merged(r))
=============================================================================
