-------------------------- MODULE BacktestArchive --------------------------
(***************************************************************************)
(* The backtest service and its archive of saved runs                      *)
(* (backend/internal/backtestservice/service.go,                           *)
(* backend/internal/storage/backtest_runs.go and                           *)
(* backend/internal/backtestdata/csv.go) over the candle sets of one       *)
(* asset: the managed history and the files that were uploaded.  No        *)
(* handler holds a lock: a simulation reads a set and its candles in two   *)
(* statements, computes, and saves in a transaction; runs and sets are     *)
(* deleted meanwhile.                                                      *)
(***************************************************************************)
EXTENDS ManagedHistory, Sequences

CONSTANTS
  Managed,       \* the id of the managed set
  Uploads,       \* bound: the ids that imports are given, each once
  Files,         \* what may be uploaded: sequences of days, 0 a bad record
  Simulations,   \* requests that run a simulation and save it
  RunIds         \* bound: the runs ever saved at the same time

ASSUME ArchiveAssumptions ==
  /\ Managed \notin Uploads /\ Nobody \notin Uploads \cup {Managed}
  /\ Files \subseteq Seq(0..MaxDay)

VARIABLES
  uploads,       \* the stored file of each uploaded set, <<>> without one
  given,         \* the ids that imports were given
  runs,          \* backtest_runs: the candle set of each run, or Unsaved
  details,       \* runs that have signals, trades and equity points
  simulation     \* what each simulation is doing

archiveVars == <<uploads, given, runs, details, simulation>>

vars == <<historyVars, archiveVars>>

Unsaved == Nobody

CandleSetIds == Uploads \cup {Managed}

NoSimulation == [pc |-> "idle", source |-> Managed, count |-> 0, candles |-> {}]

ArchiveInit ==
  /\ HistoryInit
  /\ uploads = [u \in Uploads |-> <<>>] /\ given = {}
  /\ runs = [id \in RunIds |-> Unsaved] /\ details = {}
  /\ simulation = [s \in Simulations |-> NoSimulation]

Saved == {id \in RunIds : runs[id] # Unsaved}

UsedByRuns(source) == \E id \in RunIds : runs[id] = source

\* The row of a set, and the days of its candles.
InDatabase(source) == IF source = Managed THEN set # Absent ELSE uploads[source] # <<>>

CandleCount(source) == IF source = Managed THEN set.count ELSE Len(uploads[source])

Days(file) == {file[i] : i \in 1..Len(file)}

Candles(source) == IF source = Managed THEN rows ELSE Days(uploads[source])

-----------------------------------------------------------------------------
(***************************************************************************)
(* Imports.  A file that is refused changes nothing.                       *)
(***************************************************************************)
\* ParseCSV accepts whole days in order without a gap, and enough of them.
ParseCSV(file) ==
  /\ Len(file) >= MinimumCandleCount
  /\ \A i \in 1..Len(file) : file[i] # 0 /\ (i > 1 => file[i] = file[i - 1] + 1)

\* One transaction.  A file is stored once, whatever its name; the managed set
\* has a fingerprint of its own, whose conflict with a file is among the
\* failures of a refresh.
ImportCandleSet(u, file) ==
  /\ u \notin given
  /\ ParseCSV(file)
  /\ \A other \in Uploads : uploads[other] # file
  /\ uploads' = [uploads EXCEPT ![u] = file] /\ given' = given \cup {u}
  /\ UNCHANGED <<historyVars, runs, details, simulation>>

-----------------------------------------------------------------------------
(***************************************************************************)
(* Service.run.  Any step may fail and answer an error.                    *)
(***************************************************************************)
\* The set's row; without one the answer is "not found".
StartRun(s) ==
  /\ simulation[s].pc = "idle"
  /\ \E source \in CandleSetIds :
       /\ InDatabase(source)
       /\ simulation' = [simulation EXCEPT ![s] =
            [pc |-> "candles", source |-> source, count |-> CandleCount(source), candles |-> {}]]
  /\ UNCHANGED <<historyVars, uploads, given, runs, details>>

\* Fault: whatever candles are there are the series.
ReadCandlesUnchecked(s) ==
  /\ simulation[s].pc = "candles"
  /\ simulation' = [simulation EXCEPT ![s] =
       [@ EXCEPT !.pc = "simulated", !.candles = Candles(simulation[s].source)]]
  /\ UNCHANGED <<historyVars, uploads, given, runs, details>>

\* Its candles, in a second statement; they must be as many as the row said.
ReadCandles(s) ==
  LET candles == Candles(simulation[s].source) IN
  /\ simulation[s].pc = "candles"
  /\ Cardinality(candles) = simulation[s].count /\ Contiguous(candles)
  /\ simulation' = [simulation EXCEPT ![s] = [@ EXCEPT !.pc = "simulated", !.candles = candles]]
  /\ UNCHANGED <<historyVars, uploads, given, runs, details>>

\* Fault: the set is not looked up again.
SaveRunUnchecked(s) ==
  /\ simulation[s].pc = "simulated"
  /\ \E id \in RunIds \ Saved :
       runs' = [runs EXCEPT ![id] = simulation[s].source] /\ details' = details \cup {id}
  /\ simulation' = [simulation EXCEPT ![s] = NoSimulation]
  /\ UNCHANGED <<historyVars, uploads, given>>

\* One transaction: the set must still be there; the run and its details.
SaveBacktestRun(s) ==
  /\ simulation[s].pc = "simulated"
  /\ InDatabase(simulation[s].source)
  /\ \E id \in RunIds \ Saved :
       runs' = [runs EXCEPT ![id] = simulation[s].source] /\ details' = details \cup {id}
  /\ simulation' = [simulation EXCEPT ![s] = NoSimulation]
  /\ UNCHANGED <<historyVars, uploads, given>>

\* A preview ends here, and so does a request that some step refuses.
EndRun(s) ==
  /\ simulation[s].pc # "idle"
  /\ simulation' = [simulation EXCEPT ![s] = NoSimulation]
  /\ UNCHANGED <<historyVars, uploads, given, runs, details>>

-----------------------------------------------------------------------------
(***************************************************************************)
(* Deletions.  With a managed history, deleting runs leaves their sets.    *)
(***************************************************************************)
\* Fault: the run's row goes alone.
DeleteRowOnly(id) ==
  /\ id \in Saved
  /\ runs' = [runs EXCEPT ![id] = Unsaved] /\ UNCHANGED details
  /\ UNCHANGED <<historyVars, uploads, given, simulation>>

DeleteBacktestRun(id) ==
  /\ id \in Saved
  /\ runs' = [runs EXCEPT ![id] = Unsaved] /\ details' = details \ {id}
  /\ UNCHANGED <<historyVars, uploads, given, simulation>>

DeleteAllBacktestRuns ==
  /\ Saved # {}
  /\ runs' = [id \in RunIds |-> Unsaved] /\ details' = {}
  /\ UNCHANGED <<historyVars, uploads, given, simulation>>

\* Fault: the candles of the set stay.
DeleteSetRowOnly ==
  /\ ~UsedByRuns(Managed) /\ set # Absent
  /\ set' = Absent
  /\ UNCHANGED <<today, published, rows, lock, refresh, archiveVars>>

\* DeleteBacktestCandleSet, of the managed set and of an uploaded one.
DeleteManagedSet ==
  /\ ~UsedByRuns(Managed)
  /\ DropCandleSet
  /\ UNCHANGED archiveVars

DeleteUpload(u) ==
  /\ ~UsedByRuns(u) /\ uploads[u] # <<>>
  /\ uploads' = [uploads EXCEPT ![u] = <<>>]
  /\ UNCHANGED <<historyVars, given, runs, details, simulation>>

-----------------------------------------------------------------------------
ArchiveNext ==
  \/ (Midnight \/ Refreshing) /\ UNCHANGED archiveVars
  \/ \E u \in Uploads : DeleteUpload(u) \/ \E file \in Files : ImportCandleSet(u, file)
  \/ \E s \in Simulations : StartRun(s) \/ ReadCandles(s) \/ SaveBacktestRun(s) \/ EndRun(s)
  \/ \E id \in RunIds : DeleteBacktestRun(id)
  \/ DeleteAllBacktestRuns \/ DeleteManagedSet

ArchiveSpec == ArchiveInit /\ [][ArchiveNext]_vars

\* The fairness of FairHistorySpec, for the refreshes alone: no request of the
\* archive has to come.
FairArchiveSpec ==
  /\ ArchiveSpec
  /\ \A r \in Refreshes :
       /\ WF_vars(Step(r) /\ UNCHANGED archiveVars)
       /\ SF_vars(Acquire(r) /\ UNCHANGED archiveVars)

-----------------------------------------------------------------------------
(***************************************************************************)
(* Properties.                                                             *)
(***************************************************************************)
\* Every variable keeps its type, those of the history and of the archive; a
\* run has its details exactly as long as it is in the archive, and only an id
\* that was given has a file.
ArchiveTypeOK ==
  /\ HistoryTypeOK
  /\ given \subseteq Uploads
  /\ uploads \in [Uploads -> Files \cup {<<>>}] /\ \A u \in Uploads : uploads[u] # <<>> => u \in given
  /\ runs \in [RunIds -> CandleSetIds \cup {Unsaved}] /\ details = Saved
  /\ simulation \in [Simulations -> [pc : {"idle", "candles", "simulated"}, source : CandleSetIds,
                                     count : Nat, candles : SUBSET Nat]]

\* A saved run's candle set is in the database, although a set may be deleted
\* while a simulation computes and a run saved while a deletion is requested.
RunsKeepTheirSet == \A id \in Saved : InDatabase(runs[id])

\* What a simulation computes on is a whole series, although the set and its
\* candles are read apart and a refresh, an import or a deletion may come
\* between; an uploaded set is still the one it was when the run is saved.
SimulatedOnWholeSeries ==
  \A s \in Simulations : simulation[s].pc = "simulated" =>
    LET source == simulation[s].source IN
    /\ Cardinality(simulation[s].candles) >= MinimumCandleCount
    /\ Contiguous(simulation[s].candles)
    /\ source # Managed /\ InDatabase(source) => simulation[s].candles = Candles(source)

\* To the refreshes the archive's requests are a deletion now and then: the
\* service implements the managed history, whose properties it inherits.
ImplementsHistory == HistorySpec
=============================================================================
