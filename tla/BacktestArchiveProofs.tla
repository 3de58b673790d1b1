----------------------- MODULE BacktestArchiveProofs -----------------------
(***************************************************************************)
(* Proofs about the archive, for every number of refreshes, simulations,   *)
(* uploads and runs.  The archive implements the managed history, so it    *)
(* inherits HistoryInv; what it adds is that the length a simulation read  *)
(* from a set's row was that of a whole series, and that the upload it     *)
(* reads cannot be replaced by another.                                    *)
(***************************************************************************)
EXTENDS BacktestArchive, ManagedHistoryProofs

\* Only files that were parsed are stored.
FilesParsed == \A u \in Uploads : uploads[u] # <<>> => ParseCSV(uploads[u])

\* A simulation knows how long its series is, and of an upload, whose id is
\* never given again, that it is still what it was.
LengthsRead ==
  \A s \in Simulations :
    /\ simulation[s].pc = "candles" => simulation[s].count >= MinimumCandleCount
    /\ simulation[s].pc # "idle" /\ simulation[s].source # Managed => simulation[s].source \in given

ArchiveInv ==
  ArchiveTypeOK /\ FilesParsed /\ RunsKeepTheirSet /\ SimulatedOnWholeSeries /\ LengthsRead

Jobs == [pc : {"idle", "candles", "simulated"}, source : CandleSetIds, count : Nat, candles : SUBSET Nat]

-----------------------------------------------------------------------------
\* Every step of the archive is a step of the history or leaves it alone.
LEMMA ArchiveStepIsHistoryStep ==
  ASSUME [ArchiveNext]_vars
  PROVE  [HistoryNext]_historyVars
<1>1. CASE (Midnight \/ Refreshing) /\ UNCHANGED archiveVars
  BY <1>1 DEF HistoryNext
<1>2. ASSUME NEW s \in Simulations,
             StartRun(s) \/ ReadCandles(s) \/ SaveBacktestRun(s) \/ EndRun(s)
      PROVE  UNCHANGED historyVars
  BY <1>2 DEF StartRun, ReadCandles, SaveBacktestRun, EndRun
<1>3. ASSUME NEW u \in Uploads, DeleteUpload(u) \/ \E file \in Files : ImportCandleSet(u, file)
      PROVE  UNCHANGED historyVars
  BY <1>3 DEF DeleteUpload, ImportCandleSet
<1>4. ASSUME NEW id \in RunIds, DeleteBacktestRun(id)
      PROVE  UNCHANGED historyVars
  BY <1>4 DEF DeleteBacktestRun
<1>5. CASE DeleteAllBacktestRuns
  BY <1>5 DEF DeleteAllBacktestRuns
<1>6. CASE DeleteManagedSet
  BY <1>6 DEF DeleteManagedSet, HistoryNext
<1>7. CASE UNCHANGED vars
  BY <1>7 DEF vars
<1>8. QED BY <1>1, <1>2, <1>3, <1>4, <1>5, <1>6, <1>7 DEF ArchiveNext

\* A refresh stores a series or leaves the set alone; it never removes one.
LEMMA RefreshKeepsSet ==
  ASSUME HistoryInv, Midnight \/ Refreshing, set # Absent
  PROVE  set' # Absent
<1>1. CASE Midnight
  BY <1>1 DEF Midnight
<1>2. ASSUME NEW r \in Refreshes, ReplaceManagedBacktestCandleSet(r)
      PROVE  set' # Absent
  BY <1>2, ReplaceKeepsSeries DEF ReplaceManagedBacktestCandleSet
<1>3. ASSUME NEW r \in Refreshes, AppendManagedBacktestCandles(r)
      PROVE  set' # Absent
  BY <1>3, AppendKeepsSeries DEF AppendManagedBacktestCandles
<1>4. ASSUME NEW r \in Refreshes,
             Begin(r) \/ Acquire(r) \/ ReadMetadata(r) \/ FetchPage(r) \/ NothingToAdd(r)
               \/ KeepSuffix(r) \/ ReadExistingSet(r) \/ ReadExistingRows(r) \/ Reject(r)
               \/ Conflict(r) \/ Fail(r)
      PROVE  set' = set
  BY <1>4 DEF Begin, Acquire, ReadMetadata, FetchPage, NothingToAdd, KeepSuffix,
              ReadExistingSet, ReadExistingRows, Reject, Conflict, Fail
<1>5. QED BY <1>1, <1>2, <1>3, <1>4 DEF Refreshing, Step

\* A stored file is a sequence of days, so it has a length and a set of days.
LEMMA FilesTyped ==
  ASSUME ArchiveInv, NEW u \in Uploads
  PROVE  /\ uploads[u] \in Seq(0..MaxDay) /\ Len(uploads[u]) \in Nat
         /\ Days(uploads[u]) \in SUBSET Nat
<1>1. uploads[u] \in Files \cup {<<>>}
  BY DEF ArchiveInv, ArchiveTypeOK
<1>2. uploads[u] \in Seq(0..MaxDay) /\ Len(uploads[u]) \in Nat
  <2>1. <<>> \in Seq(0..MaxDay)
    OBVIOUS
  <2>2. uploads[u] \in Seq(0..MaxDay)
    BY <1>1, <2>1, ArchiveAssumptions
  <2>3. QED BY <2>2
<1>3. \A i \in 1..Len(uploads[u]) : uploads[u][i] \in Nat
  BY <1>2, ManagedHistoryAssumptions
<1>4. QED BY <1>2, <1>3 DEF Days

LEMMA ArchiveInitInv == ArchiveInit => ArchiveInv
<1> SUFFICES ASSUME ArchiveInit PROVE ArchiveInv
  OBVIOUS
<1>1. HistoryInv
  BY InitInv DEF ArchiveInit
<1>2. ArchiveTypeOK
  <2>1. NoSimulation \in Jobs
    BY DEF NoSimulation, Jobs, CandleSetIds
  <2>2. Saved = {}
    BY DEF ArchiveInit, Saved
  <2>3. QED BY <1>1, <2>1, <2>2 DEF ArchiveInit, ArchiveTypeOK, Jobs, HistoryInv
<1>3. RunsKeepTheirSet /\ FilesParsed
  BY DEF ArchiveInit, RunsKeepTheirSet, FilesParsed, Saved
<1>4. SimulatedOnWholeSeries /\ LengthsRead
  BY DEF ArchiveInit, SimulatedOnWholeSeries, LengthsRead, NoSimulation
<1>5. QED BY <1>1, <1>2, <1>3, <1>4 DEF ArchiveInv

-----------------------------------------------------------------------------
\* A run is saved only for a set that is there, and deleted with its details.
LEMMA RunsInv ==
  ASSUME HistoryInv', ArchiveInv, UNCHANGED <<uploads, given>>,
         runs' \in [RunIds -> CandleSetIds \cup {Unsaved}], details' = Saved',
         \A id \in RunIds : runs'[id] # Unsaved => InDatabase(runs[id])',
         simulation' \in [Simulations -> Jobs],
         SimulatedOnWholeSeries', LengthsRead'
  PROVE  ArchiveInv'
<1>1. ArchiveTypeOK'
  BY DEF ArchiveInv, ArchiveTypeOK, HistoryInv, Jobs
<1>2. RunsKeepTheirSet'
  BY DEF RunsKeepTheirSet, Saved
<1>3. FilesParsed'
  BY DEF ArchiveInv, FilesParsed, ParseCSV
<1>4. QED BY <1>1, <1>2, <1>3 DEF ArchiveInv

\* A step of s keeps the invariant if the job it leaves does.
LEMMA SimulationStep ==
  ASSUME HistoryInv', ArchiveInv, NEW s \in Simulations,
         NEW next \in Jobs,
         simulation' = [simulation EXCEPT ![s] = next],
         next.pc = "candles" => next.count >= MinimumCandleCount,
         next.pc # "idle" /\ next.source # Managed => next.source \in given,
         next.pc = "simulated" =>
           /\ Cardinality(next.candles) >= MinimumCandleCount /\ Contiguous(next.candles)
           /\ next.source # Managed /\ InDatabase(next.source) => next.candles = Candles(next.source),
         runs' \in [RunIds -> CandleSetIds \cup {Unsaved}], details' = Saved',
         \A id \in RunIds : runs'[id] # Unsaved => InDatabase(runs'[id]),
         UNCHANGED <<historyVars, uploads, given>>
  PROVE  ArchiveInv'
<1>1. simulation \in [Simulations -> Jobs]
  BY DEF ArchiveInv, ArchiveTypeOK, Jobs
<1>2. /\ simulation' \in [Simulations -> Jobs] /\ simulation'[s] = next
      /\ \A q \in Simulations : q # s => simulation'[q] = simulation[q]
  BY <1>1
<1>3. SimulatedOnWholeSeries'
  <2> SUFFICES ASSUME NEW q \in Simulations, simulation'[q].pc = "simulated"
               PROVE  /\ Cardinality(simulation'[q].candles) >= MinimumCandleCount
                      /\ Contiguous(simulation'[q].candles)
                      /\ simulation'[q].source # Managed /\ InDatabase(simulation[q].source)'
                           => simulation'[q].candles = Candles(simulation[q].source)'
    BY DEF SimulatedOnWholeSeries, InDatabase, Candles, Days, historyVars
  <2>1. CASE q = s
    BY <1>2, <2>1 DEF InDatabase, Candles, Days, historyVars
  <2>2. CASE q # s
    <3>1. simulation'[q] = simulation[q]
      BY <1>2, <2>2
    <3>2. /\ Cardinality(simulation[q].candles) >= MinimumCandleCount
          /\ Contiguous(simulation[q].candles)
          /\ simulation[q].source # Managed /\ InDatabase(simulation[q].source)
               => simulation[q].candles = Candles(simulation[q].source)
      BY <3>1 DEF ArchiveInv, SimulatedOnWholeSeries
    <3>3. InDatabase(simulation[q].source)' <=> InDatabase(simulation[q].source)
      BY <3>1 DEF InDatabase, historyVars
    <3>4. Candles(simulation[q].source)' = Candles(simulation[q].source)
      BY <3>1 DEF Candles, Days, historyVars
    <3>5. QED BY <3>1, <3>2, <3>3, <3>4
  <2>3. QED BY <2>1, <2>2
<1>4. LengthsRead'
  BY <1>2 DEF ArchiveInv, LengthsRead
<1>5. \A id \in RunIds : runs'[id] # Unsaved => InDatabase(runs[id])'
  BY DEF InDatabase, historyVars
<1>6. QED BY <1>2, <1>3, <1>4, <1>5, RunsInv

LEMMA RunRequestInv ==
  ASSUME HistoryInv, HistoryInv', ArchiveInv, NEW s \in Simulations,
         StartRun(s) \/ ReadCandles(s) \/ SaveBacktestRun(s) \/ EndRun(s)
  PROVE  ArchiveInv'
<1>1. /\ simulation \in [Simulations -> Jobs] /\ simulation[s] \in Jobs
      /\ runs \in [RunIds -> CandleSetIds \cup {Unsaved}] /\ details = Saved
      /\ \A id \in RunIds : runs[id] # Unsaved => InDatabase(runs[id])
  BY DEF ArchiveInv, ArchiveTypeOK, RunsKeepTheirSet, Saved, Jobs
<1>2. NoSimulation \in Jobs /\ NoSimulation.pc = "idle"
  BY DEF NoSimulation, Jobs, CandleSetIds
<1>3. CASE StartRun(s)
  <2>1. PICK source \in CandleSetIds :
          /\ InDatabase(source)
          /\ simulation' = [simulation EXCEPT ![s] =
               [pc |-> "candles", source |-> source, count |-> CandleCount(source), candles |-> {}]]
    BY <1>3 DEF StartRun
  <2>2. CandleCount(source) \in Nat /\ CandleCount(source) >= MinimumCandleCount
    <3>1. CASE source = Managed
      BY <2>1, <3>1, ManagedHistoryAssumptions
         DEF InDatabase, CandleCount, HistoryInv, HistoryTypeOK, CandleSets, SeriesConsistent
    <3>2. CASE source # Managed
      <4>1. source \in Uploads /\ uploads[source] # <<>>
        BY <2>1, <3>2 DEF CandleSetIds, InDatabase
      <4>2. QED BY <3>2, <4>1, FilesTyped DEF CandleCount, ArchiveInv, FilesParsed, ParseCSV
    <3>3. QED BY <3>1, <3>2
  <2>3. source # Managed => source \in given
    BY <2>1 DEF CandleSetIds, InDatabase, ArchiveInv, ArchiveTypeOK
  <2> DEFINE next == [pc |-> "candles", source |-> source, count |-> CandleCount(source), candles |-> {}]
  <2>4. /\ next \in Jobs /\ next.pc = "candles" /\ next.count = CandleCount(source)
        /\ next.source = source
    BY <2>2 DEF Jobs
  <2>5. runs' = runs /\ details' = details /\ UNCHANGED <<historyVars, uploads, given>>
    BY <1>3 DEF StartRun
  <2>6. simulation' = [simulation EXCEPT ![s] = next]
    BY <2>1
  <2> HIDE DEF next
  <2>7. details' = Saved'
    BY <1>1, <2>5 DEF Saved
  <2>8. QED BY <1>1, <2>2, <2>3, <2>4, <2>5, <2>6, <2>7, SimulationStep
<1>4. CASE ReadCandles(s)
  <2> DEFINE candles == Candles(simulation[s].source)
             next == [simulation[s] EXCEPT !.pc = "simulated", !.candles = candles]
  <2>1. candles \in SUBSET Nat
    <3>1. CASE simulation[s].source = Managed
      BY <3>1, ManagedHistoryAssumptions DEF Candles, HistoryInv, HistoryTypeOK
    <3>2. CASE simulation[s].source # Managed
      <4>1. simulation[s].source \in Uploads
        BY <1>1, <3>2 DEF Jobs, CandleSetIds
      <4>2. QED BY <3>2, <4>1, FilesTyped DEF Candles
    <3>3. QED BY <3>1, <3>2
  <2>2. Cardinality(candles) >= MinimumCandleCount /\ Contiguous(candles)
    BY <1>4 DEF ReadCandles, ArchiveInv, LengthsRead
  <2>3. simulation[s].source # Managed => simulation[s].source \in given
    BY <1>4 DEF ReadCandles, ArchiveInv, LengthsRead
  <2>4. simulation' = [simulation EXCEPT ![s] = next]
    BY <1>4 DEF ReadCandles
  <2> HIDE DEF candles
  <2>5. /\ next \in Jobs /\ next.pc = "simulated" /\ next.candles = candles
        /\ next.source = simulation[s].source
    BY <1>1, <2>1 DEF Jobs
  <2>6. runs' = runs /\ details' = details /\ UNCHANGED <<historyVars, uploads, given>>
    BY <1>4 DEF ReadCandles
  <2>7. details' = Saved'
    BY <1>1, <2>6 DEF Saved
  <2>8. next.candles = Candles(next.source)
    BY <2>5 DEF candles
  <2> HIDE DEF next
  <2>9. QED BY <1>1, <2>2, <2>3, <2>4, <2>5, <2>6, <2>7, <2>8, SimulationStep
<1>5. CASE SaveBacktestRun(s)
  <2>1. PICK id \in RunIds \ Saved :
          runs' = [runs EXCEPT ![id] = simulation[s].source] /\ details' = details \cup {id}
    BY <1>5 DEF SaveBacktestRun
  <2>2. simulation[s].source \in CandleSetIds /\ simulation[s].source # Unsaved
    BY <1>1, ArchiveAssumptions DEF Jobs, CandleSetIds, Unsaved
  <2>3. /\ runs' \in [RunIds -> CandleSetIds \cup {Unsaved}]
        /\ details' = Saved'
    BY <1>1, <2>1, <2>2 DEF Saved
  <2>4. InDatabase(simulation[s].source) /\ simulation' = [simulation EXCEPT ![s] = NoSimulation]
        /\ UNCHANGED <<historyVars, uploads, given>>
    BY <1>5 DEF SaveBacktestRun
  <2>5. \A i \in RunIds : runs'[i] # Unsaved => InDatabase(runs'[i])
    BY <1>1, <2>1, <2>4
  <2>6. QED BY <1>2, <2>3, <2>4, <2>5, SimulationStep
<1>6. CASE EndRun(s)
  <2>1. /\ simulation' = [simulation EXCEPT ![s] = NoSimulation]
        /\ runs' = runs /\ details' = details /\ UNCHANGED <<historyVars, uploads, given>>
    BY <1>6 DEF EndRun
  <2>2. details' = Saved'
    BY <1>1, <2>1 DEF Saved
  <2>3. QED BY <1>1, <1>2, <2>1, <2>2, SimulationStep
<1>7. QED BY <1>3, <1>4, <1>5, <1>6

\* The other requests leave the simulations alone, and an upload's file until
\* it is deleted.
LEMMA OtherRequestInv ==
  ASSUME HistoryInv', ArchiveInv, UNCHANGED simulation, given \subseteq given', given' \subseteq Uploads,
         uploads' \in [Uploads -> Files \cup {<<>>}],
         \A u \in Uploads : uploads'[u] # <<>> => u \in given' /\ ParseCSV(uploads'[u]),
         \A u \in given : uploads'[u] \in {uploads[u], <<>>},
         runs' \in [RunIds -> CandleSetIds \cup {Unsaved}], details' = Saved',
         \A id \in RunIds : runs'[id] # Unsaved => InDatabase(runs[id])'
  PROVE  ArchiveInv'
<1>1. ArchiveTypeOK'
  BY DEF ArchiveInv, ArchiveTypeOK, HistoryInv
<1>2. LengthsRead' /\ FilesParsed' /\ RunsKeepTheirSet'
  BY DEF ArchiveInv, LengthsRead, FilesParsed, ParseCSV, RunsKeepTheirSet, Saved
<1>3. SimulatedOnWholeSeries'
  <2> SUFFICES ASSUME NEW s \in Simulations, simulation[s].pc = "simulated"
               PROVE  /\ Cardinality(simulation[s].candles) >= MinimumCandleCount
                      /\ Contiguous(simulation[s].candles)
                      /\ simulation[s].source # Managed /\ InDatabase(simulation[s].source)'
                           => simulation[s].candles = Candles(simulation[s].source)'
    BY DEF SimulatedOnWholeSeries, InDatabase, Candles, Days
  <2>1. /\ Cardinality(simulation[s].candles) >= MinimumCandleCount
        /\ Contiguous(simulation[s].candles)
        /\ simulation[s].source # Managed /\ InDatabase(simulation[s].source)
             => simulation[s].candles = Candles(simulation[s].source)
    BY DEF ArchiveInv, SimulatedOnWholeSeries
  <2>2. CASE simulation[s].source # Managed /\ InDatabase(simulation[s].source)'
    <3>1. simulation[s].source \in given
      BY <2>2 DEF ArchiveInv, LengthsRead
    <3>2. uploads'[simulation[s].source] = uploads[simulation[s].source]
      BY <2>2, <3>1 DEF InDatabase
    <3>3. QED BY <2>1, <2>2, <3>2 DEF InDatabase, Candles, Days
  <2>3. QED BY <2>1, <2>2
<1>4. QED BY <1>1, <1>2, <1>3 DEF ArchiveInv

LEMMA ArchiveStepInv ==
  ASSUME HistoryInv, HistoryInv', ArchiveInv, [ArchiveNext]_vars
  PROVE  ArchiveInv'
<1>1. /\ runs \in [RunIds -> CandleSetIds \cup {Unsaved}] /\ details = Saved
      /\ given \subseteq Uploads /\ uploads \in [Uploads -> Files \cup {<<>>}]
      /\ \A u \in Uploads : uploads[u] # <<>> => u \in given /\ ParseCSV(uploads[u])
      /\ \A id \in RunIds : runs[id] # Unsaved => InDatabase(runs[id])
  BY DEF ArchiveInv, ArchiveTypeOK, FilesParsed, RunsKeepTheirSet, Saved
<1>2. CASE (Midnight \/ Refreshing) /\ UNCHANGED archiveVars
  <2>1. /\ runs' = runs /\ details' = details /\ uploads' = uploads /\ given' = given
        /\ simulation' = simulation /\ details' = Saved'
    BY <1>1, <1>2 DEF archiveVars, Saved
  <2>2. \A id \in RunIds : runs'[id] # Unsaved => InDatabase(runs[id])'
    BY <1>1, <1>2, <2>1, RefreshKeepsSet DEF InDatabase
  <2>3. QED BY <1>1, <2>1, <2>2, OtherRequestInv
<1>3. ASSUME NEW s \in Simulations,
             StartRun(s) \/ ReadCandles(s) \/ SaveBacktestRun(s) \/ EndRun(s)
      PROVE  ArchiveInv'
  BY <1>3, RunRequestInv
<1>4. ASSUME NEW u \in Uploads, NEW file \in Files, ImportCandleSet(u, file)
      PROVE  ArchiveInv'
  <2>1. /\ u \notin given /\ ParseCSV(file)
        /\ uploads' = [uploads EXCEPT ![u] = file] /\ given' = given \cup {u}
        /\ runs' = runs /\ details' = details /\ simulation' = simulation /\ set' = set
    BY <1>4 DEF ImportCandleSet, historyVars
  <2>2. \A id \in RunIds : runs'[id] # Unsaved => InDatabase(runs[id])'
    <3> SUFFICES ASSUME NEW id \in RunIds, runs[id] # Unsaved
                 PROVE  InDatabase(runs[id])'
      BY <2>1 DEF InDatabase
    <3>1. runs[id] \in CandleSetIds /\ InDatabase(runs[id])
      BY <1>1
    <3>2. runs[id] # Managed => runs[id] \in given /\ runs[id] # u
      BY <1>1, <2>1, <3>1 DEF InDatabase, CandleSetIds
    <3>3. QED BY <1>1, <2>1, <3>1, <3>2 DEF InDatabase, CandleSetIds
  <2>3. details' = Saved'
    BY <1>1, <2>1 DEF Saved
  <2>4. /\ uploads' \in [Uploads -> Files \cup {<<>>}]
        /\ \A w \in Uploads : uploads'[w] # <<>> => w \in given' /\ ParseCSV(uploads'[w])
        /\ \A w \in given : uploads'[w] \in {uploads[w], <<>>}
    BY <1>1, <2>1
  <2>5. QED BY <1>1, <2>1, <2>2, <2>3, <2>4, OtherRequestInv
<1>5. ASSUME NEW u \in Uploads, DeleteUpload(u)
      PROVE  ArchiveInv'
  <2>1. /\ ~UsedByRuns(u) /\ uploads' = [uploads EXCEPT ![u] = <<>>] /\ given' = given
        /\ runs' = runs /\ details' = details /\ simulation' = simulation /\ set' = set
    BY <1>5 DEF DeleteUpload, historyVars
  <2>2. \A id \in RunIds : runs'[id] # Unsaved => InDatabase(runs[id])'
    BY <1>1, <2>1 DEF InDatabase, UsedByRuns, CandleSetIds
  <2>3. details' = Saved'
    BY <1>1, <2>1 DEF Saved
  <2>4. /\ uploads' \in [Uploads -> Files \cup {<<>>}]
        /\ \A w \in Uploads : uploads'[w] # <<>> => w \in given' /\ ParseCSV(uploads'[w])
        /\ \A w \in given : uploads'[w] \in {uploads[w], <<>>}
    BY <1>1, <2>1
  <2>5. QED BY <1>1, <2>1, <2>2, <2>3, <2>4, OtherRequestInv
<1>6. ASSUME NEW id \in RunIds, DeleteBacktestRun(id)
      PROVE  ArchiveInv'
  <2>1. /\ runs' = [runs EXCEPT ![id] = Unsaved] /\ details' = details \ {id}
        /\ uploads' = uploads /\ given' = given /\ set' = set /\ simulation' = simulation
    BY <1>6 DEF DeleteBacktestRun, historyVars
  <2>2. details' = Saved' /\ runs' \in [RunIds -> CandleSetIds \cup {Unsaved}]
    BY <1>1, <2>1 DEF Saved
  <2>3. \A i \in RunIds : runs'[i] # Unsaved => InDatabase(runs[i])'
    BY <1>1, <2>1 DEF InDatabase
  <2>4. QED BY <1>1, <2>1, <2>2, <2>3, OtherRequestInv
<1>7. CASE DeleteAllBacktestRuns
  <2>1. /\ runs' = [id \in RunIds |-> Unsaved] /\ details' = {}
        /\ uploads' = uploads /\ given' = given /\ set' = set /\ simulation' = simulation
    BY <1>7 DEF DeleteAllBacktestRuns, historyVars
  <2>2. details' = Saved' /\ runs' \in [RunIds -> CandleSetIds \cup {Unsaved}]
    BY <2>1 DEF Saved
  <2>3. QED BY <1>1, <2>1, <2>2, OtherRequestInv
<1>8. CASE DeleteManagedSet
  <2>1. /\ ~UsedByRuns(Managed) /\ runs' = runs /\ details' = details /\ simulation' = simulation
        /\ uploads' = uploads /\ given' = given
    BY <1>8 DEF DeleteManagedSet, archiveVars
  <2>2. details' = Saved'
    BY <1>1, <2>1 DEF Saved
  <2>3. \A i \in RunIds : runs'[i] # Unsaved => InDatabase(runs[i])'
    BY <1>1, <2>1 DEF InDatabase, UsedByRuns
  <2>4. QED BY <1>1, <2>1, <2>2, <2>3, OtherRequestInv
<1>9. CASE UNCHANGED vars
  <2>1. /\ runs' = runs /\ details' = details /\ simulation' = simulation
        /\ uploads' = uploads /\ given' = given /\ set' = set
    BY <1>9 DEF vars, historyVars, archiveVars
  <2>2. details' = Saved'
    BY <1>1, <2>1 DEF Saved
  <2>3. \A i \in RunIds : runs'[i] # Unsaved => InDatabase(runs[i])'
    BY <1>1, <2>1 DEF InDatabase
  <2>4. QED BY <1>1, <2>1, <2>2, <2>3, OtherRequestInv
<1>10. QED BY <1>2, <1>3, <1>4, <1>5, <1>6, <1>7, <1>8, <1>9 DEF ArchiveNext

-----------------------------------------------------------------------------
(***************************************************************************)
(* The theorems.                                                           *)
(***************************************************************************)
\* The archive implements the managed history: its requests are, to the
\* refreshes, deletions of a set that no run uses.
THEOREM ArchiveImplementsHistory == ArchiveSpec => ImplementsHistory
<1>1. ArchiveInit => HistoryInit
  BY DEF ArchiveInit
<1>2. [ArchiveNext]_vars => [HistoryNext]_historyVars
  BY ArchiveStepIsHistoryStep
<1>3. QED BY <1>1, <1>2, PTL DEF ArchiveSpec, HistorySpec, ImplementsHistory

\* The archive's invariant, on top of the one it inherits from the history.
THEOREM ArchiveInvariance == ArchiveSpec => []ArchiveInv
<1>1. ArchiveSpec => []HistoryInv
  BY ArchiveImplementsHistory, HistoryInvariance, PTL DEF ImplementsHistory
<1>2. HistoryInv /\ HistoryInv' /\ ArchiveInv /\ [ArchiveNext]_vars => ArchiveInv'
  BY ArchiveStepInv
<1>3. QED BY <1>1, <1>2, ArchiveInitInv, PTL DEF ArchiveSpec

\* Every variable keeps its type, and a run has its details exactly as long as
\* it is in the archive.
THEOREM ArchiveTypeCorrect == ArchiveSpec => []ArchiveTypeOK
<1>1. ArchiveInv => ArchiveTypeOK
  BY DEF ArchiveInv
<1>2. QED BY ArchiveInvariance, <1>1, PTL

\* However saves, deletions and refreshes interleave, the set of a saved run
\* stays in the database.
THEOREM RunsAlwaysKeepTheirSet == ArchiveSpec => []RunsKeepTheirSet
<1>1. ArchiveInv => RunsKeepTheirSet
  BY DEF ArchiveInv
<1>2. QED BY ArchiveInvariance, <1>1, PTL

\* A simulation computes on one whole, long enough series, although the set and
\* its candles are read in two statements.
THEOREM AlwaysSimulatedOnWholeSeries == ArchiveSpec => []SimulatedOnWholeSeries
<1>1. ArchiveInv => SimulatedOnWholeSeries
  BY DEF ArchiveInv
<1>2. QED BY ArchiveInvariance, <1>1, PTL

\* What is proved of the managed history alone holds beside the simulations,
\* the uploads and the runs: no request of theirs breaks the series, shortens
\* it, lengthens a refresh, lets it answer with a day missing or makes it
\* reject what it fetched.
THEOREM ArchiveInherits ==
  ArchiveSpec => /\ [](HistoryTypeOK /\ SeriesConsistent)
                 /\ SeriesOnlyGrows /\ AnsweredUpToDate
                 /\ WorkShrinks
                 /\ [](EveryDayTrades => AppendsNeverRejected)
BY ArchiveImplementsHistory, HistoryTypeCorrect, SeriesAlwaysConsistent, SeriesAppendOnly,
   AlwaysAnsweredUpToDate, RefreshIsBounded, OnlyGapsReject, PTL DEF ImplementsHistory
=============================================================================
