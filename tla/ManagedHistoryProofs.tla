------------------------ MODULE ManagedHistoryProofs ------------------------
(***************************************************************************)
(* Proofs about the managed history, for every number of refreshes, page   *)
(* length, minimal length and calendar.                                    *)
(*                                                                         *)
(* The invariant is the type invariant and SeriesConsistent together: that *)
(* a row's count stays in range needs the series it describes, and that an *)
(* append continues the series needs the types of what was fetched.  The   *)
(* lock is not needed for it: the transactions check all they rely on.     *)
(* The last sections bound the work of a refresh and say when a refresh    *)
(* rejects what it has fetched.                                            *)
(***************************************************************************)
EXTENDS ManagedHistory, WellFoundedInduction, FiniteSetTheorems, TLAPS

HistoryInv == HistoryTypeOK /\ SeriesConsistent

-----------------------------------------------------------------------------
(***************************************************************************)
(* Sets of days.                                                           *)
(***************************************************************************)
\* Finite initial segments are well founded under inclusion, so numbers have a
\* least element.
LEMMA SmallestOf ==
  ASSUME NEW S \in SUBSET Nat, S # {}
  PROVE  \E x \in S : \A y \in S : x <= y
<1> DEFINE T == {0..x : x \in S}
           R == StrictSubsetOrdering(Nat)
<1>1. IsWellFoundedOn(R, FiniteSubsetsOf(Nat))
  BY FS_StrictSubsetOrderingWellFounded
<1>2. \A x \in S : 0..x \in FiniteSubsetsOf(Nat)
  <2>1. ASSUME NEW x \in S PROVE 0..x \in FiniteSubsetsOf(Nat)
    <3>1. IsFiniteSet(0..x)
      BY FS_Interval
    <3>2. 0..x \in SUBSET Nat
      OBVIOUS
    <3>3. QED BY <3>1, <3>2 DEF FiniteSubsetsOf
  <2>2. QED BY <2>1
<1>3. PICK F \in T : \A G \in T : ~ (<<G, F>> \in R)
  <2>1. T \subseteq FiniteSubsetsOf(Nat) /\ T # {}
    BY <1>2
  <2> HIDE DEF R, T
  <2>2. QED BY <1>1, <2>1, WFMin
<1>4. PICK x \in S : F = 0..x
  OBVIOUS
<1>5. ASSUME NEW y \in S PROVE x <= y
  <2>1. y \in Nat /\ x \in Nat /\ 0..y \in T
    OBVIOUS
  <2>2. y < x => 0..y \subseteq 0..x /\ x \in 0..x /\ x \notin 0..y
    BY <2>1
  <2>3. y < x => <<0..y, 0..x>> \in R
    BY <2>1, <2>2, SMTT(20) DEF StrictSubsetOrdering
  <2> HIDE DEF R, T
  <2>4. ~(y < x)
    BY <1>3, <1>4, <2>1, <2>3
  <2>5. QED BY <2>1, <2>4
<1>6. QED BY <1>5

LEMMA LargestOf ==
  ASSUME NEW n \in Nat, NEW S \in SUBSET (1..n), S # {}
  PROVE  \E x \in S : \A y \in S : y <= x
<1> DEFINE T == {n - x : x \in S}
<1>1. T \in SUBSET Nat
  <2>1. \A x \in S : n - x \in Nat
    OBVIOUS
  <2>2. QED BY <2>1
<1>2. T # {}
  OBVIOUS
<1>3. PICK m \in T : \A k \in T : m <= k
  <2> HIDE DEF T
  <2>1. QED BY <1>1, <1>2, SmallestOf
<1>4. PICK x \in S : m = n - x
  OBVIOUS
<1>5. ASSUME NEW y \in S PROVE y <= x
  <2>1. n - x <= n - y
    BY <1>3, <1>4
  <2>2. QED BY <2>1
<1>6. QED BY <1>5

\* A contiguous set of days is the interval between its first and last day.
LEMMA ContiguousIsInterval ==
  ASSUME NEW days \in SUBSET (1..MaxDay), Contiguous(days)
  PROVE  /\ IsFirst(Describe(days).first, days)
         /\ IsLast(Describe(days).last, days)
         /\ days = Describe(days).first..Describe(days).last
         /\ Describe(days) \in CandleSets
         /\ Describe(days).count = Cardinality(days)
<1> DEFINE d == Describe(days)
<1>1. MaxDay \in Nat /\ days # {} /\ days \in SUBSET Nat
  BY ManagedHistoryAssumptions DEF Contiguous
<1>2. IsFirst(d.first, days)
  <2>1. \E x \in days : \A y \in days : x <= y
    BY <1>1, SmallestOf
  <2>2. \E x \in days : IsFirst(x, days)
    BY <2>1 DEF IsFirst
  <2>3. QED BY <2>2 DEF Describe
<1>3. IsLast(d.last, days)
  <2>1. \E x \in days : \A y \in days : y <= x
    BY <1>1, LargestOf
  <2>2. \E x \in days : IsLast(x, days)
    BY <2>1 DEF IsLast
  <2>3. QED BY <2>2 DEF Describe
<1>4. d.first \in days /\ d.last \in days /\ \A x \in days : d.first <= x /\ x <= d.last
  BY <1>2, <1>3 DEF IsFirst, IsLast
<1>5. days = d.first..d.last
  <2> HIDE DEF d
  <2>1. d.first \in 1..MaxDay /\ d.last \in 1..MaxDay /\ d.first <= d.last
    BY <1>4
  <2>2. d.first..d.last \subseteq days
    BY <1>4, <2>1 DEF Contiguous
  <2>3. days \subseteq d.first..d.last
    BY <1>1, <1>4, <2>1
  <2>4. QED BY <2>2, <2>3
<1>6. Cardinality(days) \in 0..MaxDay
  <2>1. IsFiniteSet(1..MaxDay) /\ Cardinality(1..MaxDay) = MaxDay
    BY <1>1, FS_Interval, ManagedHistoryAssumptions
  <2>2. IsFiniteSet(days) /\ Cardinality(days) <= MaxDay
    BY <2>1, FS_Subset
  <2>3. QED BY <1>1, <2>2, FS_CardinalityType
<1>7. d.count = Cardinality(days)
  BY DEF Describe
<1>8. d \in CandleSets
  <2>1. d.first \in 0..MaxDay /\ d.last \in 0..MaxDay
    <3> HIDE DEF d
    <3>1. d.first \in 1..MaxDay /\ d.last \in 1..MaxDay
      BY <1>4
    <3>2. QED BY <1>1, <3>1
  <2>2. QED BY <1>6, <2>1 DEF Describe, CandleSets
<1>9. QED BY <1>2, <1>3, <1>5, <1>7, <1>8
-----------------------------------------------------------------------------
(***************************************************************************)
(* What the two transactions store.                                        *)
(***************************************************************************)
LEMMA MergedPublished ==
  ASSUME HistoryInv, NEW r \in Refreshes
  PROVE  /\ published \subseteq 1..MaxDay
         /\ Merged(r) \subseteq published /\ refresh[r].added \subseteq published
<1>1. today \in 2..MaxDay /\ published \subseteq 1..today - 1 /\ MaxDay \in Nat
  BY ManagedHistoryAssumptions DEF HistoryInv, HistoryTypeOK
<1>2. published \subseteq 1..MaxDay
  BY <1>1
<1>3. refresh[r].added \cup refresh[r].existing \subseteq published
  BY DEF HistoryInv, HistoryTypeOK
<1>4. QED BY <1>2, <1>3 DEF Merged

LEMMA ReplaceKeepsSeries ==
  ASSUME HistoryInv, NEW r \in Refreshes, Storable(r),
         set' = Describe(Merged(r)), rows' = Merged(r), UNCHANGED <<today, published>>
  PROVE  set' \in CandleSets /\ set' # Absent /\ rows' \subseteq 1..MaxDay /\ SeriesConsistent'
<1>1. Merged(r) \in SUBSET (1..MaxDay) /\ Merged(r) \subseteq published
  BY MergedPublished
<1>2. Contiguous(Merged(r)) /\ Cardinality(Merged(r)) >= MinimumCandleCount
  BY DEF Storable
<1>3. /\ IsLast(set'.last, Merged(r))
      /\ Merged(r) = set'.first..set'.last
      /\ set' \in CandleSets
      /\ set'.count = Cardinality(Merged(r))
  BY <1>1, <1>2, ContiguousIsInterval
<1>4. set'.last < today
  <2>1. set'.last \in published
    BY <1>1, <1>3 DEF IsLast
  <2>2. today \in Nat /\ published \subseteq 1..today - 1
    BY ManagedHistoryAssumptions DEF HistoryInv, HistoryTypeOK
  <2>3. \A x \in published : x < today
    BY <2>2
  <2>4. QED BY <2>1, <2>3
<1>5. set' # Absent
  <2>1. set'.count # 0
    BY <1>2, <1>3, ManagedHistoryAssumptions
  <2>2. QED BY <2>1 DEF Absent
<1>6. QED BY <1>1, <1>2, <1>3, <1>4, <1>5 DEF SeriesConsistent

LEMMA AppendKeepsSeries ==
  ASSUME HistoryInv, NEW r \in Refreshes, set # Absent,
         IsFirst(set.last + 1, refresh[r].added), Contiguous(refresh[r].added),
         set' = WithAdded(set, refresh[r].added), rows' = rows \cup refresh[r].added,
         UNCHANGED <<today, published>>
  PROVE  set' \in CandleSets /\ set' # Absent /\ rows' \subseteq 1..MaxDay /\ SeriesConsistent'
<1> DEFINE added == refresh[r].added
           f == set.last + 1
           l == Describe(added).last
<1>1. added \in SUBSET (1..MaxDay) /\ added \subseteq published
  BY MergedPublished
<1>2. IsLast(l, added) /\ added = Describe(added).first..l /\ IsFirst(Describe(added).first, added)
  BY <1>1, ContiguousIsInterval
<1>3. /\ set \in CandleSets /\ today \in 2..MaxDay /\ published \subseteq 1..today - 1
      /\ MaxDay \in Nat /\ MinimumCandleCount \in Nat \ {0}
  BY ManagedHistoryAssumptions DEF HistoryInv, HistoryTypeOK
<1>4. /\ rows = set.first..set.last /\ set.count = Cardinality(rows)
      /\ set.count >= MinimumCandleCount /\ rows \subseteq published
  BY DEF HistoryInv, SeriesConsistent
<1>5. set.first \in Nat /\ set.last \in Nat /\ set.count \in Nat
  BY <1>3 DEF CandleSets
<1>6. Describe(added).first = f
  <2>1. /\ f \in added /\ Describe(added).first \in added
        /\ f <= Describe(added).first /\ Describe(added).first <= f
    BY <1>2 DEF IsFirst
  <2>2. f \in Nat /\ Describe(added).first \in Nat
    BY <1>1, <2>1
  <2>3. QED BY <2>1, <2>2
<1>7. l \in 1..MaxDay /\ l \in published /\ f <= l /\ l < today
  <2>1. l \in added /\ f \in added /\ f <= l
    BY <1>2 DEF IsFirst, IsLast
  <2>2. l \in 1..MaxDay /\ l \in published
    BY <1>1, <2>1
  <2>3. l < today
    BY <1>3, <2>2
  <2>4. QED BY <2>1, <2>2, <2>3
<1> HIDE DEF l
<1>8. Cardinality(added) = l - set.last /\ set.count = set.last - set.first + 1
  <2>0. f \in Int /\ l \in Int /\ set.first \in Int /\ set.last \in Int
    BY <1>5, <1>7
  <2>1. Cardinality(f..l) = l - f + 1
    <3> HIDE DEF f
    <3>1. Cardinality(f..l) = IF f > l THEN 0 ELSE l - f + 1
      BY <2>0, FS_Interval
    <3>2. QED BY <1>7, <2>0, <3>1
  <2>2. Cardinality(rows) = IF set.first > set.last THEN 0 ELSE set.last - set.first + 1
    <3>1. Cardinality(set.first..set.last) = IF set.first > set.last THEN 0 ELSE set.last - set.first + 1
      BY <2>0, FS_Interval
    <3>2. QED BY <1>4, <3>1
  <2>3. set.count >= 1
    BY <1>3, <1>4, <1>5
  <2>4. QED BY <1>2, <1>4, <1>5, <1>6, <1>7, <2>1, <2>2, <2>3
<1>9. /\ set'.first = set.first /\ set'.last = l
      /\ set'.count = set.count + Cardinality(added)
  BY <1>3 DEF WithAdded, CandleSets, Describe, l
<1>10. set.first <= set.last
  BY <1>3, <1>4, <1>5, <1>8
<1>11. rows' = set'.first..set'.last
  <2>1. added = f..l
    BY <1>2, <1>6
  <2> HIDE DEF added
  <2>2. rows' = (set.first..set.last) \cup (f..l)
    BY <1>4, <2>1 DEF added
  <2>3. QED BY <1>5, <1>7, <1>9, <1>10, <2>2
<1>12. set'.count = Cardinality(rows') /\ set'.count >= MinimumCandleCount /\ set'.count <= MaxDay
  <2>1. set'.count = l - set.first + 1
    BY <1>5, <1>7, <1>8, <1>9
  <2>2. Cardinality(set.first..l) = l - set.first + 1
    BY <1>5, <1>7, <1>10, FS_Interval
  <2>3. set.first >= 1
    BY <1>1, <1>3, <1>4, <1>5, <1>10
  <2>4. set'.count <= MaxDay
    BY <1>3, <1>5, <1>7, <2>1, <2>3
  <2>5. set'.count >= MinimumCandleCount
    BY <1>3, <1>4, <1>5, <1>7, <1>8, <1>10, <2>1
  <2>6. QED BY <1>9, <1>11, <2>1, <2>2, <2>4, <2>5
<1>13. set' \in CandleSets
  <2>1. set'.count \in 0..MaxDay
    BY <1>3, <1>5, <1>7, <1>8, <1>9, <1>12
  <2>2. set' = [set EXCEPT !.last = l, !.count = set.count + Cardinality(added)]
    BY <1>3 DEF WithAdded, CandleSets, Describe, l
  <2>3. set.count + Cardinality(added) \in 0..MaxDay
    BY <1>9, <2>1
  <2>4. l \in 0..MaxDay
    BY <1>3, <1>7
  <2>5. QED BY <1>3, <2>2, <2>3, <2>4 DEF CandleSets
<1>14. set' # Absent
  BY <1>3, <1>5, <1>9, <1>7 DEF Absent
<1>15. rows' \subseteq published
  BY <1>1, <1>4
<1>16. QED
  BY <1>3, <1>7, <1>9, <1>11, <1>12, <1>13, <1>14, <1>15, MergedPublished DEF SeriesConsistent
-----------------------------------------------------------------------------
(***************************************************************************)
(* Steps.                                                                  *)
(***************************************************************************)
\* How a step of r may move the lock along with r's job.
LockFollows(r, job) ==
  \/ lock' = lock /\ (job.pc \in Working <=> refresh[r].pc \in Working)
  \/ lock = Nobody /\ lock' = r /\ job.pc \in Working
  \/ refresh[r].pc \in Working /\ lock' = Nobody /\ job.pc \notin Working

LEMMA JobStep ==
  ASSUME HistoryInv, NEW r \in Refreshes, NEW job \in RefreshJob,
         refresh' = [refresh EXCEPT ![r] = job], LockFollows(r, job),
         job.added \cup job.existing \subseteq published,
         UNCHANGED <<today, published>>,
         set' \in CandleSets, rows' \subseteq 1..MaxDay, SeriesConsistent'
  PROVE  HistoryInv'
<1>1. /\ refresh \in [Refreshes -> RefreshJob]
      /\ \A q \in Refreshes : refresh[q].added \cup refresh[q].existing \subseteq published
      /\ \A q \in Refreshes : lock = q <=> refresh[q].pc \in Working
      /\ Nobody \notin Refreshes
  BY ManagedHistoryAssumptions DEF HistoryInv, HistoryTypeOK
<1>2. refresh' \in [Refreshes -> RefreshJob] /\ refresh'[r] = job
      /\ \A q \in Refreshes : q # r => refresh'[q] = refresh[q]
  BY <1>1
<1>3. \A q \in Refreshes : refresh'[q].added \cup refresh'[q].existing \subseteq published'
  BY <1>1, <1>2
<1>4. \A q \in Refreshes : lock' = q <=> refresh'[q].pc \in Working
  BY <1>1, <1>2 DEF LockFollows
<1>5. HistoryTypeOK'
  BY <1>2, <1>3, <1>4 DEF HistoryInv, HistoryTypeOK
<1>6. QED BY <1>5 DEF HistoryInv

\* The same for a step that leaves the tables alone.
LEMMA QuietStep ==
  ASSUME HistoryInv, NEW r \in Refreshes, NEW job \in RefreshJob,
         refresh' = [refresh EXCEPT ![r] = job], LockFollows(r, job),
         job.added \cup job.existing \subseteq published,
         UNCHANGED <<today, published, set, rows>>
  PROVE  HistoryInv'
<1>1. set' \in CandleSets /\ rows' \subseteq 1..MaxDay /\ SeriesConsistent'
  BY DEF HistoryInv, HistoryTypeOK, SeriesConsistent
<1>2. QED BY <1>1, JobStep

\* Returning leaves an idle job that holds no days.
LEMMA IdleJob ==
  /\ Idle \in RefreshJob
  /\ \A a \in {"none", "ok", "failed", "rejected"} :
       /\ [Idle EXCEPT !.answer = a] \in RefreshJob
       /\ [Idle EXCEPT !.answer = a].pc \notin Working
       /\ [Idle EXCEPT !.answer = a].added \cup [Idle EXCEPT !.answer = a].existing = {}
<1>1. Idle \in RefreshJob /\ Idle.added = {} /\ Idle.existing = {} /\ Idle.pc = "idle"
  BY ManagedHistoryAssumptions DEF Idle, RefreshJob
<1>2. ASSUME NEW a \in {"none", "ok", "failed", "rejected"}
      PROVE  /\ [Idle EXCEPT !.answer = a] \in RefreshJob
             /\ [Idle EXCEPT !.answer = a].pc = Idle.pc
             /\ [Idle EXCEPT !.answer = a].added = Idle.added
             /\ [Idle EXCEPT !.answer = a].existing = Idle.existing
  BY <1>1 DEF RefreshJob
<1>3. "idle" \notin Working
  BY DEF Working
<1>4. QED BY <1>1, <1>2, <1>3

LEMMA AnswerStep ==
  ASSUME HistoryInv, NEW r \in Refreshes, NEW a \in {"ok", "failed", "rejected"},
         refresh[r].pc \in Working, Answer(r, a), UNCHANGED <<today, published>>,
         set' \in CandleSets, rows' \subseteq 1..MaxDay, SeriesConsistent'
  PROVE  HistoryInv'
<1> DEFINE job == [Idle EXCEPT !.answer = a]
<1>1. /\ job \in RefreshJob /\ job.pc \notin Working
      /\ job.added \cup job.existing \subseteq published
  BY IdleJob
<1>2. refresh' = [refresh EXCEPT ![r] = job] /\ LockFollows(r, job)
  BY <1>1 DEF Answer, LockFollows
<1> HIDE DEF job
<1>3. QED BY <1>1, <1>2, JobStep

LEMMA QuietAnswer ==
  ASSUME HistoryInv, NEW r \in Refreshes, NEW a \in {"ok", "failed", "rejected"},
         refresh[r].pc \in Working, Answer(r, a), UNCHANGED <<today, published, set, rows>>
  PROVE  HistoryInv'
<1>1. set' \in CandleSets /\ rows' \subseteq 1..MaxDay /\ SeriesConsistent'
  BY DEF HistoryInv, HistoryTypeOK, SeriesConsistent
<1>2. QED BY <1>1, AnswerStep

LEMMA InitInv == HistoryInit => HistoryInv
<1> SUFFICES ASSUME HistoryInit PROVE HistoryInv
  OBVIOUS
<1>1. SeriesConsistent
  BY DEF HistoryInit, SeriesConsistent
<1>2. HistoryTypeOK
  <2>1. set \in CandleSets
    BY ManagedHistoryAssumptions DEF HistoryInit, CandleSets, Absent
  <2>2. refresh \in [Refreshes -> RefreshJob]
    BY IdleJob DEF HistoryInit
  <2>3. \A r \in Refreshes : refresh[r].added \cup refresh[r].existing \subseteq published
    BY DEF HistoryInit, Idle
  <2>4. \A r \in Refreshes : lock = r <=> refresh[r].pc \in Working
    BY ManagedHistoryAssumptions DEF HistoryInit, Idle, Working
  <2>5. today \in 2..MaxDay /\ published \subseteq 1..today - 1 /\ rows \subseteq 1..MaxDay
    BY ManagedHistoryAssumptions DEF HistoryInit
  <2>6. QED BY <2>1, <2>2, <2>3, <2>4, <2>5 DEF HistoryTypeOK
<1>3. QED BY <1>1, <1>2 DEF HistoryInv

LEMMA MidnightInv ==
  ASSUME HistoryInv, Midnight
  PROVE  HistoryInv'
<1>1. /\ today \in 2..MaxDay /\ published \subseteq 1..today - 1
      /\ today < MaxDay /\ today' = today + 1 /\ published' \subseteq published \cup {today}
      /\ published \subseteq published' /\ MaxDay \in Nat
  BY ManagedHistoryAssumptions DEF HistoryInv, HistoryTypeOK, Midnight
<1>2. UNCHANGED <<set, rows, lock, refresh>>
  BY DEF Midnight
<1>3. today' \in 2..MaxDay /\ published' \subseteq 1..today' - 1
  BY <1>1
<1>4. HistoryTypeOK'
  BY <1>1, <1>2, <1>3 DEF HistoryInv, HistoryTypeOK
<1>5. SeriesConsistent'
  <2>1. CASE set = Absent
    BY <2>1, <1>2 DEF HistoryInv, SeriesConsistent
  <2>2. CASE set # Absent
    <3>1. set.last \in Nat
      BY ManagedHistoryAssumptions DEF HistoryInv, HistoryTypeOK, CandleSets
    <3>2. set.last < today /\ rows \subseteq published
      BY <2>2 DEF HistoryInv, SeriesConsistent
    <3>3. set'.last < today' /\ rows' \subseteq published'
      BY <1>1, <1>2, <3>1, <3>2
    <3>4. QED BY <2>2, <1>2, <3>3 DEF HistoryInv, SeriesConsistent
  <2>3. QED BY <2>1, <2>2
<1>6. QED BY <1>4, <1>5 DEF HistoryInv

LEMMA DropInv ==
  ASSUME HistoryInv, DropCandleSet
  PROVE  HistoryInv'
<1>1. Absent \in CandleSets
  BY ManagedHistoryAssumptions DEF Absent, CandleSets
<1>2. HistoryTypeOK'
  BY <1>1 DEF HistoryInv, HistoryTypeOK, DropCandleSet
<1>3. SeriesConsistent'
  BY DEF DropCandleSet, SeriesConsistent
<1>4. QED BY <1>2, <1>3 DEF HistoryInv

\* One step per action of a refresh.
LEMMA RefreshInv ==
  ASSUME HistoryInv, NEW r \in Refreshes, Begin(r) \/ Acquire(r) \/ Step(r) \/ Fail(r)
  PROVE  HistoryInv'
<1>1. /\ refresh \in [Refreshes -> RefreshJob] /\ refresh[r] \in RefreshJob
      /\ refresh[r].added \cup refresh[r].existing \subseteq published
      /\ today \in 2..MaxDay /\ published \subseteq 1..today - 1
      /\ set \in CandleSets /\ rows \subseteq 1..MaxDay
      /\ MaxDay \in Nat /\ PageDays \in Nat \ {0}
  BY ManagedHistoryAssumptions DEF HistoryInv, HistoryTypeOK
<1>2. published \subseteq 1..MaxDay
  BY <1>1
<1>3. CASE Begin(r)
  <2> DEFINE job == [Idle EXCEPT !.pc = "waiting"]
  <2>1. /\ job \in RefreshJob /\ job.pc = "waiting"
        /\ job.added \cup job.existing \subseteq published
    BY IdleJob DEF RefreshJob, Idle
  <2>2. refresh' = [refresh EXCEPT ![r] = job]
    BY <1>3 DEF Begin
  <2>3. LockFollows(r, job) /\ UNCHANGED <<today, published, set, rows>>
    BY <1>3, <2>1 DEF Begin, At, LockFollows, Working
  <2> HIDE DEF job
  <2>4. QED BY <2>1, <2>2, <2>3, QuietStep
<1>4. CASE Acquire(r)
  <2> DEFINE job == [refresh[r] EXCEPT !.pc = "metadata"]
  <2>1. /\ job \in RefreshJob /\ job.pc = "metadata"
        /\ job.added = refresh[r].added /\ job.existing = refresh[r].existing
    BY <1>1 DEF RefreshJob, Working
  <2>2. refresh' = [refresh EXCEPT ![r] = job]
    BY <1>1, <1>4 DEF Acquire
  <2>3. LockFollows(r, job) /\ UNCHANGED <<today, published, set, rows>>
    BY <1>4, <2>1 DEF Acquire, At, LockFollows, Working
  <2> HIDE DEF job
  <2>4. QED BY <1>1, <2>1, <2>2, <2>3, QuietStep
<1>5. CASE ReadMetadata(r)
  <2> DEFINE start == IF set = Absent THEN 1 ELSE set.last + 1
             job == [refresh[r] EXCEPT !.pc = "pages", !.isNew = set = Absent,
                                       !.end = today, !.cursor = start]
  <2>1. start \in 0..MaxDay
    <3>1. set # Absent => set.last \in Nat /\ set.last < today
      BY <1>1 DEF HistoryInv, SeriesConsistent, CandleSets
    <3>2. QED BY <1>1, <3>1
  <2> HIDE DEF start
  <2>2. /\ job \in RefreshJob /\ job.pc = "pages"
        /\ job.added = refresh[r].added /\ job.existing = refresh[r].existing
    <3>1. today \in 0..MaxDay /\ (set = Absent) \in BOOLEAN
      BY <1>1
    <3>2. QED BY <1>1, <2>1, <3>1 DEF RefreshJob, Working
  <2>3. refresh' = [refresh EXCEPT ![r] = job]
    BY <1>1, <1>5 DEF ReadMetadata, start
  <2>4. LockFollows(r, job) /\ UNCHANGED <<today, published, set, rows>>
    BY <1>5, <2>2 DEF ReadMetadata, At, LockFollows, Working
  <2> HIDE DEF job
  <2>5. QED BY <1>1, <2>2, <2>3, <2>4, QuietStep
<1>6. CASE FetchPage(r)
  <2> DEFINE cursor == refresh[r].cursor
             end == refresh[r].end
             page == published \cap (cursor..PageEnd(cursor, end) - 1)
             next == NextCursor(cursor, end, page)
             job == [refresh[r] EXCEPT !.added = @ \cup page, !.cursor = next]
  <2>1. next \in 0..MaxDay
    <3>1. cursor \in 0..MaxDay /\ end \in 0..MaxDay
      BY <1>1 DEF RefreshJob
    <3>2. QED BY <1>1, <3>1 DEF NextCursor, PageEnd
  <2>2. page \subseteq published
    OBVIOUS
  <2> HIDE DEF next, page, cursor, end
  <2>3. /\ job \in RefreshJob /\ job.pc = refresh[r].pc
        /\ job.added = refresh[r].added \cup page /\ job.existing = refresh[r].existing
    <3>1. refresh[r].added \cup page \in SUBSET (1..MaxDay)
      BY <1>1, <1>2, <2>2
    <3>2. QED BY <1>1, <2>1, <3>1 DEF RefreshJob
  <2>4. refresh' = [refresh EXCEPT ![r] = job]
    <3>1. refresh' = [refresh EXCEPT ![r].added = @ \cup page, ![r].cursor = next]
      BY <1>6 DEF FetchPage, next, page, cursor, end
    <3>2. QED BY <1>1, <3>1 DEF RefreshJob
  <2>5. LockFollows(r, job) /\ UNCHANGED <<today, published, set, rows>>
    BY <1>6, <2>3 DEF FetchPage, LockFollows
  <2> HIDE DEF job
  <2>6. QED BY <1>1, <2>2, <2>3, <2>4, <2>5, QuietStep
<1>7. CASE KeepSuffix(r)
  <2> DEFINE suffix == LongestContiguousSuffix(refresh[r].added)
             job == [refresh[r] EXCEPT !.pc = "store", !.added = suffix]
  <2>1. suffix \subseteq refresh[r].added
    BY DEF LongestContiguousSuffix
  <2> HIDE DEF suffix
  <2>2. /\ job \in RefreshJob /\ job.pc = "store"
        /\ job.added = suffix /\ job.existing = refresh[r].existing
    BY <1>1, <2>1 DEF RefreshJob, Working
  <2>3. refresh' = [refresh EXCEPT ![r] = job]
    BY <1>1, <1>7 DEF KeepSuffix, suffix
  <2>4. LockFollows(r, job) /\ UNCHANGED <<today, published, set, rows>>
    BY <1>7, <2>2 DEF KeepSuffix, At, LockFollows, Working
  <2> HIDE DEF job
  <2>5. QED BY <1>1, <2>1, <2>2, <2>3, <2>4, QuietStep
<1>8. CASE ReadExistingSet(r)
  <2> DEFINE job == [refresh[r] EXCEPT !.pc = "existing", !.count = set.count]
  <2>1. /\ job \in RefreshJob /\ job.pc = "existing"
        /\ job.added = refresh[r].added /\ job.existing = refresh[r].existing
    <3>1. set.count \in 0..MaxDay
      BY <1>1 DEF CandleSets
    <3>2. QED BY <1>1, <3>1 DEF RefreshJob, Working
  <2>2. refresh' = [refresh EXCEPT ![r] = job]
    <3>1. refresh' = [refresh EXCEPT ![r].pc = "existing", ![r].count = set.count]
      BY <1>8 DEF ReadExistingSet
    <3>2. QED BY <1>1, <3>1 DEF RefreshJob
  <2>3. LockFollows(r, job) /\ UNCHANGED <<today, published, set, rows>>
    BY <1>8, <2>1 DEF ReadExistingSet, At, LockFollows, Working
  <2> HIDE DEF job
  <2>4. QED BY <1>1, <2>1, <2>2, <2>3, QuietStep
<1>9. CASE ReadExistingRows(r)
  <2> DEFINE job == [refresh[r] EXCEPT !.pc = "store", !.existing = rows]
  <2>1. /\ job \in RefreshJob /\ job.pc = "store"
        /\ job.added = refresh[r].added /\ job.existing = rows
    BY <1>1 DEF RefreshJob, Working
  <2>2. refresh' = [refresh EXCEPT ![r] = job]
    <3>1. refresh' = [refresh EXCEPT ![r].pc = "store", ![r].existing = rows]
      BY <1>9 DEF ReadExistingRows
    <3>2. QED BY <1>1, <3>1 DEF RefreshJob
  <2>3. rows \subseteq published
    BY DEF HistoryInv, SeriesConsistent
  <2>4. LockFollows(r, job) /\ UNCHANGED <<today, published, set, rows>>
    BY <1>9, <2>1 DEF ReadExistingRows, At, LockFollows, Working
  <2> HIDE DEF job
  <2>5. QED BY <1>1, <2>1, <2>2, <2>3, <2>4, QuietStep
<1>10. CASE NothingToAdd(r)
  <2>1. /\ refresh[r].pc \in Working /\ Answer(r, "ok")
        /\ UNCHANGED <<today, published, set, rows>>
    BY <1>10 DEF NothingToAdd, At, Working
  <2>2. QED BY <2>1, QuietAnswer
<1>11. CASE Reject(r)
  <2>1. /\ refresh[r].pc \in Working /\ Answer(r, "rejected")
        /\ UNCHANGED <<today, published, set, rows>>
    BY <1>11 DEF Reject, At, Working
  <2>2. QED BY <2>1, QuietAnswer
<1>12. CASE Conflict(r) \/ Fail(r)
  <2>1. /\ refresh[r].pc \in Working /\ Answer(r, "failed")
        /\ UNCHANGED <<today, published, set, rows>>
    BY <1>12 DEF Conflict, Fail, Storable, At, Working
  <2>2. QED BY <2>1, QuietAnswer
<1>13. CASE ReplaceManagedBacktestCandleSet(r)
  <2>1. /\ Storable(r) /\ refresh[r].pc \in Working
        /\ set' = Describe(Merged(r)) /\ rows' = Merged(r)
        /\ UNCHANGED <<today, published>>
    BY <1>13 DEF ReplaceManagedBacktestCandleSet, Storable, At, Working
  <2>2. set' \in CandleSets /\ rows' \subseteq 1..MaxDay /\ SeriesConsistent'
    BY <2>1, ReplaceKeepsSeries
  <2>3. Answer(r, "ok") \/ Answer(r, "failed")
    BY <1>13 DEF ReplaceManagedBacktestCandleSet, Stored
  <2>4. QED BY <2>1, <2>2, <2>3, AnswerStep
<1>14. CASE AppendManagedBacktestCandles(r)
  <2>1. /\ refresh[r].pc \in Working /\ set # Absent
        /\ IsFirst(set.last + 1, refresh[r].added) /\ Contiguous(refresh[r].added)
        /\ set' = WithAdded(set, refresh[r].added) /\ rows' = rows \cup refresh[r].added
        /\ UNCHANGED <<today, published>>
    BY <1>14 DEF AppendManagedBacktestCandles, Storable, At, Working
  <2>2. set' \in CandleSets /\ rows' \subseteq 1..MaxDay /\ SeriesConsistent'
    BY <2>1, AppendKeepsSeries
  <2>3. Answer(r, "ok") \/ Answer(r, "failed")
    BY <1>14 DEF AppendManagedBacktestCandles, Stored
  <2>4. QED BY <2>1, <2>2, <2>3, AnswerStep
<1>15. QED
  BY <1>3, <1>4, <1>5, <1>6, <1>7, <1>8, <1>9, <1>10, <1>11, <1>12, <1>13, <1>14 DEF Step

\* A step that changes no variable keeps the invariant.
LEMMA StutterInv ==
  ASSUME HistoryInv, UNCHANGED historyVars
  PROVE  HistoryInv'
BY DEF HistoryInv, HistoryTypeOK, SeriesConsistent, historyVars

-----------------------------------------------------------------------------
(***************************************************************************)
(* The theorems.                                                           *)
(***************************************************************************)
\* HistoryInv is inductive: whatever refreshes, midnights and deletions
\* interleave, the lock, the jobs and the stored series stay consistent.
THEOREM HistoryInvariance == HistorySpec => []HistoryInv
<1>1. HistoryInv /\ [HistoryNext]_historyVars => HistoryInv'
  <2> SUFFICES ASSUME HistoryInv, [HistoryNext]_historyVars
               PROVE  HistoryInv'
    OBVIOUS
  <2>1. CASE Midnight
    BY <2>1, MidnightInv
  <2>2. CASE Refreshing
    BY <2>2, RefreshInv DEF Refreshing
  <2>3. CASE DropCandleSet
    BY <2>3, DropInv
  <2>4. CASE UNCHANGED historyVars
    BY <2>4, StutterInv
  <2>5. QED BY <2>1, <2>2, <2>3, <2>4 DEF HistoryNext
<1>2. QED BY InitInv, <1>1, PTL DEF HistorySpec

\* Every variable keeps its type; the lock is held by exactly the refresh that
\* works, and a refresh holds only days Coinbase has published.
THEOREM HistoryTypeCorrect == HistorySpec => []HistoryTypeOK
<1>1. HistoryInv => HistoryTypeOK
  BY DEF HistoryInv
<1>2. QED BY HistoryInvariance, <1>1, PTL

\* The stored series is one unbroken run of completed days that its row
\* describes, for any number of concurrent refreshes and deletions.
THEOREM SeriesAlwaysConsistent == HistorySpec => []SeriesConsistent
<1>1. HistoryInv => SeriesConsistent
  BY DEF HistoryInv
<1>2. QED BY HistoryInvariance, <1>1, PTL

(***************************************************************************)
(* A first backfill replaces the set.  That it never replaces a stored     *)
(* series does need the lock: the refresh read under it that there was     *)
(* none, and only the holder creates one.                                  *)
(***************************************************************************)
BackfillInv ==
  \A r \in Refreshes : refresh[r].isNew => refresh[r].pc \in Working /\ set = Absent

\* A step of r that leaves the set, or deletes it, and marks no backfill as new
\* unless the set is absent.
LEMMA BackfillQuiet ==
  ASSUME HistoryInv, BackfillInv, NEW r \in Refreshes, set' \in {set, Absent},
         \A q \in Refreshes \ {r} : refresh'[q] = refresh[q],
         refresh'[r].isNew => refresh'[r].pc \in Working /\ set = Absent
  PROVE  BackfillInv'
BY DEF BackfillInv

\* Returning ends the backfill of r; no other refresh works meanwhile.
LEMMA BackfillAnswer ==
  ASSUME HistoryInv, BackfillInv, NEW r \in Refreshes, refresh[r].pc \in Working,
         NEW a \in {"ok", "failed", "rejected"}, Answer(r, a)
  PROVE  BackfillInv'
<1>1. /\ refresh \in [Refreshes -> RefreshJob]
      /\ \A q \in Refreshes : lock = q <=> refresh[q].pc \in Working
  BY DEF HistoryInv, HistoryTypeOK
<1>2. refresh'[r].isNew = FALSE
  BY <1>1 DEF Answer, Idle
<1>3. ASSUME NEW q \in Refreshes, q # r
      PROVE  refresh'[q] = refresh[q] /\ ~refresh[q].isNew
  BY <1>1, <1>3 DEF Answer, BackfillInv
<1>4. QED BY <1>2, <1>3 DEF BackfillInv

LEMMA BackfillStep ==
  ASSUME HistoryInv, BackfillInv, [HistoryNext]_historyVars
  PROVE  BackfillInv'
<1>1. refresh \in [Refreshes -> RefreshJob]
  BY DEF HistoryInv, HistoryTypeOK
<1>2. CASE Midnight \/ DropCandleSet \/ UNCHANGED historyVars
  BY <1>2 DEF Midnight, DropCandleSet, historyVars, BackfillInv
<1>3. ASSUME NEW r \in Refreshes, Begin(r) \/ Acquire(r) \/ Step(r) \/ Fail(r)
      PROVE  BackfillInv'
  <2>1. CASE Begin(r)
    <3>1. set' = set /\ refresh'[r].isNew = FALSE
      BY <1>1, <2>1 DEF Begin, Idle
    <3>2. \A q \in Refreshes \ {r} : refresh'[q] = refresh[q]
      BY <1>1, <2>1 DEF Begin
    <3>3. QED BY <3>1, <3>2, BackfillQuiet
  <2>2. CASE Acquire(r)
    <3>1. set' = set /\ refresh'[r].isNew = refresh[r].isNew /\ refresh'[r].pc = "metadata"
      BY <1>1, <2>2 DEF Acquire, RefreshJob
    <3>2. \A q \in Refreshes \ {r} : refresh'[q] = refresh[q]
      BY <1>1, <2>2 DEF Acquire
    <3>3. QED BY <3>1, <3>2, BackfillQuiet DEF BackfillInv, Working
  <2>3. CASE ReadMetadata(r)
    <3>1. set' = set /\ refresh'[r].isNew = (set = Absent) /\ refresh'[r].pc = "pages"
      BY <1>1, <2>3 DEF ReadMetadata, RefreshJob
    <3>2. \A q \in Refreshes \ {r} : refresh'[q] = refresh[q]
      BY <1>1, <2>3 DEF ReadMetadata
    <3>3. QED BY <3>1, <3>2, BackfillQuiet DEF Working
  <2>4. CASE FetchPage(r) \/ KeepSuffix(r) \/ ReadExistingSet(r) \/ ReadExistingRows(r)
    <3>1. set' = set /\ refresh'[r].isNew = refresh[r].isNew /\ refresh'[r].pc \in Working
      <4>1. CASE FetchPage(r)
        BY <1>1, <4>1 DEF FetchPage, At, Working, RefreshJob
      <4>2. CASE KeepSuffix(r)
        BY <1>1, <4>2 DEF KeepSuffix, Working, RefreshJob
      <4>3. CASE ReadExistingSet(r)
        BY <1>1, <4>3 DEF ReadExistingSet, Working, RefreshJob
      <4>4. CASE ReadExistingRows(r)
        BY <1>1, <4>4 DEF ReadExistingRows, Working, RefreshJob
      <4>5. QED BY <2>4, <4>1, <4>2, <4>3, <4>4
    <3>2. \A q \in Refreshes \ {r} : refresh'[q] = refresh[q]
      BY <1>1, <2>4 DEF FetchPage, KeepSuffix, ReadExistingSet, ReadExistingRows
    <3>3. QED BY <3>1, <3>2, BackfillQuiet DEF BackfillInv
  <2>5. CASE NothingToAdd(r) \/ Reject(r) \/ Conflict(r) \/ Fail(r)
    <3>1. refresh[r].pc \in Working
      BY <2>5 DEF NothingToAdd, Reject, Conflict, Fail, Storable, At, Working
    <3>2. Answer(r, "ok") \/ Answer(r, "rejected") \/ Answer(r, "failed")
      BY <2>5 DEF NothingToAdd, Reject, Conflict, Fail
    <3>3. QED BY <3>1, <3>2, BackfillAnswer
  <2>6. CASE ReplaceManagedBacktestCandleSet(r) \/ AppendManagedBacktestCandles(r)
    <3>1. refresh[r].pc \in Working
      BY <2>6 DEF ReplaceManagedBacktestCandleSet, AppendManagedBacktestCandles, Storable, At,
                  Working
    <3>2. Answer(r, "ok") \/ Answer(r, "failed")
      BY <2>6 DEF ReplaceManagedBacktestCandleSet, AppendManagedBacktestCandles, Stored
    <3>3. QED BY <3>1, <3>2, BackfillAnswer
  <2>7. QED BY <1>3, <2>1, <2>2, <2>3, <2>4, <2>5, <2>6 DEF Step
<1>4. QED BY <1>2, <1>3 DEF HistoryNext, Refreshing

\* The stored series is append-only while it exists: a backfill never
\* replaces one, and an append leaves every stored day in place.
THEOREM SeriesAppendOnly == HistorySpec => SeriesOnlyGrows
<1>1. HistoryInit => BackfillInv
  BY DEF HistoryInit, Idle, BackfillInv
<1>2. HistoryInv /\ BackfillInv /\ [HistoryNext]_historyVars => BackfillInv'
  BY BackfillStep
<1>3. ASSUME HistoryInv, BackfillInv, HistoryNext, set # Absent, set' # Absent
      PROVE  set'.first = set.first /\ rows \subseteq rows'
  <2>1. CASE set' = set /\ rows' = rows
    BY <2>1
  <2>2. ASSUME NEW r \in Refreshes, ReplaceManagedBacktestCandleSet(r)
        PROVE  FALSE
    BY <1>3, <2>2 DEF ReplaceManagedBacktestCandleSet, BackfillInv
  <2>3. ASSUME NEW r \in Refreshes, AppendManagedBacktestCandles(r)
        PROVE  set'.first = set.first /\ rows \subseteq rows'
    <3>1. set \in CandleSets /\ set' = WithAdded(set, refresh[r].added)
      BY <1>3, <2>3 DEF AppendManagedBacktestCandles, HistoryInv, HistoryTypeOK
    <3>2. set'.first = set.first
      BY <3>1 DEF WithAdded, CandleSets
    <3>3. QED BY <2>3, <3>2 DEF AppendManagedBacktestCandles
  <2>4. ASSUME NEW r \in Refreshes,
               Begin(r) \/ Acquire(r) \/ ReadMetadata(r) \/ FetchPage(r) \/ NothingToAdd(r)
                 \/ KeepSuffix(r) \/ ReadExistingSet(r) \/ ReadExistingRows(r) \/ Reject(r)
                 \/ Conflict(r) \/ Fail(r)
        PROVE  set' = set /\ rows' = rows
    BY <2>4 DEF Begin, Acquire, ReadMetadata, FetchPage, NothingToAdd, KeepSuffix,
                ReadExistingSet, ReadExistingRows, Reject, Conflict, Fail
  <2>5. CASE Midnight
    BY <2>1, <2>5 DEF Midnight
  <2>6. CASE DropCandleSet
    BY <1>3, <2>6 DEF DropCandleSet
  <2>7. QED BY <1>3, <2>1, <2>2, <2>3, <2>4, <2>5, <2>6 DEF HistoryNext, Refreshing, Step
<1>4. HistoryInv /\ BackfillInv /\ [HistoryNext]_historyVars =>
        [set # Absent /\ set' # Absent => set'.first = set.first /\ rows \subseteq rows']_historyVars
  BY <1>3
<1>5. HistorySpec => []BackfillInv
  BY HistoryInvariance, <1>1, <1>2, PTL DEF HistorySpec
<1>6. QED BY HistoryInvariance, <1>4, <1>5, PTL DEF HistorySpec, SeriesOnlyGrows

(***************************************************************************)
(* A refresh leaves no published day behind.  The days before its cursor   *)
(* are fetched, or stored since before it read the set's row; a deletion   *)
(* meanwhile leaves no set to be up to date.                               *)
(***************************************************************************)
Reading == {"pages", "existing", "store"}

\* The day up to which a refresh has asked.
Passed(job) == IF job.pc = "pages" THEN job.cursor ELSE job.end

Reached(job, d) ==
  \/ \E e \in job.added : d <= e
  \/ ~job.isNew /\ (set # Absent => d <= set.last)

JobPassed(job) ==
  /\ job.pc # "idle" => job.answer = "none"
  /\ job.pc \in Reading =>
       /\ Passed(job) <= job.end /\ job.end <= today
       /\ \A d \in published : d < Passed(job) => Reached(job, d)

PassedInv == \A r \in Refreshes : JobPassed(refresh[r])

\* Days only come after those a refresh asked for, and a deletion takes away
\* what had to be reached.
LEMMA PassedOutside ==
  ASSUME HistoryInv, PassedInv, Midnight \/ DropCandleSet \/ UNCHANGED historyVars
  PROVE  PassedInv'
<1> SUFFICES ASSUME NEW r \in Refreshes PROVE JobPassed(refresh[r])'
  BY DEF PassedInv
<1>1. JobPassed(refresh[r]) /\ refresh' = refresh /\ refresh[r] \in RefreshJob
  BY DEF PassedInv, Midnight, DropCandleSet, historyVars, HistoryInv, HistoryTypeOK
<1>2. today \in Nat /\ published \subseteq 1..today - 1 /\ Passed(refresh[r]) \in Nat
  BY <1>1, ManagedHistoryAssumptions DEF HistoryInv, HistoryTypeOK, RefreshJob, Passed
<1>3. today' \in Nat /\ today <= today'
  BY <1>2 DEF Midnight, DropCandleSet, historyVars
<1>4. \A d \in published' : d \in published \/ d = today
  BY DEF Midnight, DropCandleSet, historyVars
<1>5. set' = set \/ set' = Absent
  BY DEF Midnight, DropCandleSet, historyVars
<1>6. \A d : Reached(refresh[r], d) => Reached(refresh[r], d)'
  BY <1>1, <1>5 DEF Reached
<1>7. refresh[r].end \in Nat
  BY <1>1, ManagedHistoryAssumptions DEF RefreshJob
<1>8. CASE refresh[r].pc \notin Reading
  BY <1>1, <1>8 DEF JobPassed
<1>9. CASE refresh[r].pc \in Reading
  <2>1. Passed(refresh[r]) <= refresh[r].end /\ refresh[r].end <= today
    BY <1>1, <1>9 DEF JobPassed
  <2>2. Passed(refresh[r])' = Passed(refresh[r]) /\ refresh[r].end <= today'
    BY <1>1, <1>2, <1>3, <1>7, <2>1 DEF Passed
  <2>3. ASSUME NEW d \in published', d < Passed(refresh[r]) PROVE Reached(refresh[r], d)'
    <3>1. d \in published
      BY <1>2, <1>4, <1>7, <2>1, <2>3
    <3>2. QED BY <1>1, <1>6, <1>9, <2>3, <3>1 DEF JobPassed
  <2>4. QED BY <1>1, <2>1, <2>2, <2>3 DEF JobPassed
<1>10. QED BY <1>8, <1>9

\* A step of r that leaves the tables alone is a matter of r's job only.
LEMMA PassedQuiet ==
  ASSUME PassedInv, NEW r \in Refreshes, UNCHANGED <<today, published, set>>,
         \A q \in Refreshes \ {r} : refresh'[q] = refresh[q],
         JobPassed(refresh'[r])
  PROVE  PassedInv'
BY DEF PassedInv, JobPassed, Passed, Reached

\* When r returns no other refresh works, whatever r stored.
LEMMA PassedAnswer ==
  ASSUME HistoryInv, PassedInv, NEW r \in Refreshes, refresh[r].pc \in Working,
         NEW a \in {"ok", "failed", "rejected"}, Answer(r, a)
  PROVE  PassedInv'
<1>1. /\ refresh \in [Refreshes -> RefreshJob]
      /\ \A q \in Refreshes : lock = q <=> refresh[q].pc \in Working
  BY DEF HistoryInv, HistoryTypeOK
<1>2. refresh'[r].pc = "idle"
  BY <1>1 DEF Answer, Idle
<1>3. ASSUME NEW q \in Refreshes, q # r
      PROVE  refresh'[q] = refresh[q] /\ refresh[q].pc \notin Reading
  BY <1>1, <1>3 DEF Answer, Working, Reading
<1>4. QED BY <1>2, <1>3 DEF PassedInv, JobPassed, Reading

\* The page adds every published day up to the next cursor.
LEMMA PassedPage ==
  ASSUME HistoryInv, PassedInv, NEW r \in Refreshes, FetchPage(r)
  PROVE  JobPassed(refresh'[r])
<1> DEFINE old == refresh[r]
           new == refresh'[r]
           next == PageEnd(old.cursor, old.end)
           page == published \cap (old.cursor..next - 1)
<1>1. refresh \in [Refreshes -> RefreshJob] /\ published \subseteq Nat
  BY ManagedHistoryAssumptions DEF HistoryInv, HistoryTypeOK
<1>2. old.cursor \in Nat /\ old.end \in Nat /\ old.pc = "pages" /\ old.cursor < old.end
  BY <1>1, ManagedHistoryAssumptions DEF RefreshJob, FetchPage, At
<1>3. /\ new.pc = "pages" /\ new.answer = old.answer /\ new.isNew = old.isNew
      /\ new.end = old.end /\ new.added = old.added \cup page /\ new.cursor = next
  BY <1>1, <1>2 DEF FetchPage, NextCursor, RefreshJob
<1>4. next \in Nat /\ next <= old.end
  BY <1>2, ManagedHistoryAssumptions DEF PageEnd
<1>5. /\ old.answer = "none" /\ old.end <= today
      /\ \A d \in published : d < old.cursor => Reached(old, d)
  BY <1>2 DEF PassedInv, JobPassed, Passed, Reading
<1> HIDE DEF next, old, new
<1>6. ASSUME NEW d \in published, d < next PROVE Reached(new, d)
  <2>1. CASE d < old.cursor
    BY <1>3, <1>5, <2>1 DEF Reached
  <2>2. CASE ~(d < old.cursor)
    <3>1. d \in page
      BY <1>1, <1>2, <1>4, <1>6, <2>2
    <3>2. d \in new.added /\ d <= d
      BY <1>1, <1>3, <3>1
    <3>3. QED BY <3>2 DEF Reached
  <2>3. QED BY <2>1, <2>2
<1>7. Passed(new) = next
  BY <1>3 DEF Passed
<1>8. JobPassed(new)
  BY <1>3, <1>4, <1>5, <1>6, <1>7 DEF JobPassed
<1>9. QED BY <1>8 DEF new

\* The newest day fetched survives whatever gaps a first backfill drops.
LEMMA PassedSuffix ==
  ASSUME HistoryInv, PassedInv, NEW r \in Refreshes, KeepSuffix(r)
  PROVE  JobPassed(refresh'[r])
<1> DEFINE old == refresh[r]
           new == refresh'[r]
<1>1. /\ refresh \in [Refreshes -> RefreshJob] /\ MaxDay \in Nat
      /\ published \subseteq Nat
  BY ManagedHistoryAssumptions DEF HistoryInv, HistoryTypeOK
<1>2. /\ old.pc = "pages" /\ old.isNew /\ old.cursor >= old.end
      /\ old.cursor \in Nat /\ old.end \in Nat /\ old.added \in SUBSET (1..MaxDay)
  BY <1>1 DEF RefreshJob, KeepSuffix, At, AllPagesRead
<1>3. /\ new.pc = "store" /\ new.answer = old.answer /\ new.end = old.end
      /\ new.added = LongestContiguousSuffix(old.added)
  BY <1>1 DEF KeepSuffix, RefreshJob
<1>4. /\ old.answer = "none" /\ old.end <= today
      /\ \A d \in published : d < old.end => Reached(old, d)
  BY <1>1, <1>2 DEF PassedInv, JobPassed, Passed, Reading
<1> HIDE DEF old, new
<1>5. ASSUME NEW d \in published, d < old.end PROVE Reached(new, d)
  <2>1. PICK e \in old.added : d <= e
    BY <1>2, <1>4, <1>5 DEF Reached
  <2>2. PICK l \in old.added : \A f \in old.added : f <= l
    BY <1>1, <1>2, <2>1, LargestOf
  <2>3. l \in LongestContiguousSuffix(old.added)
    <3>1. ASSUME NEW f \in old.added, l <= f PROVE l..f \subseteq old.added
      <4>1. f <= l /\ f \in Nat /\ l \in Nat
        BY <1>2, <2>2
      <4>2. f = l
        BY <3>1, <4>1
      <4>3. QED BY <2>2, <4>1, <4>2
    <3>2. QED BY <3>1, <2>2 DEF LongestContiguousSuffix
  <2>4. d <= l
    BY <1>1, <1>2, <2>1, <2>2
  <2>5. QED BY <1>3, <2>3, <2>4 DEF Reached
<1>6. Passed(new) = old.end /\ old.end <= old.end
  BY <1>2, <1>3 DEF Passed
<1>7. JobPassed(new)
  BY <1>3, <1>4, <1>5, <1>6 DEF JobPassed
<1>8. QED BY <1>7 DEF new

LEMMA PassedStep ==
  ASSUME HistoryInv, PassedInv, [HistoryNext]_historyVars
  PROVE  PassedInv'
<1>1. refresh \in [Refreshes -> RefreshJob] /\ PassedInv
  BY DEF HistoryInv, HistoryTypeOK
<1>2. CASE Midnight \/ DropCandleSet \/ UNCHANGED historyVars
  BY <1>2, PassedOutside
<1>3. ASSUME NEW r \in Refreshes, Begin(r) \/ Acquire(r) \/ Step(r) \/ Fail(r)
      PROVE  PassedInv'
  <2>1. CASE Begin(r) \/ Acquire(r)
    <3>1. refresh'[r].pc \in {"waiting", "metadata"} /\ refresh'[r].answer = "none"
      <4>1. CASE Begin(r)
        BY <1>1, <4>1 DEF Begin, Idle
      <4>2. CASE Acquire(r)
        <5>1. refresh[r].answer = "none"
          BY <4>2 DEF Acquire, At, PassedInv, JobPassed
        <5>2. QED BY <1>1, <4>2, <5>1 DEF Acquire, RefreshJob
      <4>3. QED BY <2>1, <4>1, <4>2
    <3>2. JobPassed(refresh'[r])
      BY <3>1 DEF JobPassed, Reading
    <3>3. /\ \A q \in Refreshes \ {r} : refresh'[q] = refresh[q]
          /\ UNCHANGED <<today, published, set>>
      BY <1>1, <2>1 DEF Begin, Acquire
    <3>4. QED BY <3>2, <3>3, PassedQuiet
  <2>2. CASE ReadMetadata(r)
    <3> DEFINE new == refresh'[r]
               start == IF set = Absent THEN 1 ELSE set.last + 1
    <3>1. /\ new.pc = "pages" /\ new.answer = refresh[r].answer /\ new.isNew = (set = Absent)
          /\ new.end = today /\ new.cursor = start
      BY <1>1, <2>2 DEF ReadMetadata, RefreshJob
    <3>2. refresh[r].answer = "none"
      BY <2>2 DEF ReadMetadata, At, PassedInv, JobPassed
    <3>3. /\ today \in Nat /\ today >= 2 /\ published \subseteq 1..today - 1
          /\ set \in CandleSets
      BY ManagedHistoryAssumptions DEF HistoryInv, HistoryTypeOK
    <3>4. set # Absent => set.last \in Nat /\ set.last < today
      BY <3>3 DEF HistoryInv, SeriesConsistent, CandleSets
    <3>5. Passed(new) = start /\ start <= today
      BY <3>1, <3>3, <3>4 DEF Passed
    <3> HIDE DEF new
    <3>6. ASSUME NEW d \in published, d < start PROVE Reached(new, d)
      <4>1. d \in Nat /\ d >= 1
        BY <3>3
      <4>2. set # Absent /\ d <= set.last
        BY <3>4, <3>6, <4>1
      <4>3. QED BY <3>1, <4>2 DEF Reached
    <3>7. JobPassed(new)
      BY <3>1, <3>2, <3>3, <3>5, <3>6 DEF JobPassed
    <3>8. /\ \A q \in Refreshes \ {r} : refresh'[q] = refresh[q]
          /\ UNCHANGED <<today, published, set>>
      BY <1>1, <2>2 DEF ReadMetadata
    <3>9. QED BY <3>7, <3>8, PassedQuiet DEF new
  <2>3. CASE FetchPage(r)
    <3>1. /\ \A q \in Refreshes \ {r} : refresh'[q] = refresh[q]
          /\ UNCHANGED <<today, published, set>>
      BY <1>1, <2>3 DEF FetchPage
    <3>2. QED BY <2>3, <3>1, PassedPage, PassedQuiet
  <2>4. CASE KeepSuffix(r)
    <3>1. /\ \A q \in Refreshes \ {r} : refresh'[q] = refresh[q]
          /\ UNCHANGED <<today, published, set>>
      BY <1>1, <2>4 DEF KeepSuffix
    <3>2. QED BY <2>4, <3>1, PassedSuffix, PassedQuiet
  <2>5. CASE ReadExistingSet(r) \/ ReadExistingRows(r)
    <3> DEFINE old == refresh[r]
               new == refresh'[r]
    <3>1. /\ new.pc \in {"existing", "store"} /\ new.answer = old.answer
          /\ new.isNew = old.isNew /\ new.end = old.end /\ new.added = old.added
      <4>1. CASE ReadExistingSet(r)
        BY <1>1, <4>1 DEF ReadExistingSet, RefreshJob
      <4>2. CASE ReadExistingRows(r)
        BY <1>1, <4>2 DEF ReadExistingRows, RefreshJob
      <4>3. QED BY <2>5, <4>1, <4>2
    <3>2. old.end \in Nat /\ old.cursor \in Nat /\ published \subseteq Nat
      BY <1>1, ManagedHistoryAssumptions DEF RefreshJob, HistoryInv, HistoryTypeOK
    <3>3. old.pc \in {"pages", "existing"} /\ (old.pc = "pages" => old.cursor >= old.end)
      BY <2>5 DEF ReadExistingSet, ReadExistingRows, At, AllPagesRead
    <3>4. JobPassed(old)
      BY DEF PassedInv
    <3> HIDE DEF old, new
    <3>5. Passed(new) = new.end /\ Passed(old) >= old.end
      BY <3>1, <3>2, <3>3 DEF Passed
    <3>6. ASSUME NEW d \in published, d < old.end PROVE Reached(new, d)
      <4>1. Passed(old) \in Nat
        BY <3>2 DEF Passed
      <4>2. d < Passed(old)
        BY <3>2, <3>5, <3>6, <4>1
      <4>3. Reached(old, d)
        BY <3>3, <3>4, <4>2 DEF JobPassed, Reading
      <4>4. QED BY <3>1, <4>3 DEF Reached
    <3>7. old.answer = "none" /\ old.end <= today
      BY <3>3, <3>4 DEF JobPassed, Reading
    <3>8. JobPassed(new)
      BY <3>1, <3>2, <3>5, <3>6, <3>7 DEF JobPassed
    <3>9. /\ \A q \in Refreshes \ {r} : refresh'[q] = refresh[q]
          /\ UNCHANGED <<today, published, set>>
      BY <1>1, <2>5 DEF ReadExistingSet, ReadExistingRows
    <3>10. QED BY <3>8, <3>9, PassedQuiet DEF new
  <2>6. CASE NothingToAdd(r) \/ Reject(r) \/ Conflict(r) \/ Fail(r)
    <3>1. refresh[r].pc \in Working
      BY <2>6 DEF NothingToAdd, Reject, Conflict, Fail, Storable, At, Working
    <3>2. Answer(r, "ok") \/ Answer(r, "rejected") \/ Answer(r, "failed")
      BY <2>6 DEF NothingToAdd, Reject, Conflict, Fail
    <3>3. QED BY <3>1, <3>2, PassedAnswer
  <2>7. CASE ReplaceManagedBacktestCandleSet(r) \/ AppendManagedBacktestCandles(r)
    <3>1. refresh[r].pc \in Working
      BY <2>7 DEF ReplaceManagedBacktestCandleSet, AppendManagedBacktestCandles, Storable, At,
                  Working
    <3>2. Answer(r, "ok") \/ Answer(r, "failed")
      BY <2>7 DEF ReplaceManagedBacktestCandleSet, AppendManagedBacktestCandles, Stored
    <3>3. QED BY <3>1, <3>2, PassedAnswer
  <2>8. QED BY <1>3, <2>1, <2>2, <2>3, <2>4, <2>5, <2>6, <2>7 DEF Step
<1>4. QED BY <1>2, <1>3 DEF HistoryNext, Refreshing

LEMMA PassedInvariance == HistorySpec => []PassedInv
<1>1. HistoryInit => PassedInv
  BY DEF HistoryInit, Idle, PassedInv, JobPassed, Reading
<1>2. HistoryInv /\ PassedInv /\ [HistoryNext]_historyVars => PassedInv'
  BY PassedStep
<1>3. QED BY HistoryInvariance, <1>1, <1>2, PTL DEF HistorySpec

\* Only the working refresh itself gives its answer.
LEMMA AnswerIsOwnStep ==
  ASSUME HistoryInv, PassedInv, HistoryNext, NEW r \in Refreshes,
         refresh[r].pc \in Working, refresh'[r].answer = "ok"
  PROVE  \/ NothingToAdd(r) \/ ReplaceManagedBacktestCandleSet(r)
         \/ AppendManagedBacktestCandles(r)
<1>1. /\ refresh \in [Refreshes -> RefreshJob]
      /\ \A q \in Refreshes : lock = q <=> refresh[q].pc \in Working
  BY DEF HistoryInv, HistoryTypeOK
<1>2. refresh[r].answer = "none"
  BY DEF PassedInv, JobPassed, Working
<1>3. CASE Midnight \/ DropCandleSet
  BY <1>2, <1>3 DEF Midnight, DropCandleSet
<1>4. ASSUME NEW q \in Refreshes, q # r, Begin(q) \/ Acquire(q) \/ Step(q) \/ Fail(q)
      PROVE  FALSE
  <2>1. refresh'[r] = refresh[r]
    BY <1>1, <1>4 DEF Step, Begin, Acquire, ReadMetadata, FetchPage, NothingToAdd, KeepSuffix,
       ReadExistingSet, ReadExistingRows, Reject, ReplaceManagedBacktestCandleSet,
       AppendManagedBacktestCandles, Conflict, Fail, Stored, Answer
  <2>2. QED BY <1>2, <2>1
<1>5. CASE Begin(r) \/ Acquire(r) \/ ReadMetadata(r) \/ FetchPage(r) \/ KeepSuffix(r)
             \/ ReadExistingSet(r) \/ ReadExistingRows(r)
  <2>1. CASE Begin(r) \/ Acquire(r)
    BY <2>1 DEF Begin, Acquire, At, Working
  <2>2. CASE ReadMetadata(r)
    BY <1>1, <1>2, <2>2 DEF ReadMetadata, RefreshJob
  <2>3. CASE FetchPage(r)
    BY <1>1, <1>2, <2>3 DEF FetchPage, RefreshJob
  <2>4. CASE KeepSuffix(r)
    BY <1>1, <1>2, <2>4 DEF KeepSuffix, RefreshJob
  <2>5. CASE ReadExistingSet(r)
    BY <1>1, <1>2, <2>5 DEF ReadExistingSet, RefreshJob
  <2>6. CASE ReadExistingRows(r)
    BY <1>1, <1>2, <2>6 DEF ReadExistingRows, RefreshJob
  <2>7. QED BY <1>5, <2>1, <2>2, <2>3, <2>4, <2>5, <2>6
<1>6. CASE Reject(r) \/ Conflict(r) \/ Fail(r)
  BY <1>1, <1>6 DEF Reject, Conflict, Fail, Answer, Idle
<1>7. QED BY <1>3, <1>4, <1>5, <1>6 DEF HistoryNext, Refreshing, Step

\* A refresh that answers without an error has stored every published day of
\* those completed when it read the clock, for any page length and any days
\* without a bucket, unless the set was deleted meanwhile.
THEOREM AlwaysAnsweredUpToDate == HistorySpec => AnsweredUpToDate
<1>1. ASSUME HistoryInv, PassedInv, HistoryNext, NEW r \in Refreshes,
             refresh[r].pc \in Working, refresh'[r].answer = "ok", set' # Absent,
             NEW d \in published, d < refresh[r].end
      PROVE  d <= set'.last
  <2>1. /\ refresh[r] \in RefreshJob /\ set \in CandleSets /\ MaxDay \in Nat
        /\ published \subseteq Nat
    BY <1>1, ManagedHistoryAssumptions DEF HistoryInv, HistoryTypeOK
  <2>2. refresh[r].cursor \in Nat /\ refresh[r].end \in Nat /\ JobPassed(refresh[r])
    BY <1>1, <2>1 DEF RefreshJob, PassedInv
  <2>3. CASE NothingToAdd(r)
    <3>1. /\ refresh[r].pc = "pages" /\ refresh[r].added = {} /\ set' = set
          /\ refresh[r].cursor >= refresh[r].end
      BY <2>3 DEF NothingToAdd, At, AllPagesRead
    <3>2. Reached(refresh[r], d)
      BY <1>1, <2>1, <2>2, <3>1 DEF JobPassed, Passed, Reading
    <3>3. QED BY <1>1, <3>1, <3>2 DEF Reached
  <2>4. CASE At(r, "store")
    <3>1. Reached(refresh[r], d)
      BY <1>1, <2>2, <2>4 DEF JobPassed, Passed, Reading, At
    <3>2. CASE ReplaceManagedBacktestCandleSet(r)
      <4>1. PICK e \in refresh[r].added : d <= e
        BY <3>1, <3>2 DEF Reached, ReplaceManagedBacktestCandleSet
      <4>2. Merged(r) \in SUBSET (1..MaxDay) /\ Contiguous(Merged(r)) /\ set' = Describe(Merged(r))
        BY <1>1, <3>2, MergedPublished DEF ReplaceManagedBacktestCandleSet, Storable
      <4>3. IsLast(set'.last, Merged(r))
        BY <4>2, ContiguousIsInterval
      <4>4. e <= set'.last /\ e \in Nat /\ set'.last \in Nat
        BY <4>1, <4>2, <4>3 DEF IsLast, Merged
      <4>5. QED BY <2>1, <4>1, <4>4
    <3>3. CASE AppendManagedBacktestCandles(r)
      <4> DEFINE added == refresh[r].added
      <4>1. /\ added \in SUBSET (1..MaxDay) /\ Contiguous(added) /\ set' = WithAdded(set, added)
            /\ set # Absent /\ set.last + 1 \in added
        BY <1>1, <3>3, MergedPublished DEF AppendManagedBacktestCandles, IsFirst
      <4>2. set'.last = Describe(added).last /\ set.last \in Nat
        BY <2>1, <4>1 DEF WithAdded, Describe, CandleSets
      <4>3. IsLast(set'.last, added)
        BY <4>1, <4>2, ContiguousIsInterval
      <4>4. \A e \in added : e <= set'.last /\ e \in Nat
        BY <4>1, <4>3 DEF IsLast
      <4>5. set'.last \in Nat
        BY <4>1, <4>3 DEF IsLast
      <4>6. CASE d <= set.last
        BY <2>1, <4>1, <4>2, <4>4, <4>5, <4>6
      <4>7. CASE \E e \in added : d <= e
        BY <2>1, <4>4, <4>5, <4>7
      <4>8. QED BY <3>1, <4>1, <4>6, <4>7 DEF Reached
    <3>4. CASE NothingToAdd(r)
      BY <2>3, <3>4
    <3>5. QED BY <1>1, <3>2, <3>3, <3>4, AnswerIsOwnStep
  <2>5. NothingToAdd(r) \/ At(r, "store")
    BY <1>1, AnswerIsOwnStep DEF ReplaceManagedBacktestCandleSet, AppendManagedBacktestCandles,
       Storable
  <2>6. QED BY <2>3, <2>4, <2>5
<1>2. HistoryInv /\ PassedInv /\ [HistoryNext]_historyVars =>
        [\A r \in Refreshes :
           refresh[r].pc \in Working /\ refresh'[r].answer = "ok" /\ set' # Absent =>
             \A d \in published : d < refresh[r].end => d <= set'.last]_historyVars
  BY <1>1
<1>3. QED BY HistoryInvariance, PassedInvariance, <1>2, PTL DEF HistorySpec, AnsweredUpToDate
-----------------------------------------------------------------------------
(***************************************************************************)
(* How long a refresh works.  That it answers is liveness and is left to   *)
(* TLC; what is proved is the part of the argument that depends on the     *)
(* loop over the pages: a bound on its steps that each of them lowers.     *)
(***************************************************************************)
DaysToAsk(job) == IF job.cursor < job.end THEN job.end - job.cursor ELSE 0

JobSteps(job) ==
  CASE job.pc = "metadata" -> MaxDay + 4
    [] job.pc = "pages" -> DaysToAsk(job) + 3
    [] job.pc = "existing" -> 2
    [] job.pc = "store" -> 1

\* At most so many steps until the refresh answers and unlocks the asset.
StepsLeft(r) == IF refresh[r].pc \in Working THEN JobSteps(refresh[r]) ELSE 0

\* Neither the clock, nor a deletion of the set, nor another refresh lengthens
\* the work of a refresh that holds the lock, and each step of its own, whether
\* it succeeds or fails, brings it nearer to its answer.
WorkShrinks ==
  [][\A r \in Refreshes : refresh[r].pc \in Working =>
       /\ refresh'[r] = refresh[r] \/ StepsLeft(r)' < StepsLeft(r)
       /\ Step(r) \/ Fail(r) => StepsLeft(r)' < StepsLeft(r)]_historyVars

LEMMA StepsCounted ==
  ASSUME HistoryInv, NEW r \in Refreshes
  PROVE  /\ StepsLeft(r) \in 0..MaxDay + 4
         /\ refresh[r].pc \in Working => StepsLeft(r) > 0
<1>1. /\ MaxDay \in Nat /\ refresh[r].cursor \in 0..MaxDay /\ refresh[r].end \in 0..MaxDay
      /\ refresh[r].pc \in {"idle", "waiting"} \cup Working
  BY ManagedHistoryAssumptions DEF HistoryInv, HistoryTypeOK, RefreshJob
<1>2. DaysToAsk(refresh[r]) \in 0..MaxDay
  BY <1>1 DEF DaysToAsk
<1>3. refresh[r].pc \in Working => JobSteps(refresh[r]) \in 1..MaxDay + 4
  BY <1>1, <1>2 DEF Working, JobSteps
<1>4. QED BY <1>1, <1>3 DEF StepsLeft

\* A page ends after the day it begins with.
LEMMA PageAdvances ==
  ASSUME HistoryInv, NEW r \in Refreshes, FetchPage(r)
  PROVE  StepsLeft(r)' < StepsLeft(r)
<1> DEFINE old == refresh[r]
           new == refresh'[r]
<1>1. refresh \in [Refreshes -> RefreshJob] /\ MaxDay \in Nat
      /\ PageDays \in Nat /\ PageDays >= 1
  BY ManagedHistoryAssumptions DEF HistoryInv, HistoryTypeOK
<1>2. /\ old.pc = "pages" /\ old.cursor < old.end /\ old.cursor \in Nat /\ old.end \in Nat
  BY <1>1 DEF FetchPage, At, RefreshJob
<1>3. new.pc = "pages" /\ new.end = old.end /\ new.cursor = PageEnd(old.cursor, old.end)
  BY <1>1, <1>2 DEF FetchPage, NextCursor, RefreshJob
<1> HIDE DEF old, new
<1>4. new.cursor \in Nat /\ old.cursor < new.cursor /\ new.cursor <= new.end
  BY <1>1, <1>2, <1>3 DEF PageEnd
<1>5. DaysToAsk(new) < DaysToAsk(old) /\ DaysToAsk(new) \in Nat /\ DaysToAsk(old) \in Nat
  BY <1>2, <1>3, <1>4 DEF DaysToAsk
<1>6. JobSteps(new) = DaysToAsk(new) + 3 /\ JobSteps(old) = DaysToAsk(old) + 3
  BY <1>2, <1>3 DEF JobSteps
<1>7. new.pc \in Working /\ old.pc \in Working
  BY <1>2, <1>3 DEF Working
<1>8. QED BY <1>5, <1>6, <1>7 DEF StepsLeft, old, new

\* The first page begins no earlier than day 1, and the steps after the pages
\* come in one order.
LEMMA StageAdvances ==
  ASSUME HistoryInv, NEW r \in Refreshes,
         ReadMetadata(r) \/ KeepSuffix(r) \/ ReadExistingSet(r) \/ ReadExistingRows(r)
  PROVE  StepsLeft(r)' < StepsLeft(r)
<1>1. /\ refresh \in [Refreshes -> RefreshJob] /\ MaxDay \in Nat /\ today \in 2..MaxDay
      /\ set \in CandleSets
  BY ManagedHistoryAssumptions DEF HistoryInv, HistoryTypeOK
<1>2. CASE ReadMetadata(r)
  <2>1. /\ refresh[r].pc = "metadata" /\ refresh'[r].pc = "pages" /\ refresh'[r].end = today
        /\ refresh'[r].cursor = IF set = Absent THEN 1 ELSE set.last + 1
    BY <1>1, <1>2 DEF ReadMetadata, At, RefreshJob
  <2>2. refresh'[r].cursor \in Nat /\ refresh'[r].cursor >= 1
    BY <1>1, <2>1 DEF CandleSets
  <2>3. DaysToAsk(refresh'[r]) \in 0..MaxDay
    BY <1>1, <2>1, <2>2 DEF DaysToAsk
  <2>4. StepsLeft(r)' = DaysToAsk(refresh'[r]) + 3 /\ StepsLeft(r) = MaxDay + 4
    BY <2>1 DEF StepsLeft, JobSteps, Working
  <2>5. QED BY <1>1, <2>3, <2>4
<1>3. CASE KeepSuffix(r) \/ ReadExistingSet(r)
  <2>1. refresh[r].pc = "pages" /\ refresh'[r].pc \in {"existing", "store"}
    <3>1. CASE KeepSuffix(r)
      BY <1>1, <3>1 DEF KeepSuffix, At, RefreshJob
    <3>2. CASE ReadExistingSet(r)
      BY <1>1, <3>2 DEF ReadExistingSet, At, RefreshJob
    <3>3. QED BY <1>3, <3>1, <3>2
  <2>2. DaysToAsk(refresh[r]) \in Nat
    BY <1>1 DEF DaysToAsk, RefreshJob
  <2>3. StepsLeft(r)' \in {1, 2} /\ StepsLeft(r) = DaysToAsk(refresh[r]) + 3
    BY <2>1 DEF StepsLeft, JobSteps, Working
  <2>4. QED BY <2>2, <2>3
<1>4. CASE ReadExistingRows(r)
  <2>1. refresh[r].pc = "existing" /\ refresh'[r].pc = "store"
    BY <1>1, <1>4 DEF ReadExistingRows, At, RefreshJob
  <2>2. StepsLeft(r)' = 1 /\ StepsLeft(r) = 2
    BY <2>1 DEF StepsLeft, JobSteps, Working
  <2>3. QED BY <2>2
<1>5. QED BY <1>2, <1>3, <1>4

LEMMA OwnStepShrinks ==
  ASSUME HistoryInv, NEW r \in Refreshes, Step(r) \/ Fail(r)
  PROVE  StepsLeft(r)' < StepsLeft(r)
<1>1. refresh \in [Refreshes -> RefreshJob]
  BY DEF HistoryInv, HistoryTypeOK
<1>2. CASE \/ NothingToAdd(r) \/ Reject(r) \/ Conflict(r) \/ Fail(r)
           \/ ReplaceManagedBacktestCandleSet(r) \/ AppendManagedBacktestCandles(r)
  <2>1. refresh[r].pc \in Working
    BY <1>2 DEF NothingToAdd, Reject, Conflict, Fail, ReplaceManagedBacktestCandleSet,
                AppendManagedBacktestCandles, Storable, At, Working
  <2>2. \E a \in {"ok", "rejected", "failed"} : Answer(r, a)
    BY <1>2 DEF NothingToAdd, Reject, Conflict, Fail, ReplaceManagedBacktestCandleSet,
                AppendManagedBacktestCandles, Stored
  <2>3. refresh'[r].pc = "idle"
    BY <1>1, <2>2 DEF Answer, Idle
  <2>4. StepsLeft(r)' = 0
    BY <2>3 DEF StepsLeft, Working
  <2>5. StepsLeft(r) \in Nat /\ StepsLeft(r) > 0
    BY <2>1, StepsCounted, ManagedHistoryAssumptions
  <2>6. QED BY <2>4, <2>5
<1>3. QED BY <1>2, PageAdvances, StageAdvances DEF Step

\* Whatever is published, deleted or begun meanwhile, a refresh answers after a
\* number of steps bounded by the days of the calendar: the loop over the pages
\* cannot go on for ever, and so nobody waits for ever for a lock whose holder is
\* scheduled.
THEOREM RefreshIsBounded ==
  HistorySpec => WorkShrinks /\ [](\A r \in Refreshes : StepsLeft(r) \in 0..MaxDay + 4)
<1> DEFINE Shrinks == \A r \in Refreshes : refresh[r].pc \in Working =>
                        /\ refresh'[r] = refresh[r] \/ StepsLeft(r)' < StepsLeft(r)
                        /\ Step(r) \/ Fail(r) => StepsLeft(r)' < StepsLeft(r)
           Bounded == \A r \in Refreshes : StepsLeft(r) \in 0..MaxDay + 4
<1>1. HistoryInv => Bounded
  BY StepsCounted
<1>2. ASSUME HistoryInv, [HistoryNext]_historyVars
      PROVE  Shrinks
  <2> SUFFICES ASSUME NEW r \in Refreshes, refresh[r].pc \in Working
               PROVE  refresh'[r] = refresh[r] \/ StepsLeft(r)' < StepsLeft(r)
    BY <1>2, OwnStepShrinks
  <2>1. refresh \in [Refreshes -> RefreshJob] /\ ~At(r, "idle") /\ ~At(r, "waiting")
        /\ \A q \in Refreshes : lock = q <=> refresh[q].pc \in Working
    BY <1>2 DEF HistoryInv, HistoryTypeOK, Working, At
  <2>2. CASE Midnight \/ DropCandleSet \/ UNCHANGED historyVars
    BY <2>2 DEF Midnight, DropCandleSet, historyVars
  <2>3. ASSUME NEW q \in Refreshes, Begin(q) \/ Acquire(q) PROVE refresh'[r] = refresh[r]
    BY <2>1, <2>3 DEF Begin, Acquire, At
  <2>4. ASSUME NEW q \in Refreshes, Step(q) \/ Fail(q)
        PROVE  refresh'[r] = refresh[r] \/ StepsLeft(r)' < StepsLeft(r)
    <3>1. CASE q = r
      BY <1>2, <2>4, <3>1, OwnStepShrinks
    <3>2. CASE q # r
      BY <2>1, <2>4, <3>2 DEF Step, ReadMetadata, FetchPage, NothingToAdd, KeepSuffix,
         ReadExistingSet, ReadExistingRows, Reject, ReplaceManagedBacktestCandleSet,
         AppendManagedBacktestCandles, Conflict, Fail, Stored, Answer
    <3>3. QED BY <3>1, <3>2
  <2>5. QED BY <1>2, <2>2, <2>3, <2>4 DEF HistoryNext, Refreshing
<1>3. QED BY HistoryInvariance, <1>1, <1>2, PTL DEF HistorySpec, WorkShrinks
-----------------------------------------------------------------------------
(***************************************************************************)
(* Why an append is rejected.  A refresh has fetched just the published    *)
(* days between the stored series and its cursor, so what it would store   *)
(* has a gap only where Coinbase has one.                                  *)
(***************************************************************************)
\* From the first day with a bucket on every day has one.
EveryDayTrades == \A c, d \in published : c..d \subseteq published

Continues(job, stored) ==
  /\ \A e \in stored : e < job.cursor
  /\ \A d \in published : d < job.cursor => (d \in job.added <=> \A e \in stored : e < d)

JobFetched(job) ==
  /\ job.pc \notin Reading => job.added = {}
  /\ job.pc \in Reading /\ ~job.isNew =>
       /\ job.cursor <= job.end /\ job.end <= today
       /\ \A d \in job.added : d < job.cursor
       /\ job.pc # "store" /\ set # Absent => Continues(job, rows)
       /\ job.pc = "store" => Contiguous(job.existing) /\ Continues(job, job.existing)

FetchedInv == \A r \in Refreshes : JobFetched(refresh[r])

\* Days only come after those a refresh asks for, and a deletion takes away the
\* series that was to be continued.
LEMMA FetchedOutside ==
  ASSUME HistoryInv, FetchedInv, Midnight \/ DropCandleSet \/ UNCHANGED historyVars
  PROVE  FetchedInv'
<1> SUFFICES ASSUME NEW r \in Refreshes PROVE JobFetched(refresh[r])'
  BY DEF FetchedInv
<1> DEFINE job == refresh[r]
<1>1. JobFetched(job) /\ job' = job /\ job \in RefreshJob
  BY DEF FetchedInv, Midnight, DropCandleSet, historyVars, HistoryInv, HistoryTypeOK
<1>2. /\ today \in Nat /\ today' \in Nat /\ today <= today'
      /\ job.cursor \in Nat /\ job.end \in Nat
  BY <1>1, ManagedHistoryAssumptions
     DEF HistoryInv, HistoryTypeOK, RefreshJob, Midnight, DropCandleSet, historyVars
<1>3. \A d \in published' : d \in published \/ d = today
  BY DEF Midnight, DropCandleSet, historyVars
<1>4. set' = Absent \/ (set' = set /\ rows' = rows)
  BY DEF Midnight, DropCandleSet, historyVars
<1> HIDE DEF job
<1>5. ASSUME job.pc \in Reading /\ ~job.isNew PROVE JobFetched(job)'
  <2>1. job.cursor <= job.end /\ job.end <= today
    BY <1>1, <1>5 DEF JobFetched
  <2>2. job.end <= today' /\ \A d \in published' : d < job.cursor => d \in published
    BY <1>2, <1>3, <2>1
  <2>3. \A stored : Continues(job, stored) => Continues(job, stored)'
    BY <1>1, <2>2 DEF Continues
  <2>4. QED BY <1>1, <1>4, <1>5, <2>1, <2>2, <2>3 DEF JobFetched
<1>6. ASSUME ~(job.pc \in Reading /\ ~job.isNew) PROVE JobFetched(job)'
  BY <1>1, <1>6 DEF JobFetched
<1>7. QED BY <1>5, <1>6 DEF job

\* A step of r that leaves the tables alone is a matter of r's job only.
LEMMA FetchedQuiet ==
  ASSUME FetchedInv, NEW r \in Refreshes, UNCHANGED <<today, published, set, rows>>,
         \A q \in Refreshes \ {r} : refresh'[q] = refresh[q],
         JobFetched(refresh'[r])
  PROVE  FetchedInv'
BY DEF FetchedInv, JobFetched, Continues

\* When r returns no other refresh works, whatever r stored.
LEMMA FetchedAnswer ==
  ASSUME HistoryInv, FetchedInv, NEW r \in Refreshes, refresh[r].pc \in Working,
         NEW a \in {"ok", "failed", "rejected"}, Answer(r, a)
  PROVE  FetchedInv'
<1>1. /\ refresh \in [Refreshes -> RefreshJob]
      /\ \A q \in Refreshes : lock = q <=> refresh[q].pc \in Working
  BY DEF HistoryInv, HistoryTypeOK
<1>2. refresh'[r].pc = "idle" /\ refresh'[r].added = {}
  BY <1>1 DEF Answer, Idle
<1>3. ASSUME NEW q \in Refreshes, q # r
      PROVE  refresh'[q] = refresh[q] /\ refresh[q].pc \notin Reading
  BY <1>1, <1>3 DEF Answer, Working, Reading
<1>4. QED BY <1>2, <1>3 DEF FetchedInv, JobFetched, Reading

\* The first page begins on the day after the stored series.
LEMMA FetchedFirst ==
  ASSUME HistoryInv, FetchedInv, NEW r \in Refreshes, ReadMetadata(r)
  PROVE  JobFetched(refresh'[r])
<1> DEFINE new == refresh'[r]
<1>1. /\ refresh \in [Refreshes -> RefreshJob] /\ today \in Nat
      /\ set \in CandleSets /\ published \subseteq Nat
  BY ManagedHistoryAssumptions DEF HistoryInv, HistoryTypeOK
<1>2. refresh[r].added = {}
  BY DEF ReadMetadata, At, FetchedInv, JobFetched, Reading
<1>3. /\ new.pc = "pages" /\ new.isNew = (set = Absent) /\ new.end = today /\ new.added = {}
      /\ new.cursor = IF set = Absent THEN 1 ELSE set.last + 1
  BY <1>1, <1>2 DEF ReadMetadata, RefreshJob
<1> HIDE DEF new
<1>4. ASSUME set = Absent PROVE JobFetched(new)
  BY <1>3, <1>4 DEF JobFetched, Reading
<1>5. ASSUME set # Absent PROVE JobFetched(new)
  <2>1. /\ rows = set.first..set.last /\ set.last < today /\ set.count = Cardinality(rows)
        /\ set.first \in Nat /\ set.last \in Nat /\ set.count >= MinimumCandleCount
    BY <1>1, <1>5, ManagedHistoryAssumptions DEF HistoryInv, SeriesConsistent, CandleSets
  <2>2. rows # {}
    <3>1. Cardinality({}) = 0
      BY FS_EmptySet
    <3>2. QED BY <2>1, <3>1, ManagedHistoryAssumptions
  <2>3. set.last \in rows /\ \A e \in rows : e <= set.last
    BY <2>1, <2>2
  <2>4. new.cursor = set.last + 1 /\ new.cursor <= new.end
    BY <1>1, <1>3, <1>5, <2>1
  <2>5. \A e \in rows : e < new.cursor
    BY <2>1, <2>4
  <2>6. \A d \in published : d < new.cursor => ~(set.last < d)
    BY <1>1, <2>1, <2>4
  <2>7. Continues(new, rows)
    BY <1>3, <2>3, <2>5, <2>6 DEF Continues
  <2>8. QED BY <1>1, <1>3, <1>5, <2>4, <2>7 DEF JobFetched, Reading
<1>6. QED BY <1>4, <1>5 DEF new

\* A page adds the days between two cursors, the ones without a bucket not.
LEMMA FetchedPage ==
  ASSUME HistoryInv, FetchedInv, NEW r \in Refreshes, FetchPage(r)
  PROVE  JobFetched(refresh'[r])
<1> DEFINE old == refresh[r]
           new == refresh'[r]
           next == PageEnd(old.cursor, old.end)
           page == published \cap (old.cursor..next - 1)
<1>1. /\ refresh \in [Refreshes -> RefreshJob] /\ published \subseteq Nat /\ today \in Nat
      /\ PageDays \in Nat /\ rows \subseteq Nat /\ JobFetched(old)
  BY ManagedHistoryAssumptions DEF HistoryInv, HistoryTypeOK, FetchedInv
<1>2. /\ old.cursor \in Nat /\ old.end \in Nat /\ old.pc = "pages" /\ old.cursor < old.end
      /\ old.added \subseteq Nat
  BY <1>1, ManagedHistoryAssumptions DEF RefreshJob, FetchPage, At
<1>3. /\ new.pc = "pages" /\ new.isNew = old.isNew
      /\ new.end = old.end /\ new.added = old.added \cup page /\ new.cursor = next
  BY <1>1, <1>2 DEF FetchPage, NextCursor, RefreshJob
<1>4. next \in Nat /\ next <= old.end /\ old.cursor <= next
  BY <1>1, <1>2 DEF PageEnd
<1> HIDE DEF old, new, next
<1>5. ASSUME new.isNew PROVE JobFetched(new)
  BY <1>3, <1>5 DEF JobFetched, Reading
<1>6. ASSUME ~new.isNew PROVE JobFetched(new)
  <2>1. /\ old.end <= today /\ \A d \in old.added : d < old.cursor
        /\ set # Absent => Continues(old, rows)
    BY <1>1, <1>2, <1>3, <1>6 DEF JobFetched, Reading
  <2>2. \A d \in page : d \in published /\ old.cursor <= d /\ d < next
    BY <1>1, <1>2, <1>4
  <2>3. \A d \in new.added : d < new.cursor
    BY <1>2, <1>3, <1>4, <2>1, <2>2
  <2>4. \A d \in published : d < next /\ ~(d < old.cursor) => d \in page
    BY <1>1, <1>2, <1>4
  <2> HIDE DEF page
  <2>5. ASSUME Continues(old, rows) PROVE Continues(new, rows)
    <3>1. /\ \A e \in rows : e < old.cursor
          /\ \A d \in published :
               d < old.cursor => (d \in old.added <=> \A e \in rows : e < d)
      BY <2>5 DEF Continues
    <3>2. \A e \in rows : e < new.cursor
      BY <1>1, <1>2, <1>3, <1>4, <3>1
    <3>3. ASSUME NEW d \in published, d < new.cursor
          PROVE  d \in new.added <=> \A e \in rows : e < d
      <4>1. CASE d < old.cursor
        <5>1. d \notin page
          BY <1>1, <1>2, <2>2, <4>1
        <5>2. QED BY <1>3, <3>1, <4>1, <5>1
      <4>2. CASE ~(d < old.cursor)
        <5>1. d \in new.added
          BY <1>3, <2>4, <3>3, <4>2
        <5>2. \A e \in rows : e < d
          BY <1>1, <1>2, <3>1, <4>2
        <5>3. QED BY <5>1, <5>2
      <4>3. QED BY <4>1, <4>2
    <3>4. QED BY <3>2, <3>3 DEF Continues
  <2>6. QED BY <1>3, <1>4, <1>6, <2>1, <2>3, <2>5 DEF JobFetched, Reading
<1>7. QED BY <1>5, <1>6 DEF new

LEMMA FetchedStep ==
  ASSUME HistoryInv, FetchedInv, [HistoryNext]_historyVars
  PROVE  FetchedInv'
<1>1. refresh \in [Refreshes -> RefreshJob] /\ FetchedInv
  BY DEF HistoryInv, HistoryTypeOK
<1>2. CASE Midnight \/ DropCandleSet \/ UNCHANGED historyVars
  BY <1>2, FetchedOutside
<1>3. ASSUME NEW r \in Refreshes, Begin(r) \/ Acquire(r) \/ Step(r) \/ Fail(r)
      PROVE  FetchedInv'
  <2>0. JobFetched(refresh[r])
    BY DEF FetchedInv
  <2>1. CASE Begin(r) \/ Acquire(r)
    <3>1. refresh'[r].pc \in {"waiting", "metadata"} /\ refresh'[r].added = {}
      <4>1. CASE Begin(r)
        BY <1>1, <4>1 DEF Begin, Idle
      <4>2. CASE Acquire(r)
        <5>1. refresh[r].added = {}
          BY <2>0, <4>2 DEF Acquire, At, JobFetched, Reading
        <5>2. QED BY <1>1, <4>2, <5>1 DEF Acquire, RefreshJob
      <4>3. QED BY <2>1, <4>1, <4>2
    <3>2. JobFetched(refresh'[r])
      BY <3>1 DEF JobFetched, Reading
    <3>3. /\ \A q \in Refreshes \ {r} : refresh'[q] = refresh[q]
          /\ UNCHANGED <<today, published, set, rows>>
      BY <1>1, <2>1 DEF Begin, Acquire
    <3>4. QED BY <3>2, <3>3, FetchedQuiet
  <2>2. CASE ReadMetadata(r)
    <3>1. /\ \A q \in Refreshes \ {r} : refresh'[q] = refresh[q]
          /\ UNCHANGED <<today, published, set, rows>>
      BY <1>1, <2>2 DEF ReadMetadata
    <3>2. QED BY <2>2, <3>1, FetchedFirst, FetchedQuiet
  <2>3. CASE FetchPage(r)
    <3>1. /\ \A q \in Refreshes \ {r} : refresh'[q] = refresh[q]
          /\ UNCHANGED <<today, published, set, rows>>
      BY <1>1, <2>3 DEF FetchPage
    <3>2. QED BY <2>3, <3>1, FetchedPage, FetchedQuiet
  <2>4. CASE KeepSuffix(r) \/ ReadExistingSet(r) \/ ReadExistingRows(r)
    <3>1. JobFetched(refresh'[r])
      <4>1. CASE KeepSuffix(r)
        <5>1. refresh'[r].pc = "store" /\ refresh'[r].isNew
          BY <1>1, <4>1 DEF KeepSuffix, RefreshJob
        <5>2. QED BY <5>1 DEF JobFetched, Reading
      <4>2. CASE ReadExistingSet(r)
        <5>1. /\ refresh[r].pc = "pages" /\ ~refresh[r].isNew /\ refresh'[r].pc = "existing"
              /\ refresh'[r].isNew = refresh[r].isNew /\ refresh'[r].end = refresh[r].end
              /\ refresh'[r].cursor = refresh[r].cursor /\ refresh'[r].added = refresh[r].added
          BY <1>1, <4>2 DEF ReadExistingSet, At, RefreshJob
        <5>2. QED BY <2>0, <5>1 DEF JobFetched, Reading, Continues
      <4>3. CASE ReadExistingRows(r)
        <5>1. /\ refresh[r].pc = "existing" /\ refresh'[r].pc = "store"
              /\ refresh'[r].isNew = refresh[r].isNew /\ refresh'[r].end = refresh[r].end
              /\ refresh'[r].cursor = refresh[r].cursor /\ refresh'[r].added = refresh[r].added
              /\ refresh'[r].existing = rows
          BY <1>1, <4>3 DEF ReadExistingRows, At, RefreshJob
        <5>2. Contiguous(rows) /\ set # Absent
          BY <4>3 DEF ReadExistingRows, Contiguous, HistoryInv, SeriesConsistent
        <5>3. QED BY <2>0, <5>1, <5>2 DEF JobFetched, Reading, Continues
      <4>4. QED BY <2>4, <4>1, <4>2, <4>3
    <3>2. /\ \A q \in Refreshes \ {r} : refresh'[q] = refresh[q]
          /\ UNCHANGED <<today, published, set, rows>>
      BY <1>1, <2>4 DEF KeepSuffix, ReadExistingSet, ReadExistingRows
    <3>3. QED BY <3>1, <3>2, FetchedQuiet
  <2>5. CASE \/ NothingToAdd(r) \/ Reject(r) \/ Conflict(r) \/ Fail(r)
             \/ ReplaceManagedBacktestCandleSet(r) \/ AppendManagedBacktestCandles(r)
    <3>1. refresh[r].pc \in Working
      BY <2>5 DEF NothingToAdd, Reject, Conflict, Fail, ReplaceManagedBacktestCandleSet,
                  AppendManagedBacktestCandles, Storable, At, Working
    <3>2. Answer(r, "ok") \/ Answer(r, "rejected") \/ Answer(r, "failed")
      BY <2>5 DEF NothingToAdd, Reject, Conflict, Fail, ReplaceManagedBacktestCandleSet,
                  AppendManagedBacktestCandles, Stored
    <3>3. QED BY <3>1, <3>2, FetchedAnswer
  <2>6. QED BY <1>3, <2>1, <2>2, <2>3, <2>4, <2>5 DEF Step
<1>4. QED BY <1>2, <1>3 DEF HistoryNext, Refreshing

\* A refresh rejects the series it maintains only because of a day on which
\* Coinbase has no bucket: no page length, no deletion between its reads and no
\* other refresh makes it put together a series with a gap.
THEOREM OnlyGapsReject == HistorySpec => [](EveryDayTrades => AppendsNeverRejected)
<1>1. HistoryInit => FetchedInv
  BY DEF HistoryInit, Idle, FetchedInv, JobFetched, Reading
<1>2. HistoryInv /\ FetchedInv /\ [HistoryNext]_historyVars => FetchedInv'
  BY FetchedStep
<1>3. ASSUME HistoryInv, FetchedInv, EveryDayTrades, NEW r \in Refreshes,
             At(r, "store"), ~refresh[r].isNew
      PROVE  Contiguous(Merged(r))
  <2> DEFINE added == refresh[r].added
             existing == refresh[r].existing
             cursor == refresh[r].cursor
  <2>1. /\ \A d \in added : d < cursor
        /\ Contiguous(existing) /\ Continues(refresh[r], existing)
    BY <1>3 DEF At, FetchedInv, JobFetched, Reading
  <2>2. /\ added \subseteq published /\ existing \subseteq published /\ published \subseteq Nat
        /\ cursor \in Nat
    BY ManagedHistoryAssumptions, <1>3 DEF HistoryInv, HistoryTypeOK, RefreshJob
  <2>3. /\ existing # {} /\ \A c, d \in existing : c <= d => c..d \subseteq existing
        /\ \A e \in existing : e < cursor
        /\ \A d \in published : d < cursor => (d \in added <=> \A e \in existing : e < d)
    BY <2>1 DEF Contiguous, Continues
  <2>4. Merged(r) = existing \cup added
    BY DEF Merged
  <2> HIDE DEF added, existing, cursor
  <2>5. ASSUME NEW c \in existing \cup added, NEW d \in existing \cup added, c <= d,
               NEW x \in c..d
        PROVE  x \in existing \cup added
    <3>1. c \in Nat /\ d \in Nat /\ x \in Nat /\ c <= x /\ x <= d
      BY <2>2, <2>5
    <3>2. x \in published
      <4>1. c \in published /\ d \in published
        BY <2>2
      <4>2. c..d \subseteq published
        BY <1>3, <4>1 DEF EveryDayTrades
      <4>3. QED BY <2>5, <4>2
    <3>3. d < cursor
      BY <2>1, <2>3
    <3>4. x < cursor
      BY <2>2, <3>1, <3>3
    <3>5. CASE \A e \in existing : e < x
      BY <2>3, <3>2, <3>4, <3>5
    <3>6. CASE \E e \in existing : ~(e < x)
      <4>1. PICK e \in existing : ~(e < x)
        BY <3>6
      <4>2. e \in Nat /\ x <= e
        BY <2>2, <3>1, <4>1
      <4>3. c \in existing
        <5>1. ~(e < c)
          BY <3>1, <4>2
        <5>2. c \in added => e < c
          BY <2>1, <2>2, <2>3
        <5>3. QED BY <2>5, <5>1, <5>2
      <4>4. x \in c..e /\ c <= e
        BY <3>1, <4>2
      <4>5. QED BY <2>3, <4>3, <4>4
    <3>7. QED BY <3>5, <3>6
  <2>6. QED BY <2>3, <2>4, <2>5 DEF Contiguous
<1>4. HistoryInv /\ FetchedInv => (EveryDayTrades => AppendsNeverRejected)
  BY <1>3 DEF AppendsNeverRejected
<1>5. QED BY HistoryInvariance, <1>1, <1>2, <1>4, PTL DEF HistorySpec
=============================================================================
