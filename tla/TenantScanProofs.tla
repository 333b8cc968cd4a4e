-------------------------- MODULE TenantScanProofs --------------------------
(***************************************************************************)
(* For any set of series, projects and blocks and any TopN: the scan       *)
(* counts every series that was there when it began, but for those that    *)
(* were only in blocks it met missing or unreadable.                       *)
(***************************************************************************)
EXTENDS TenantScan, FiniteSetTheorems, TLAPS

\* Compaction writes whole blocks and deletes whole blocks.
StoreInv ==
  /\ store \in Seq(SUBSET Series) /\ Len(store) = Merged
  /\ \A b \in 1..Merged : store[b] \in {{}, Content(b)}

\* Locals of the scan.  No directory is listed twice.
LocalInv ==
  /\ pc \in {"readdir", "stat", "scan", "rank", "done", "error"}
  /\ entries \subseteq 1..Merged /\ dirs \in Seq(1..Merged) /\ i \in 1..Len(dirs) + 1
  /\ Len(dirs) + Cardinality(entries) <= Merged
  /\ pc = "readdir" => dirs = <<>> /\ entries = {}
  /\ pc \in {"readdir", "stat"} => i = 1
  /\ pc \in {"scan", "rank", "done"} => entries = {}
  /\ pc \in {"rank", "done"} => i = Len(dirs) + 1
  /\ top \in Seq(Projects) /\ present \subseteq Series /\ faults \in 0..MaxFaults
  /\ seen \subseteq Series /\ missed \subseteq Series

\* Each series that was there when the directory was read has been counted, has
\* been missed, or is in a block whose turn is still to come.
CoverInv ==
  pc \in {"stat", "scan", "rank", "done"} =>
    \A s \in present : \/ s \in seen \cup missed
                       \/ \E b \in entries : s \in Content(b)
                       \/ \E j \in i..Len(dirs) : s \in Content(dirs[j])

\* A count is bounded by what the loop can have met, and is no lower than the
\* number of distinct series that were counted.
CountInv ==
  /\ counts \in [Projects -> Nat]
  /\ \A p \in Projects : counts[p] <= Cardinality(Series) * (i - 1)
  /\ \A p \in Projects : Cardinality(SeriesOf(seen, p)) <= counts[p]

\* The inductive invariant.
IInv == StoreInv /\ LocalInv /\ CoverInv /\ CountInv

----------------------------------------------------------------------------
(* Facts about the operators.                                              *)

\* Merged is the number after the last block.
LEMMA Bounds ==
  /\ Merged \in Nat \ {0} /\ DOMAIN Blocks = 1..(Merged - 1) /\ Len(Blocks) \in Nat
  /\ IsFiniteSet(Series) /\ TopN \in Nat \ {0} /\ MaxFaults \in Nat
BY TenantScanAssumption DEF TenantScanAssumption, Merged

\* Blocks hold series.
LEMMA ContentType == \A b \in 1..Merged : Content(b) \subseteq Series
<1>1. Len(Blocks) \in Nat /\ DOMAIN Blocks = 1..Len(Blocks) /\ Blocks \in Seq(SUBSET Series)
  BY TenantScanAssumption DEF TenantScanAssumption
<1>2. Merged \in Nat \ {0} /\ DOMAIN Blocks = 1..(Merged - 1)
  BY Bounds
<1>3. \A b \in DOMAIN Blocks : Blocks[b] \subseteq Series
  BY <1>1
<1>4. UNION Range(Blocks) \subseteq Series
  BY <1>3 DEF Range
<1>5. \A b \in 1..Merged : b = Merged \/ b \in DOMAIN Blocks
  BY <1>2
<1> QED
  BY <1>3, <1>4, <1>5 DEF Content

\* Every set of series is finite, and a project's part is no larger.
LEMMA SeriesFinite ==
  ASSUME NEW S, S \subseteq Series, NEW p
  PROVE  /\ IsFiniteSet(SeriesOf(S, p)) /\ Cardinality(SeriesOf(S, p)) \in Nat
         /\ Cardinality(SeriesOf(S, p)) <= Cardinality(Series) /\ Cardinality(Series) \in Nat
<1>1. SeriesOf(S, p) \in SUBSET Series /\ IsFiniteSet(Series)
  BY Bounds DEF SeriesOf
<1> QED
  BY <1>1, FS_Subset, FS_CardinalityType

\* An ordering of a finite set is a sequence of its elements, each once.
LEMMA Ordering ==
  ASSUME NEW S, IsFiniteSet(S), NEW s \in SetToSeqs(S)
  PROVE  /\ s \in Seq(S) /\ Len(s) = Cardinality(S) /\ Len(s) \in Nat /\ ToSet(s) = S
         /\ \A j, k \in 1..Len(s) : j # k => s[j] # s[k]
<1> DEFINE n == Cardinality(S)
<1>1. n \in Nat
  BY FS_CardinalityType
<1>2. s \in [1..n -> S] /\ \A j, k \in 1..n : j # k => s[j] # s[k]
  BY DEF SetToSeqs
<1>3. IsFiniteSet(1..n) /\ Cardinality(1..n) = n
  BY <1>1, FS_Interval
<1>4. s \in Injection(1..n, S)
  BY <1>2 DEF Injection, IsInjective
<1>5. s \in Surjection(1..n, S)
  BY <1>3, <1>4, FS_Injection
<1>6. \A x \in S : \E j \in 1..n : s[j] = x
  BY <1>5 DEF Surjection
<1>7. ASSUME NEW m \in Nat, NEW f \in [1..m -> S] PROVE f \in Seq(S) /\ Len(f) = m /\ DOMAIN f = 1..m
  OBVIOUS
<1> HIDE DEF n
<1>8. s \in Seq(S) /\ Len(s) = n /\ DOMAIN s = 1..n
  BY <1>1, <1>2, <1>7
<1>9. ToSet(s) = S
  BY <1>2, <1>6, <1>8 DEF ToSet
<1> QED
  BY <1>1, <1>2, <1>8, <1>9 DEF n

\* The elements of a sequence are no more than its length.
LEMMA SetOfSeq ==
  ASSUME NEW S, NEW s \in Seq(S)
  PROVE  /\ ToSet(s) \subseteq S /\ IsFiniteSet(ToSet(s)) /\ Cardinality(ToSet(s)) <= Len(s)
         /\ (\A j, k \in 1..Len(s) : j # k => s[j] # s[k]) => Cardinality(ToSet(s)) = Len(s)
<1>1. Len(s) \in Nat /\ DOMAIN s = 1..Len(s) /\ s \in [1..Len(s) -> S]
  OBVIOUS
<1>2. s \in Surjection(1..Len(s), ToSet(s))
  BY <1>1 DEF ToSet, Surjection
<1>3. IsFiniteSet(1..Len(s)) /\ Cardinality(1..Len(s)) = Len(s)
  BY <1>1, FS_Interval
<1>4. /\ IsFiniteSet(ToSet(s)) /\ Cardinality(ToSet(s)) <= Cardinality(1..Len(s))
      /\ Cardinality(ToSet(s)) = Cardinality(1..Len(s)) <=> s \in Injection(1..Len(s), ToSet(s))
  BY <1>2, <1>3, FS_Surjection
<1>5. (\A j, k \in 1..Len(s) : j # k => s[j] # s[k]) => s \in Injection(1..Len(s), ToSet(s))
  BY <1>2 DEF Injection, IsInjective, Surjection
<1>6. ToSet(s) \subseteq S
  BY <1>1 DEF ToSet
<1> QED
  BY <1>3, <1>4, <1>5, <1>6

\* A sequence over a set is one over a larger set.
LEMMA WiderSeq ==
  ASSUME NEW S, NEW T, S \subseteq T, NEW s \in Seq(S)
  PROVE  s \in Seq(T)
OBVIOUS

\* Appending makes a longer sequence.
LEMMA AppendType ==
  ASSUME NEW S, NEW s \in Seq(S), NEW x \in S
  PROVE  Append(s, x) \in Seq(S) /\ Len(Append(s, x)) = Len(s) + 1
OBVIOUS

\* A prefix keeps its elements.
LEMMA Prefix ==
  ASSUME NEW S, NEW s \in Seq(S), NEW n \in Nat, n <= Len(s), NEW t, t = SubSeq(s, 1, n)
  PROVE  t \in Seq(S) /\ Len(t) = n /\ DOMAIN t = 1..n /\ \A j \in 1..n : t[j] = s[j]
OBVIOUS

\* Elements are in the set.
LEMMA SeqElement ==
  ASSUME NEW S, NEW s \in Seq(S), NEW j \in 1..Len(s)
  PROVE  s[j] \in S
OBVIOUS

\* A union is no larger than its parts together.
LEMMA UnionBound ==
  ASSUME NEW S, NEW T, IsFiniteSet(S), IsFiniteSet(T)
  PROVE  Cardinality(S \cup T) <= Cardinality(S) + Cardinality(T)
<1>1. Cardinality(S \cup T) = Cardinality(S) + Cardinality(T) - Cardinality(S \cap T)
  BY FS_Union
<1>2. Cardinality(S \cap T) \in Nat /\ Cardinality(S) \in Nat /\ Cardinality(T) \in Nat
  <2>1. IsFiniteSet(S \cap T)
    BY FS_Subset
  <2> QED
    BY <2>1, FS_CardinalityType
<1> QED
  BY <1>1, <1>2

\* The smaller of two numbers.
LEMMA MinOfTwo ==
  ASSUME NEW a \in Nat, NEW b \in Nat
  PROVE  Min({a, b}) \in {a, b} /\ Min({a, b}) <= a /\ Min({a, b}) <= b
<1>1. \E x \in {a, b} : \A y \in {a, b} : x =< y
  BY Z3
<1> QED
  BY <1>1 DEF Min

\* There are finitely many projects.
LEMMA ProjectsFinite == IsFiniteSet(Projects)
<1> DEFINE f == [s \in Series |-> ProjectOf[s]]
<1>1. f \in Surjection(Series, Projects)
  BY DEF Surjection, Projects
<1> QED
  BY <1>1, Bounds, FS_Surjection

----------------------------------------------------------------------------
(* The inductive invariant.                                                *)

\* Nothing is listed or counted at first.
LEMMA InitIInv == Init => IInv
<1> SUFFICES ASSUME Init PROVE IInv
  OBVIOUS
<1> USE Bounds
<1>1. StoreInv
  <2>1. store \in Seq(SUBSET Series) /\ Len(store) = Merged
    BY TenantScanAssumption DEF TenantScanAssumption, Init, Merged
  <2>2. \A b \in 1..Merged : store[b] = IF b = Merged THEN {} ELSE Blocks[b]
    BY TenantScanAssumption DEF TenantScanAssumption, Init, Merged
  <2> QED
    BY <2>1, <2>2 DEF StoreInv, Content
<1>2. LocalInv
  <2>1. Cardinality(entries) = 0
    BY FS_EmptySet DEF Init
  <2> QED
    BY <2>1 DEF Init, LocalInv
<1>3. CoverInv
  BY DEF Init, CoverInv
<1>4. CountInv
  <2>1. seen = {} /\ Cardinality(Series) \in Nat
    BY FS_CardinalityType DEF Init
  <2>2. \A p \in Projects : Cardinality(SeriesOf(seen, p)) = 0
    BY <2>1, FS_EmptySet DEF SeriesOf
  <2>3. i = 1 /\ counts = [p \in Projects |-> 0]
    BY DEF Init
  <2> QED
    BY <2>1, <2>2, <2>3 DEF CountInv
<1> QED
  BY <1>1, <1>2, <1>3, <1>4 DEF IInv

\* While the loop does not move, the counts stay right.
LEMMA CountKept == IInv /\ UNCHANGED <<i, counts, seen>> => CountInv'
BY DEF IInv, CountInv, SeriesOf

\* The TSDB's steps do not touch the scan.
LEMMA StepCompaction == IInv /\ Compaction => IInv'
<1> SUFFICES ASSUME IInv, Compaction PROVE IInv'
  OBVIOUS
<1> USE DEF IInv
<1>b. Merged \in Nat \ {0} /\ MaxFaults \in Nat
  BY Bounds
<1>1. UNCHANGED scanVars
  BY DEF Compaction, CompactWrite, CompactDelete
<1>2. LocalInv' /\ CoverInv'
  BY <1>1 DEF scanVars, LocalInv, CoverInv
<1>3. CountInv'
  BY <1>1, CountKept DEF scanVars
<1>4. StoreInv'
  <2>1. DOMAIN store = 1..Merged /\ store \in [1..Merged -> SUBSET Series]
    BY DEF StoreInv
  <2>2. \E b \in 1..Merged : store' = [store EXCEPT ![b] = {}] \/ store' = [store EXCEPT ![b] = Content(b)]
    BY <1>b DEF Compaction, CompactWrite, CompactDelete, Content
  <2>3. store' \in [1..Merged -> SUBSET Series] /\ \A b \in 1..Merged : store'[b] \in {{}, Content(b)}
    BY <2>1, <2>2, ContentType DEF StoreInv
  <2>4. store' \in Seq(SUBSET Series) /\ Len(store') = Merged
    BY <1>b, <2>3
  <2> QED
    BY <2>3, <2>4 DEF StoreInv
<1> QED
  BY <1>2, <1>3, <1>4

\* Listing the directory, in its three steps.
LEMMA StepListing == IInv /\ (ReadDir \/ (\E b \in 1..Merged : StatMeta(b)) \/ SortDirs) => IInv'
<1> USE DEF IInv
<1>b. Merged \in Nat \ {0} /\ MaxFaults \in Nat
  BY Bounds
<1>1. ASSUME IInv, ReadDir PROVE IInv'
  <2>1. StoreInv' /\ CountInv'
    BY <1>1, CountKept DEF ReadDir, StoreInv
  <2>3. Existing \subseteq 1..Merged /\ Cardinality(Existing) <= Merged /\ Cardinality(Existing) \in Nat
    <3>1. Existing \in SUBSET (1..Merged)
      BY DEF Existing
    <3>2. IsFiniteSet(1..Merged) /\ Cardinality(1..Merged) = Merged
      BY <1>b, FS_Interval
    <3>3. IsFiniteSet(Existing) /\ Cardinality(Existing) <= Cardinality(1..Merged)
      BY <3>1, <3>2, FS_Subset
    <3>4. Cardinality(Existing) \in Nat
      BY <3>3, FS_CardinalityType
    <3> QED
      BY <3>1, <3>2, <3>3, <3>4
  <2>4. UNION Range(store) \subseteq Series /\ \A s \in UNION Range(store) : \E b \in Existing : s \in Content(b)
    <3>1. DOMAIN store = 1..Merged
      BY <1>1 DEF StoreInv
    <3> QED
      BY <1>1, <3>1 DEF StoreInv, Range, Existing
  <2>5. LocalInv'
    <3>1. UNCHANGED <<dirs, i, top, seen, missed, faults>> /\ dirs = <<>> /\ i = 1
      BY <1>1 DEF ReadDir, LocalInv
    <3>2. \/ pc' = "stat" /\ entries' = Existing /\ present' = UNION Range(store)
          \/ pc' = "error" /\ entries' = entries /\ present' = present
      BY <1>1 DEF ReadDir
    <3>3. entries = {} /\ Cardinality(entries) = 0
      BY <1>1, FS_EmptySet DEF ReadDir, LocalInv
    <3>4. entries' \subseteq 1..Merged /\ Cardinality(entries') <= Merged /\ Cardinality(entries') \in Nat
      <4>1. CASE entries' = Existing
        BY <2>3, <4>1
      <4>2. CASE entries' = entries
        <5>1. Cardinality(entries') = 0 /\ entries' = {}
          BY <3>3, <4>2
        <5> QED
          BY <1>b, <5>1
      <4> QED
        BY <3>2, <4>1, <4>2
    <3>5. pc' \in {"stat", "error"} /\ present' \subseteq Series
      BY <1>1, <2>4, <3>2 DEF LocalInv
    <3>6. dirs' = <<>> /\ Len(dirs') = 0 /\ dirs' \in Seq(1..Merged) /\ i' = 1
      BY <3>1
    <3>7. Len(dirs') + Cardinality(entries') <= Merged
      BY <3>4, <3>6
    <3> QED
      BY <1>1, <3>1, <3>4, <3>5, <3>6, <3>7 DEF LocalInv
  <2>6. CoverInv'
    BY <1>1, <2>4 DEF ReadDir, CoverInv
  <2> QED
    BY <2>1, <2>5, <2>6
<1>2. ASSUME IInv, NEW b \in 1..Merged, StatMeta(b) PROVE IInv'
  <2>1. /\ pc = "stat" /\ b \in entries /\ entries' = entries \ {b} /\ i = 1
        /\ UNCHANGED <<store, pc, i, counts, top, present, seen, faults>>
        /\ \/ dirs' = Append(dirs, b) /\ missed' = missed
           \/ dirs' = dirs /\ missed' = missed \cup Content(b)
    BY <1>2 DEF StatMeta, LocalInv
  <2>2. StoreInv' /\ CountInv'
    BY <1>2, <2>1, CountKept DEF StoreInv
  <2>3. Cardinality(entries') = Cardinality(entries) - 1 /\ Cardinality(entries) \in Nat
    <3>1. IsFiniteSet(1..Merged) /\ entries \in SUBSET (1..Merged)
      BY <1>b, <1>2, FS_Interval DEF LocalInv
    <3>2. IsFiniteSet(entries)
      BY <3>1, FS_Subset
    <3> QED
      BY <2>1, <3>2, FS_RemoveElement, FS_CardinalityType
  <2>4. LocalInv'
    <3>1. seen' \subseteq Series /\ missed' \subseteq Series
      BY <1>2, <2>1, ContentType DEF LocalInv
    <3>a. dirs \in Seq(1..Merged) /\ (dirs' = dirs \/ dirs' = Append(dirs, b))
      BY <1>2, <2>1, Zenon DEF LocalInv
    <3>2. /\ dirs' \in Seq(1..Merged) /\ Len(dirs) \in Nat
          /\ Len(dirs') = Len(dirs) \/ Len(dirs') = Len(dirs) + 1
      <4> HIDE DEF IInv
      <4>1. Len(dirs) \in Nat
        BY <3>a
      <4>2. Append(dirs, b) \in Seq(1..Merged) /\ Len(Append(dirs, b)) = Len(dirs) + 1
        BY <3>a, AppendType
      <4> QED
        BY <3>a, <4>1, <4>2
    <3>3. Len(dirs') + Cardinality(entries') <= Merged
      BY <1>b, <1>2, <2>3, <3>2 DEF LocalInv
    <3>4. entries' \subseteq 1..Merged /\ i' \in 1..Len(dirs') + 1
      BY <1>2, <2>1, <3>2 DEF LocalInv
    <3>5. pc' = "stat" /\ i' = 1 /\ UNCHANGED <<top, present, faults>>
      BY <2>1
    <3>6. /\ pc' \in {"readdir", "stat", "scan", "rank", "done", "error"} /\ pc' # "readdir"
          /\ pc' \notin {"scan", "rank", "done"} /\ pc' \notin {"rank", "done"}
      BY <3>5
    <3>7. top' \in Seq(Projects) /\ present' \subseteq Series /\ faults' \in 0..MaxFaults
      BY <1>2, <3>5 DEF LocalInv
    <3> QED
      BY <3>1, <3>2, <3>3, <3>4, <3>5, <3>6, <3>7, Zenon DEF LocalInv
  <2>5. CoverInv'
    <3>1. dirs \in Seq(1..Merged) /\ b \in 1..Merged
      BY <1>2 DEF LocalInv
    <3>2. /\ Len(dirs) \in Nat /\ Len(Append(dirs, b)) = Len(dirs) + 1 /\ Append(dirs, b)[Len(dirs) + 1] = b
          /\ \A j \in 1..Len(dirs) : Append(dirs, b)[j] = dirs[j]
      BY <3>1
    <3>3. SUFFICES ASSUME NEW s \in present
                   PROVE  \/ s \in seen' \cup missed'
                          \/ \E a \in entries' : s \in Content(a)
                          \/ \E j \in i'..Len(dirs') : s \in Content(dirs'[j])
      BY <2>1 DEF CoverInv
    <3>4. CASE s \in seen \cup missed
      BY <2>1, <3>4
    <3>5. ASSUME NEW j \in 1..Len(dirs), s \in Content(dirs[j])
          PROVE  \E k \in i'..Len(dirs') : s \in Content(dirs'[k])
      <4>1. j \in i'..Len(dirs') /\ dirs'[j] = dirs[j]
        BY <2>1, <3>2
      <4> QED
        BY <3>5, <4>1
    <3>6. ASSUME NEW a \in entries, s \in Content(a), a # b PROVE \E c \in entries' : s \in Content(c)
      BY <2>1, <3>6
    <3>7. CASE s \in Content(b) /\ dirs' = Append(dirs, b)
      <4>1. Len(dirs) + 1 \in i'..Len(dirs') /\ dirs'[Len(dirs) + 1] = b
        BY <2>1, <3>2, <3>7
      <4> QED
        BY <3>7, <4>1
    <3>8. CASE s \in Content(b) /\ missed' = missed \cup Content(b)
      BY <3>8
    <3>9. \/ s \in seen \cup missed \/ \E a \in entries : s \in Content(a)
          \/ \E j \in 1..Len(dirs) : s \in Content(dirs[j])
      BY <1>2, <2>1 DEF CoverInv
    <3> QED
      BY <2>1, <3>4, <3>5, <3>6, <3>7, <3>8, <3>9
  <2> QED
    BY <2>2, <2>4, <2>5
<1>3. ASSUME IInv, SortDirs PROVE IInv'
  <2>1. /\ pc = "stat" /\ pc' = "scan" /\ entries = {} /\ i = 1
        /\ dirs' \in SetToSeqs(ToSet(dirs)) /\ dirs \in Seq(1..Merged)
        /\ UNCHANGED <<store, entries, i, counts, top, present, seen, missed, faults>>
    BY <1>3 DEF SortDirs, LocalInv
  <2>2. /\ dirs' \in Seq(1..Merged) /\ ToSet(dirs') = ToSet(dirs)
        /\ Len(dirs') <= Len(dirs) /\ Len(dirs') \in Nat /\ Len(dirs) \in Nat
    <3>1. ToSet(dirs) \subseteq 1..Merged /\ IsFiniteSet(ToSet(dirs)) /\ Cardinality(ToSet(dirs)) <= Len(dirs)
      BY <2>1, SetOfSeq
    <3>2. /\ dirs' \in Seq(ToSet(dirs)) /\ Len(dirs') = Cardinality(ToSet(dirs)) /\ Len(dirs') \in Nat
          /\ ToSet(dirs') = ToSet(dirs)
      BY <2>1, <3>1, Ordering
    <3>3. Len(dirs) \in Nat
      BY <2>1
    <3>4. dirs' \in Seq(1..Merged)
      BY <3>1, <3>2, WiderSeq
    <3> QED
      BY <3>1, <3>2, <3>3, <3>4
  <2>3. StoreInv' /\ CountInv'
    BY <1>3, <2>1, CountKept DEF StoreInv
  <2>4. LocalInv'
    <3>1. entries' = {} /\ Cardinality(entries') = 0
      BY <2>1, FS_EmptySet
    <3>2. Len(dirs') + Cardinality(entries') <= Merged
      <4>1. Len(dirs) + Cardinality(entries) <= Merged /\ Cardinality(entries) = 0
        BY <1>3, <2>1, FS_EmptySet DEF LocalInv
      <4> QED
        BY <1>b, <2>2, <3>1, <4>1
    <3> QED
      BY <1>3, <2>1, <2>2, <3>1, <3>2 DEF LocalInv
  <2>5. CoverInv'
    <3>1. ToSet(dirs) = {dirs[j] : j \in 1..Len(dirs)} /\ ToSet(dirs') = {dirs'[j] : j \in 1..Len(dirs')}
      BY <2>1, <2>2 DEF ToSet
    <3>2. \A j \in 1..Len(dirs) : \E k \in 1..Len(dirs') : dirs'[k] = dirs[j]
      BY <2>2, <3>1
    <3>3. UNCHANGED <<present, entries, seen, missed, i>> /\ i = 1 /\ pc = "stat"
      BY <2>1
    <3> QED
      BY <1>3, <3>2, <3>3 DEF CoverInv
  <2> QED
    BY <2>3, <2>4, <2>5
<1> QED
  BY <1>1, <1>2, <1>3

\* One turn of the loop: a whole block adds at least its new series to the
\* counts; a block that is gone or not fully readable is on record.
LEMMA StepScanBlock == IInv /\ ScanBlock => IInv'
<1> SUFFICES ASSUME IInv, ScanBlock PROVE IInv'
  OBVIOUS
<1> USE DEF IInv
<1>b. Merged \in Nat \ {0} /\ MaxFaults \in Nat /\ Cardinality(Series) \in Nat
  BY Bounds, FS_CardinalityType
<1>1. /\ pc = "scan" /\ i \in Nat \ {0} /\ i <= Len(dirs) /\ i' = i + 1 /\ Len(dirs) \in Nat
      /\ UNCHANGED <<store, pc, entries, dirs, top, present>>
  <2>1. dirs \in Seq(1..Merged) /\ i \in 1..Len(dirs) + 1
    BY DEF LocalInv
  <2>2. Len(dirs) \in Nat
    BY <2>1
  <2> QED
    BY <2>1, <2>2 DEF ScanBlock
<1>2. PICK b \in 1..Merged : b = dirs[i]
  <2>1. dirs \in Seq(1..Merged) /\ i \in 1..Len(dirs)
    BY <1>1 DEF LocalInv
  <2>2. dirs[i] \in 1..Merged
    BY <2>1, SeqElement
  <2> QED
    BY <2>2
<1> DEFINE vals == {ProjectOf[s] : s \in store[b]}
           N(p) == Cardinality(SeriesOf(store[b], p))
<1>3. store[b] \subseteq Series /\ (b \in Existing => store[b] = Content(b))
  BY <1>2 DEF StoreInv, Existing
<1>4. \A p \in Projects : N(p) \in Nat /\ N(p) <= Cardinality(Series)
  BY <1>3, SeriesFinite
<1> DEFINE Of(ps) == {s \in store[b] : ProjectOf[s] \in ps}
<1>5. \/ /\ b \in Existing
         /\ faults' = faults \/ (faults < MaxFaults /\ faults' = faults + 1)
         /\ \E ps \in SUBSET vals : /\ counts' = Counted(b, ps) /\ seen' = seen \cup Of(ps)
                                   /\ missed' = missed \cup (store[b] \ Of(ps))
      \/ missed' = missed \cup Content(b) /\ UNCHANGED <<counts, seen, faults>>
  BY <1>2 DEF ScanBlock
<1>6. StoreInv'
  BY <1>1 DEF StoreInv
<1>a. seen \subseteq seen' /\ missed \subseteq missed' /\ Content(b) \subseteq seen' \cup missed'
  BY <1>3, <1>5
<1>7. CoverInv'
  <2>1. SUFFICES ASSUME NEW s \in present
                 PROVE  \/ s \in seen' \cup missed'
                        \/ \E a \in entries : s \in Content(a)
                        \/ \E j \in (i + 1)..Len(dirs) : s \in Content(dirs[j])
    BY <1>1 DEF CoverInv
  <2>2. \/ s \in seen \cup missed \/ \E a \in entries : s \in Content(a)
        \/ \E j \in i..Len(dirs) : s \in Content(dirs[j])
    BY <1>1 DEF CoverInv
  <2>3. ASSUME NEW j \in i..Len(dirs) PROVE j = i \/ j \in (i + 1)..Len(dirs)
    BY <1>1
  <2> QED
    BY <1>2, <1>a, <2>2, <2>3
<1>8. LocalInv'
  <2>1. seen' \subseteq Series /\ missed' \subseteq Series
    BY <1>2, <1>3, <1>5, ContentType DEF LocalInv
  <2>2. faults' \in 0..MaxFaults
    BY <1>b, <1>5 DEF LocalInv
  <2> QED
    BY <1>1, <2>1, <2>2 DEF LocalInv
<1>9. CountInv'
  <2>1. \A p \in Projects : counts[p] \in Nat /\ counts[p] <= Cardinality(Series) * (i - 1)
    BY DEF CountInv
  <2>2. counts' \in [Projects -> Nat] /\ \A p \in Projects : counts'[p] = counts[p] \/ counts'[p] = counts[p] + N(p)
    <3>1. CASE counts' = counts
      BY <3>1 DEF CountInv
    <3>2. ASSUME NEW ps, counts' = Counted(b, ps)
          PROVE  counts' \in [Projects -> Nat] /\ \A p \in Projects : counts'[p] = counts[p] \/ counts'[p] = counts[p] + N(p)
      BY <1>4, <2>1, <3>2 DEF Counted
    <3> QED
      BY <1>5, <3>1, <3>2
  <2>3. \A p \in Projects : counts'[p] <= Cardinality(Series) * (i' - 1)
    <3> SUFFICES ASSUME NEW p \in Projects PROVE counts'[p] <= Cardinality(Series) * (i' - 1)
      OBVIOUS
    <3>0. PICK c \in Int : c = Cardinality(Series) * (i - 1)
      BY <1>b, <1>1
    <3>1. counts'[p] <= Cardinality(Series) * (i - 1) + Cardinality(Series)
      <4>1. /\ counts[p] \in Nat /\ counts[p] <= c /\ N(p) \in Nat /\ N(p) <= Cardinality(Series)
            /\ counts'[p] = counts[p] \/ counts'[p] = counts[p] + N(p)
        BY <1>4, <2>1, <2>2, <3>0
      <4>2. counts'[p] <= c + Cardinality(Series)
        <5> HIDE DEF N
        <5> QED
          BY <1>b, <4>1
      <4> QED
        BY <3>0, <4>2
    <3>2. Cardinality(Series) * (i - 1) + Cardinality(Series) = Cardinality(Series) * i
      BY <1>b, <1>1
    <3> QED
      BY <1>b, <1>1, <3>1, <3>2
  <2>4. ASSUME NEW p \in Projects PROVE Cardinality(SeriesOf(seen', p)) <= counts'[p]
    <3>0. Cardinality(SeriesOf(seen, p)) <= counts[p] /\ seen \subseteq Series
      BY DEF CountInv, LocalInv
    <3>1. CASE UNCHANGED <<counts, seen>>
      BY <3>0, <3>1 DEF SeriesOf
    <3>2. ASSUME NEW ps, counts' = Counted(b, ps), seen' = seen \cup Of(ps)
          PROVE  Cardinality(SeriesOf(seen', p)) <= counts'[p]
      <4>1. CASE p \in ps
        <5>1. SeriesOf(seen', p) = SeriesOf(seen, p) \cup SeriesOf(store[b], p)
          BY <3>2, <4>1 DEF SeriesOf
        <5>2. /\ IsFiniteSet(SeriesOf(seen, p)) /\ Cardinality(SeriesOf(seen, p)) \in Nat
              /\ IsFiniteSet(SeriesOf(store[b], p)) /\ N(p) \in Nat
          BY <1>3, <3>0, SeriesFinite
        <5>3. Cardinality(SeriesOf(seen', p)) <= Cardinality(SeriesOf(seen, p)) + N(p)
          BY <5>1, <5>2, UnionBound
        <5>4. counts'[p] = counts[p] + N(p)
          BY <3>2, <4>1 DEF Counted
        <5>5. Cardinality(SeriesOf(seen', p)) \in Nat
          <6>1. seen' \subseteq Series
            BY <1>8 DEF LocalInv
          <6> QED
            BY <6>1, SeriesFinite
        <5> QED
          BY <2>1, <3>0, <5>2, <5>3, <5>4, <5>5
      <4>2. CASE p \notin ps
        <5>1. SeriesOf(seen', p) = SeriesOf(seen, p)
          BY <3>2, <4>2 DEF SeriesOf
        <5>2. counts'[p] = counts[p]
          BY <3>2, <4>2 DEF Counted
        <5> QED
          BY <3>0, <5>1, <5>2
      <4> QED
        BY <4>1, <4>2
    <3> QED
      BY <1>5, <3>1, <3>2
  <2> QED
    BY <2>2, <2>3, <2>4 DEF CountInv, SeriesOf
<1> QED
  BY <1>6, <1>7, <1>8, <1>9

\* A prefix of an ordering of projects is a sequence of projects.
LEMMA TopOfRank ==
  ASSUME NEW A, A \subseteq Projects, NEW all \in SetToSeqs(A)
  PROVE  SubSeq(all, 1, Min({TopN, Len(all)})) \in Seq(Projects)
<1>1. IsFiniteSet(A)
  BY ProjectsFinite, FS_Subset
<1>2. all \in Seq(A) /\ Len(all) \in Nat
  BY <1>1, Ordering
<1>3. Min({TopN, Len(all)}) \in Nat /\ Min({TopN, Len(all)}) <= Len(all)
  BY <1>2, Bounds, MinOfTwo
<1>4. PICK n \in Nat : n = Min({TopN, Len(all)}) /\ n <= Len(all)
  BY <1>3
<1>5. PICK t : t = SubSeq(all, 1, n)
  OBVIOUS
<1>6. t \in Seq(A)
  BY <1>2, <1>4, <1>5, Prefix
<1> QED
  BY <1>4, <1>5, <1>6, WiderSeq

\* The end of the loop and the ranking.
LEMMA StepRank == IInv /\ (ScanEnds \/ Rank) => IInv'
<1> USE DEF IInv
<1>1. ASSUME IInv, ScanEnds PROVE IInv'
  <2>1. /\ pc = "scan" /\ pc' = "rank" /\ i > Len(dirs)
        /\ UNCHANGED <<store, entries, dirs, i, counts, top, present, seen, missed, faults>>
    BY <1>1 DEF ScanEnds
  <2>2. StoreInv' /\ CoverInv' /\ CountInv'
    BY <1>1, <2>1, CountKept DEF StoreInv, CoverInv
  <2>3. i = Len(dirs) + 1
    <3>1. i \in 1..Len(dirs) + 1 /\ dirs \in Seq(1..Merged)
      BY <1>1 DEF LocalInv
    <3>2. Len(dirs) \in Nat
      BY <3>1
    <3> QED
      BY <2>1, <3>1, <3>2
  <2>4. LocalInv'
    BY <1>1, <2>1, <2>3 DEF LocalInv
  <2> QED
    BY <2>2, <2>4
<1>2. ASSUME IInv, Rank PROVE IInv'
  <2>1. /\ pc = "rank" /\ pc' \in {"done", "error"}
        /\ UNCHANGED <<store, entries, dirs, i, counts, present, seen, missed, faults>>
    BY <1>2 DEF Rank
  <2>2. StoreInv' /\ CoverInv' /\ CountInv'
    BY <1>2, <2>1, CountKept DEF StoreInv, CoverInv
  <2>3. PICK all \in SetToSeqs({p \in Projects : counts[p] > 0}) : top' = SubSeq(all, 1, Min({TopN, Len(all)}))
    BY <1>2 DEF Rank
  <2>4. top' \in Seq(Projects)
    BY <2>3, TopOfRank
  <2>5. LocalInv'
    BY <1>2, <2>1, <2>4 DEF LocalInv
  <2> QED
    BY <2>2, <2>5
<1> QED
  BY <1>1, <1>2

----------------------------------------------------------------------------
(* The theorems.                                                           *)

\* The invariant holds in every reachable state.
THEOREM Invariance == Spec => []IInv
<1>1. IInv /\ [Next]_vars => IInv'
  <2> SUFFICES ASSUME IInv, [Next]_vars PROVE IInv'
    OBVIOUS
  <2>1. CASE UNCHANGED vars
    <3>1. UNCHANGED scanVars /\ store' = store
      BY <2>1 DEF vars
    <3>2. StoreInv' /\ LocalInv' /\ CoverInv'
      BY <3>1 DEF IInv, scanVars, StoreInv, LocalInv, CoverInv
    <3>3. CountInv'
      BY <3>1, CountKept DEF scanVars
    <3> QED
      BY <3>2, <3>3 DEF IInv
  <2> QED
    BY <2>1, StepCompaction, StepListing, StepScanBlock, StepRank DEF Next, Scan
<1> QED
  BY <1>1, InitIInv, PTL DEF Spec

\* Types; no directory is listed twice, so a count is at most the number of
\* series times the number of block directories that can exist.
THEOREM TypeCorrect == Spec => []TypeOK
<1>1. IInv => TypeOK
  <2> SUFFICES ASSUME IInv PROVE TypeOK
    OBVIOUS
  <2>1. Merged \in Nat /\ Cardinality(Series) \in Nat
    BY Bounds, FS_CardinalityType
  <2>2. i \in Nat /\ i - 1 \in Nat /\ i - 1 <= Merged
    <3>1. /\ dirs \in Seq(1..Merged) /\ i \in 1..Len(dirs) + 1 /\ entries \in SUBSET (1..Merged)
          /\ Len(dirs) + Cardinality(entries) <= Merged
      BY DEF IInv, LocalInv
    <3>2. Len(dirs) \in Nat
      BY <3>1
    <3>3. IsFiniteSet(1..Merged)
      BY <2>1, FS_Interval
    <3>4. IsFiniteSet(entries)
      BY <3>1, <3>3, FS_Subset
    <3>5. Cardinality(entries) \in Nat
      BY <3>4, FS_CardinalityType
    <3> QED
      BY <2>1, <3>1, <3>2, <3>5
  <2>3. Cardinality(Series) * (i - 1) <= Cardinality(Series) * Merged
    <3>1. ASSUME NEW c \in Nat, NEW m \in Nat, NEW n \in Nat, m <= n PROVE c * m <= c * n
      BY <3>1
    <3> QED
      BY <2>1, <2>2, <3>1
  <2>4. ASSUME NEW p \in Projects PROVE counts[p] \in 0..Cardinality(Series) * Merged
    <3>1. counts[p] \in Nat /\ counts[p] <= Cardinality(Series) * (i - 1)
      BY DEF IInv, CountInv
    <3>2. PICK c \in Int, d \in Int : c = Cardinality(Series) * (i - 1) /\ d = Cardinality(Series) * Merged
      BY <2>1, <2>2
    <3>3. counts[p] \in 0..d
      BY <2>3, <3>1, <3>2
    <3> QED
      BY <3>2, <3>3
  <2>5. counts \in [Projects -> 0..Cardinality(Series) * Merged]
    BY <2>4 DEF IInv, CountInv
  <2> QED
    BY <2>5 DEF IInv, StoreInv, LocalInv, TypeOK
<1> QED
  BY <1>1, Invariance, PTL

\* However compaction interleaves with the scan, a series that was there when
\* the directory was read goes uncounted only if every block that held it had
\* vanished or could not be read.
THEOREM NoUndercountHolds == Spec => []NoUndercount
<1>1. IInv => NoUndercount
  <2> SUFFICES ASSUME IInv, pc = "done", NEW p \in Projects
               PROVE  Cardinality(SeriesOf(present \ (missed \ seen), p)) <= counts[p]
    BY DEF NoUndercount
  <2>1. present \subseteq seen \cup missed
    <3>1. entries = {} /\ i = Len(dirs) + 1 /\ dirs \in Seq(1..Merged)
      BY DEF IInv, LocalInv
    <3>2. Len(dirs) \in Nat
      BY <3>1
    <3>3. i..Len(dirs) = {}
      BY <3>1, <3>2
    <3> QED
      BY <3>1, <3>3 DEF IInv, CoverInv
  <2>2. SeriesOf(present \ (missed \ seen), p) \in SUBSET SeriesOf(seen, p)
    BY <2>1 DEF SeriesOf
  <2>3. seen \subseteq Series /\ present \ (missed \ seen) \subseteq Series
    BY DEF IInv, LocalInv
  <2>4. IsFiniteSet(SeriesOf(seen, p)) /\ Cardinality(SeriesOf(seen, p)) \in Nat
    BY <2>3, SeriesFinite
  <2>5. Cardinality(SeriesOf(present \ (missed \ seen), p)) <= Cardinality(SeriesOf(seen, p))
    BY <2>2, <2>4, FS_Subset
  <2>6. Cardinality(SeriesOf(present \ (missed \ seen), p)) \in Nat
    BY <2>3, SeriesFinite
  <2>7. Cardinality(SeriesOf(seen, p)) <= counts[p] /\ counts[p] \in Nat
    BY DEF IInv, CountInv
  <2> QED
    BY <2>4, <2>5, <2>6, <2>7
<1> QED
  BY <1>1, Invariance, PTL
=============================================================================
