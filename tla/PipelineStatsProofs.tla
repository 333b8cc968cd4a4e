------------------------ MODULE PipelineStatsProofs -------------------------
(***************************************************************************)
(* More about Pipeline, on top of the inductive invariant IInv of          *)
(* PipelineProofs: packing and splitting never put a sample into two       *)
(* batches, and so the counters of PipelineStats and the byte count of a   *)
(* batch count what they say.                                              *)
(***************************************************************************)
EXTENDS PipelineProofs, WellFoundedInduction

\* Two windows without a common sample.
Apart(it, jt) == it.s # jt.s \/ it.hi <= jt.lo \/ jt.hi <= it.lo

\* The batcher only moves forward: what it has packed lies behind the series
\* it works on and, while it splits that one, behind the open window.
Behind(it) ==
  \/ it.s < nTaken
  \/ it.s = nTaken /\ bpc # "place" /\ (bpc \in {"window", "chunk"} => it.hi <= offset)

FrontInv ==
  /\ \A it \in batch.items : Behind(it)
  /\ \A i \in 1..Len(batches) : \A it \in batches[i].items : Behind(it)

\* No window of a batch meets one of another batch, flushed or open.
ApartInv ==
  /\ \A i \in 1..Len(batches) : \A it \in batches[i].items, jt \in batch.items : Apart(it, jt)
  /\ \A i, j \in 1..Len(batches) : i # j =>
       \A it \in batches[i].items, jt \in batches[j].items : Apart(it, jt)

InHand(w) == wpc[w] \in {"send", "failed"}

\* A batch is in one writer's hands at a time, and is not acknowledged yet.
HandInv ==
  \A w \in Writers : InHand(w) =>
    /\ wb[w] \notin acked
    /\ \A v \in Writers : InHand(v) /\ v # w => wb[v] # wb[w]

\* The samples of the series taken off seriesCh.
ReadSamples == UNION {WindowSamples(Window(s, 0, NSamples[s])) : s \in 1..nTaken}

CountInv ==
  /\ stats.SeriesRead = nTaken /\ stats.SamplesRead = Cardinality(ReadSamples)
  /\ stats.BatchesSent = Cardinality(acked)
  /\ stats.SamplesSent = Cardinality(SamplesOf(acked))

StatsInv == FrontInv /\ ApartInv /\ HandInv /\ CountInv

----------------------------------------------------------------------------
(* Windows never overlap.                                                  *)

\* The log after a flush: the old batches and the new one.
LEMMA LogAfterFlush ==
  ASSUME NEW q \in Seq(Batch), NEW b \in Batch, NEW r, r = Append(q, b)
  PROVE  \A i \in 1..Len(r) : (i \in 1..Len(q) /\ r[i] = q[i]) \/ (i = Len(q) + 1 /\ r[i] = b)
<1> SUFFICES ASSUME NEW i \in 1..Len(r)
             PROVE  (i \in 1..Len(q) /\ r[i] = q[i]) \/ (i = Len(q) + 1 /\ r[i] = b)
  OBVIOUS
<1>1. Len(q) \in Nat /\ Len(r) = Len(q) + 1
  BY AppendBatch
<1>2. i \in 1..Len(q) \/ i = Len(q) + 1
  BY <1>1
<1> QED
  BY <1>2, AppendBatch

\* Being apart does not depend on the order.
LEMMA ApartSymmetric ==
  ASSUME NEW it, NEW jt, Apart(it, jt)
  PROVE  Apart(jt, it)
BY DEF Apart

\* A flush keeps the flushed batches apart, if the new one is.
LEMMA FlushApart ==
  ASSUME NEW b \in Batch, TypeOK, ApartInv, batches' = Append(batches, b),
         \A i \in 1..Len(batches) : \A it \in batches[i].items, jt \in b.items : Apart(it, jt)
  PROVE  \A i, j \in 1..Len(batches') : i # j =>
           \A it \in batches'[i].items, jt \in batches'[j].items : Apart(it, jt)
<1>1. batches \in Seq(Batch)
  BY DEF TypeOK
<1>2. \A i \in 1..Len(batches') :
        \/ i \in 1..Len(batches) /\ batches'[i] = batches[i]
        \/ i = Len(batches) + 1 /\ batches'[i] = b
  BY <1>1, LogAfterFlush
<1> SUFFICES ASSUME NEW i \in 1..Len(batches'), NEW j \in 1..Len(batches'), i # j,
                    NEW it \in batches'[i].items, NEW jt \in batches'[j].items
             PROVE  Apart(it, jt)
  OBVIOUS
<1>3. CASE batches'[i] = batches[i] /\ i \in 1..Len(batches) /\ batches'[j] = batches[j] /\ j \in 1..Len(batches)
  BY <1>3 DEF ApartInv
<1>4. CASE batches'[i] = batches[i] /\ i \in 1..Len(batches) /\ batches'[j] = b
  BY <1>4
<1>5. CASE batches'[i] = b /\ batches'[j] = batches[j] /\ j \in 1..Len(batches)
  BY <1>5, ApartSymmetric
<1> QED
  BY <1>2, <1>3, <1>4, <1>5

\* And it keeps them behind the batcher, if the new one is.
LEMMA FlushBehind ==
  ASSUME NEW b \in Batch, TypeOK, batches' = Append(batches, b),
         \A it \in b.items : Behind(it)',
         \A i \in 1..Len(batches) : \A it \in batches[i].items : Behind(it)'
  PROVE  \A i \in 1..Len(batches') : \A it \in batches'[i].items : Behind(it)'
<1>1. batches \in Seq(Batch)
  BY DEF TypeOK
<1>2. \A i \in 1..Len(batches') :
        \/ i \in 1..Len(batches) /\ batches'[i] = batches[i]
        \/ i = Len(batches) + 1 /\ batches'[i] = b
  BY <1>1, LogAfterFlush
<1> QED
  BY <1>2

\* Every step of the batcher keeps windows apart; no other step packs any.
LEMMA StepApart == TypeInv /\ FrontInv /\ ApartInv /\ [Next]_vars => FrontInv' /\ ApartInv'
<1> SUFFICES ASSUME TypeInv, FrontInv, ApartInv, [Next]_vars PROVE FrontInv' /\ ApartInv'
  OBVIOUS
<1>t. TypeOK /\ CursorInv
  BY DEF TypeInv
<1>a. /\ NSeries \in Nat /\ NSamples \in [SeriesId -> Nat] /\ nTaken \in Nat
      /\ offset \in Nat /\ end \in Nat /\ batch \in Batch
      /\ \A i \in 1..Len(batches) : batches[i] \in Batch
  BY <1>t, PipelineAssumption DEF PipelineAssumption, TypeOK
<1>b. /\ \A it \in batch.items : it.s \in Nat /\ it.lo \in Nat /\ it.hi \in Nat
      /\ \A i \in 1..Len(batches) : \A it \in batches[i].items : it.s \in Nat /\ it.lo \in Nat /\ it.hi \in Nat
  BY <1>a DEF Batch, SeriesId
<1>1. CASE UNCHANGED <<bvars, batches>>
  BY <1>1 DEF FrontInv, ApartInv, Behind, bvars
<1>2. CASE \/ RejectNilProvider \/ Start \/ CancelParent \/ WaitReturn \/ Returned \/ UNCHANGED vars
           \/ Reader \/ \E w \in Writers : Writer(w)
  <2>1. UNCHANGED <<bvars, batches>>
    BY <1>2 DEF RejectNilProvider, Start, CancelParent, WaitReturn, Returned, vars,
       Reader, OpenQuerier, NextSeries, SendSeries, ReaderExit, readerFrame,
       Writer, TakeBatch, BatchSent, BatchFailed, WriterExit, writerFrame
  <2> QED
    BY <1>1, <2>1
<1>3. CASE UNCHANGED <<batch, batches, nTaken>> /\ bpc' \in {"recv", "closed", "done"} /\ bpc # "place"
  BY <1>3 DEF FrontInv, ApartInv, Behind
<1>4. CASE RecvSeries
  <2>1. UNCHANGED <<batch, batches>> /\ nTaken' = nTaken + 1
    BY <1>4 DEF RecvSeries
  <2>2. ASSUME NEW it, it.s \in Nat, Behind(it) PROVE Behind(it)'
    BY <1>a, <2>1, <2>2 DEF Behind
  <2> QED
    BY <1>b, <2>1, <2>2 DEF FrontInv, ApartInv
<1>5. CASE FlushFull \/ FlushLast
  <2>1. \/ UNCHANGED <<batch, batches>> \/ (batches' = Append(batches, batch) /\ batch' = EmptyBatch)
    BY <1>5 DEF FlushFull, FlushLast, MustFlush, Flush, FlushCancelled
  <2>2. UNCHANGED nTaken /\ ((bpc' = bpc /\ offset' = offset) \/ bpc' = "closed")
    BY <1>5 DEF FlushFull, FlushLast, MustFlush, Flush, FlushCancelled
  <2>3. ASSUME NEW it, Behind(it) PROVE Behind(it)'
    BY <2>2, <2>3 DEF Behind
  <2>4. CASE UNCHANGED <<batch, batches>>
    BY <2>3, <2>4 DEF FrontInv, ApartInv
  <2>5. CASE batches' = Append(batches, batch) /\ batch' = EmptyBatch
    <3>1. \A i \in 1..Len(batches') : \A it \in batches'[i].items : Behind(it)'
      BY <1>t, <1>a, <2>3, <2>5, FlushBehind DEF FrontInv
    <3>2. \A i, j \in 1..Len(batches') : i # j =>
             \A it \in batches'[i].items, jt \in batches'[j].items : Apart(it, jt)
      BY <1>t, <1>a, <2>5, FlushApart DEF ApartInv
    <3> QED
      BY <2>5, <3>1, <3>2 DEF FrontInv, ApartInv, EmptyBatch
  <2> QED
    BY <2>1, <2>4, <2>5
<1>6. CASE AppendSeries
  <2>0. PICK new : new = Window(nTaken, 0, NSamples[nTaken])
    OBVIOUS
  <2>1. /\ batch'.items = batch.items \cup {new} /\ UNCHANGED <<batches, nTaken>>
        /\ bpc = "place" /\ bpc' = "recv"
    BY <1>6, <2>0 DEF AppendSeries
  <2>2. new.s = nTaken
    BY <2>0 DEF Window
  <2>3. ASSUME NEW it, Behind(it), it.s \in Nat PROVE Behind(it)' /\ Apart(it, new)
    BY <1>a, <2>1, <2>2, <2>3 DEF Behind, Apart
  <2>4. Behind(new)'
    BY <2>1, <2>2 DEF Behind
  <2> QED
    BY <1>b, <2>1, <2>3, <2>4 DEF FrontInv, ApartInv
<1>7. CASE SplitSeries
  <2>1. UNCHANGED <<batch, batches, nTaken>> /\ bpc = "place"
    BY <1>7 DEF SplitSeries
  <2>2. ASSUME NEW it, Behind(it) PROVE Behind(it)'
    BY <2>1, <2>2 DEF Behind
  <2> QED
    BY <2>1, <2>2 DEF FrontInv, ApartInv
<1>8. CASE OpenWindow \/ HalveWindow
  BY <1>8 DEF OpenWindow, HalveWindow, FrontInv, ApartInv, Behind
<1>9. CASE SendChunk
  <2>n. PICK new : new = Window(nTaken, offset, end)
    OBVIOUS
  <2>b. PICK b : b = [items |-> {new}, bytes |-> Size(nTaken, offset, end)]
    OBVIOUS
  <2>0. bpc = "chunk" /\ UNCHANGED <<nTaken, batch>>
    BY <1>9 DEF SendChunk, FlushCancelled
  <2>1. \/ UNCHANGED batches /\ bpc' = "closed"
        \/ batches' = Append(batches, b) /\ offset' = end /\ bpc' \in {"window", "recv"}
    BY <1>9, <2>n, <2>b DEF SendChunk, Flush, FlushCancelled
  <2>2. CASE UNCHANGED batches /\ bpc' = "closed"
    BY <1>3, <2>0, <2>2
  <2>3. CASE batches' = Append(batches, b) /\ offset' = end /\ bpc' \in {"window", "recv"}
    <3>1. nTaken \in SeriesId /\ offset < end /\ end <= NSamples[nTaken]
      <4>1. offset < end /\ end <= NSamples[nTaken] /\ nTaken # 0
        BY <1>t, <2>0 DEF CursorInv
      <4> QED
        BY <1>t, <1>a, <4>1 DEF TypeOK, SeriesId
    <3>2. Size(nTaken, offset, end) \in Nat
      BY <1>a, <3>1, SizeType
    <3>3. b \in Batch
      BY <1>a, <2>n, <2>b, <3>1, <3>2 DEF Batch, Window
    <3>4. new.s = nTaken /\ new.lo = offset /\ new.hi = end
      BY <2>n DEF Window
    <3>5. ASSUME NEW it, Behind(it), it.hi \in Nat, it.s \in Nat PROVE Behind(it)' /\ Apart(it, new)
      BY <1>a, <2>0, <2>3, <3>1, <3>4, <3>5 DEF Behind, Apart
    <3>6. Behind(new)' /\ b.items = {new}
      BY <1>a, <2>b, <2>0, <2>3, <3>4 DEF Behind
    <3>7. \A i \in 1..Len(batches') : \A it \in batches'[i].items : Behind(it)'
      <4>1. \A i \in 1..Len(batches) : \A it \in batches[i].items : Behind(it)'
        BY <1>b, <3>5 DEF FrontInv
      <4> QED
        BY <1>t, <2>3, <3>3, <3>6, <4>1, FlushBehind
    <3>8. \A i, j \in 1..Len(batches') : i # j =>
             \A it \in batches'[i].items, jt \in batches'[j].items : Apart(it, jt)
      <4>1. \A i \in 1..Len(batches) : \A it \in batches[i].items, jt \in b.items : Apart(it, jt)
        BY <1>b, <3>5, <3>6 DEF FrontInv
      <4> QED
        BY <1>t, <2>3, <3>3, <4>1, FlushApart
    <3>9. \A it \in batch.items : Behind(it)' /\ Apart(new, it)
      BY <1>b, <3>5, ApartSymmetric DEF FrontInv
    <3>10. \A i \in 1..Len(batches') : \A it \in batches'[i].items, jt \in batch.items : Apart(it, jt)
      <4>1. batches \in Seq(Batch)
        BY <1>t DEF TypeOK
      <4>2. \A i \in 1..Len(batches') :
              \/ i \in 1..Len(batches) /\ batches'[i] = batches[i]
              \/ i = Len(batches) + 1 /\ batches'[i] = b
        BY <2>3, <3>3, <4>1, LogAfterFlush
      <4> QED
        BY <3>6, <3>9, <4>2 DEF ApartInv
    <3> QED
      BY <2>0, <3>7, <3>8, <3>9, <3>10 DEF FrontInv, ApartInv
  <2> QED
    BY <2>1, <2>2, <2>3
<1>10. CASE BatcherExit
  BY <1>3, <1>10 DEF BatcherExit
<1> QED
  BY <1>2, <1>4, <1>5, <1>6, <1>7, <1>8, <1>9, <1>10 DEF Next, Batcher

\* Windows that are apart have no sample in common.
LEMMA ApartDisjoint ==
  ASSUME NEW b \in Batch, NEW c \in Batch, \A it \in b.items, jt \in c.items : Apart(it, jt)
  PROVE  BatchSamples(b) \cap BatchSamples(c) = {}
<1> SUFFICES ASSUME NEW x, x \in BatchSamples(b), x \in BatchSamples(c) PROVE FALSE
  OBVIOUS
<1>1. PICK it \in b.items : x \in WindowSamples(it)
  BY DEF BatchSamples
<1>2. PICK jt \in c.items : x \in WindowSamples(jt)
  BY DEF BatchSamples
<1>3. it.lo \in Nat /\ it.hi \in Nat /\ jt.lo \in Nat /\ jt.hi \in Nat
  BY DEF Batch
<1>4. x[1] = it.s /\ x[2] \in (it.lo + 1)..it.hi
  BY <1>1 DEF WindowSamples
<1>5. x[1] = jt.s /\ x[2] \in (jt.lo + 1)..jt.hi
  BY <1>2 DEF WindowSamples
<1>6. Apart(it, jt)
  OBVIOUS
<1> QED
  BY <1>3, <1>4, <1>5, <1>6 DEF Apart

\* No two flushed batches share a sample.
LEMMA TwiceFromInv == TypeInv /\ ApartInv => NoSampleTwice
<1> SUFFICES ASSUME TypeInv, ApartInv, NEW i \in 1..Len(batches), NEW j \in 1..Len(batches), i # j
             PROVE  BatchSamples(batches[i]) \cap BatchSamples(batches[j]) = {}
  BY DEF NoSampleTwice
<1>1. batches[i] \in Batch /\ batches[j] \in Batch
  BY DEF TypeInv, TypeOK
<1>2. \A it \in batches[i].items, jt \in batches[j].items : Apart(it, jt)
  BY DEF ApartInv
<1> QED
  BY <1>1, <1>2, ApartDisjoint

----------------------------------------------------------------------------
(* Batches in the writers' hands.                                          *)

\* Every step keeps a batch in one hand only, and drops it when it is counted.
LEMMA StepHand == TypeInv /\ HandInv /\ [Next]_vars => HandInv'
<1> SUFFICES ASSUME TypeInv, HandInv, [Next]_vars PROVE HandInv'
  OBVIOUS
<1>t. /\ bTaken \in Nat /\ acked \in SUBSET (1..bTaken) /\ wb \in [Writers -> 0..bTaken]
      /\ wpc \in [Writers -> {"recv", "send", "failed", "done"}]
  BY DEF TypeInv, TypeOK
<1>1. CASE UNCHANGED wvars
  BY <1>1 DEF HandInv, InHand, wvars
<1>2. CASE \/ RejectNilProvider \/ Start \/ CancelParent \/ WaitReturn \/ Returned \/ UNCHANGED vars
           \/ Reader
  BY <1>1, <1>2 DEF RejectNilProvider, Start, CancelParent, WaitReturn, Returned, vars,
     Reader, OpenQuerier, NextSeries, SendSeries, ReaderExit, readerFrame
<1>3. CASE Batcher
  BY <1>1, <1>3 DEF Batcher, RecvSeries, FlushFull, AppendSeries, SplitSeries, OpenWindow,
     HalveWindow, SendChunk, FlushLast, BatcherExit, batcherFrame
<1>4. ASSUME NEW w \in Writers, Writer(w) PROVE HandInv'
  <2>1. CASE TakeBatch(w)
    <3>1. /\ wb' = [wb EXCEPT ![w] = bTaken + 1] /\ wpc' = [wpc EXCEPT ![w] = "send"]
          /\ acked' = acked /\ bTaken + 1 \notin acked
      BY <1>t, <2>1 DEF TakeBatch
    <3>2. \A v \in Writers : wb[v] # bTaken + 1
      BY <1>t
    <3> QED
      BY <1>t, <3>1, <3>2 DEF HandInv, InHand
  <2>2. CASE BatchSent(w)
    <3>1. /\ wpc' = [wpc EXCEPT ![w] = "recv"] /\ wb' = [wb EXCEPT ![w] = 0]
          /\ acked' = acked \cup {wb[w]} /\ InHand(w)
      BY <2>2 DEF BatchSent, InHand
    <3> QED
      BY <1>t, <3>1 DEF HandInv, InHand
  <2>3. CASE BatchFailed(w)
    BY <1>t, <2>3 DEF BatchFailed, HandInv, InHand
  <2>4. CASE WriterExit(w)
    BY <1>t, <2>4 DEF WriterExit, HandInv, InHand
  <2> QED
    BY <1>4, <2>1, <2>2, <2>3, <2>4 DEF Writer
<1> QED
  BY <1>2, <1>3, <1>4 DEF Next

----------------------------------------------------------------------------
(* Counting.                                                               *)

\* The samples of series s.
LEMMA SeriesSamples ==
  ASSUME NEW s \in SeriesId
  PROVE  /\ WindowSamples(Window(s, 0, NSamples[s])) = {s} \X (1..NSamples[s])
         /\ IsFiniteSet({s} \X (1..NSamples[s]))
         /\ Cardinality({s} \X (1..NSamples[s])) = NSamples[s]
<1>1. NSamples[s] \in Nat
  BY PipelineAssumption DEF PipelineAssumption
<1>2. WindowSamples(Window(s, 0, NSamples[s])) = {s} \X (1..NSamples[s])
  BY <1>1 DEF WindowSamples, Window
<1>3. IsFiniteSet({s}) /\ Cardinality({s}) = 1
  BY FS_Singleton
<1>4. IsFiniteSet(1..NSamples[s]) /\ Cardinality(1..NSamples[s]) = NSamples[s]
  BY <1>1, FS_Interval
<1>5. /\ IsFiniteSet({s} \X (1..NSamples[s]))
      /\ Cardinality({s} \X (1..NSamples[s])) = Cardinality({s}) * Cardinality(1..NSamples[s])
  BY <1>3, <1>4, FS_Product, Zenon
<1>6. 1 * NSamples[s] = NSamples[s]
  BY <1>1
<1> QED
  BY <1>2, <1>3, <1>4, <1>5, <1>6, Zenon

\* Adding a disjoint finite set adds up the numbers of elements.
LEMMA DisjointSum ==
  ASSUME NEW S, IsFiniteSet(S), NEW T, IsFiniteSet(T), S \cap T = {}
  PROVE  IsFiniteSet(S \cup T) /\ Cardinality(S \cup T) = Cardinality(S) + Cardinality(T)
<1>1. Cardinality(S \cap T) = 0
  BY FS_EmptySet
<1>2. Cardinality(S) \in Nat /\ Cardinality(T) \in Nat
  BY FS_CardinalityType
<1>3. IsFiniteSet(S \cup T) /\ Cardinality(S \cup T) = Cardinality(S) + Cardinality(T) - Cardinality(S \cap T)
  BY FS_Union, Zenon
<1> QED
  BY <1>1, <1>2, <1>3

\* Finitely many samples are read.
LEMMA ReadFinite ==
  ASSUME NEW n \in 0..NSeries
  PROVE  IsFiniteSet(UNION {WindowSamples(Window(s, 0, NSamples[s])) : s \in 1..n})
<1> DEFINE W(s) == WindowSamples(Window(s, 0, NSamples[s]))
           S == {W(s) : s \in 1..n}
           f == [s \in 1..n |-> W(s)]
<1>1. 1..n \subseteq SeriesId /\ n \in Int
  BY PipelineAssumption DEF PipelineAssumption, SeriesId
<1>2. \A s \in 1..n : IsFiniteSet(W(s))
  BY <1>1, SeriesSamples
<1> HIDE DEF W
<1>3. f \in Surjection(1..n, S)
  BY DEF Surjection
<1>4. IsFiniteSet(1..n)
  BY <1>1, FS_Interval
<1>5. IsFiniteSet(S)
  BY <1>3, <1>4, FS_Surjection DEF ExistsSurjection
<1>6. IsFiniteSet(UNION S)
  BY <1>2, <1>5, FS_UNION
<1> QED
  BY <1>6 DEF W

\* What a batch holds are samples of series the batcher has taken.
LEMMA SamplesAreRead ==
  ASSUME IInv, FrontInv, NEW i \in 1..Len(batches)
  PROVE  BatchSamples(batches[i]) \subseteq ReadSamples
<1> SUFFICES ASSUME NEW it \in batches[i].items, NEW x \in WindowSamples(it)
             PROVE  x \in ReadSamples
  BY DEF BatchSamples
<1>1. batches[i] \in Batch /\ BatchOK(batches[i]) /\ nTaken \in Nat
  BY DEF IInv, TypeInv, TypeOK, BudgetInv
<1>2. it.s \in SeriesId /\ it.lo \in Nat /\ it.hi \in Nat /\ it.hi <= NSamples[it.s]
  BY <1>1 DEF Batch, BatchOK, WindowOK
<1>3. NSamples[it.s] \in Nat
  BY <1>2, PipelineAssumption DEF PipelineAssumption
<1>4. x \in {it.s} \X (1..NSamples[it.s])
  BY <1>2, <1>3 DEF WindowSamples
<1>5. x \in WindowSamples(Window(it.s, 0, NSamples[it.s]))
  BY <1>2, <1>4, SeriesSamples
<1>6. it.s \in 1..nTaken
  <2>1. Behind(it)
    BY DEF FrontInv
  <2> QED
    BY <1>1, <1>2, <2>1 DEF Behind, SeriesId
<1> QED
  BY <1>5, <1>6 DEF ReadSamples

\* The samples read, and those of any set of batches, can be counted.
LEMMA Countable ==
  ASSUME IInv, FrontInv
  PROVE  /\ IsFiniteSet(ReadSamples) /\ Cardinality(ReadSamples) \in Nat
         /\ \A ids \in SUBSET (1..Len(batches)) :
              /\ SamplesOf(ids) \subseteq ReadSamples /\ IsFiniteSet(SamplesOf(ids))
              /\ Cardinality(SamplesOf(ids)) <= Cardinality(ReadSamples)
<1>1. nTaken \in 0..NSeries
  BY PipelineAssumption DEF IInv, TypeInv, TypeOK, PipelineAssumption
<1>2. IsFiniteSet(ReadSamples)
  BY <1>1, ReadFinite DEF ReadSamples
<1>3. Cardinality(ReadSamples) \in Nat
  BY <1>2, FS_CardinalityType
<1>4. ASSUME NEW ids \in SUBSET (1..Len(batches))
      PROVE  SamplesOf(ids) \subseteq ReadSamples
  BY SamplesAreRead DEF SamplesOf
<1> QED
  BY <1>2, <1>3, <1>4, FS_Subset

\* Flushing leaves the batches a writer has taken as they are.
LEMMA SamplesKept ==
  ASSUME TypeOK, NEW ids \in SUBSET (1..Len(batches)),
         UNCHANGED batches \/ \E b \in Batch : batches' = Append(batches, b)
  PROVE  UNION {BatchSamples(batches'[i]) : i \in ids} = SamplesOf(ids)
<1>1. batches \in Seq(Batch)
  BY DEF TypeOK
<1>2. \A i \in ids : batches'[i] = batches[i]
  BY <1>1, AppendBatch
<1> QED
  BY <1>2 DEF SamplesOf

\* Every step keeps the counters true to what was read and acknowledged.
LEMMA StepCount ==
  ASSUME IInv, IInv', FrontInv, FrontInv', ApartInv, HandInv, CountInv, [Next]_vars
  PROVE  CountInv'
<1>t. /\ TypeOK /\ CursorInv /\ nTaken \in Nat /\ bTaken \in 0..Len(batches) /\ Len(batches) \in Nat
      /\ acked \in SUBSET (1..bTaken) /\ acked \in SUBSET (1..Len(batches)) /\ stats \in StatsRec
  <2>1. TypeOK /\ CursorInv
    BY DEF IInv, TypeInv
  <2>2. /\ nTaken \in Nat /\ bTaken \in 0..Len(batches) /\ acked \in SUBSET (1..bTaken) /\ batches \in Seq(Batch)
    BY <2>1, PipelineAssumption DEF TypeOK, PipelineAssumption
  <2>3. Len(batches) \in Nat
    BY <2>2
  <2>4. acked \in SUBSET (1..Len(batches))
    BY <2>2, <2>3
  <2>5. stats \in StatsRec
    BY <2>1 DEF TypeOK, StatsRec
  <2> QED
    BY <2>1, <2>2, <2>3, <2>4, <2>5
<1>k. UNION {BatchSamples(batches'[i]) : i \in acked} = SamplesOf(acked)
  <2>1. UNCHANGED batches \/ \E b \in Batch : batches' = Append(batches, b)
    BY LogGrows DEF IInv
  <2> QED
    BY <1>t, <2>1, SamplesKept
<1>1. CASE UNCHANGED <<nTaken, acked, stats>>
  BY <1>k, <1>1 DEF CountInv, ReadSamples, SamplesOf
<1>2. CASE \/ RejectNilProvider \/ Start \/ CancelParent \/ WaitReturn \/ Returned \/ UNCHANGED vars
           \/ Reader
  <2>1. UNCHANGED <<bvars, wvars, stats>>
    BY <1>2 DEF RejectNilProvider, Start, CancelParent, WaitReturn, Returned, vars,
       Reader, OpenQuerier, NextSeries, SendSeries, ReaderExit, readerFrame
  <2> QED
    BY <1>1, <2>1 DEF bvars, wvars
<1>3. CASE \/ FlushFull \/ AppendSeries \/ SplitSeries \/ OpenWindow \/ HalveWindow \/ SendChunk
           \/ FlushLast \/ BatcherExit
  BY <1>1, <1>3 DEF FlushFull, AppendSeries, SplitSeries, OpenWindow, HalveWindow, SendChunk,
     FlushLast, BatcherExit, Flush, FlushCancelled, batcherFrame, wvars
<1>4. ASSUME NEW w \in Writers, TakeBatch(w) \/ BatchFailed(w) \/ WriterExit(w) PROVE CountInv'
  BY <1>1, <1>4 DEF TakeBatch, BatchFailed, WriterExit, writerFrame, bvars
<1>5. CASE RecvSeries
  <2> DEFINE m == nTaken + 1
             new == {m} \X (1..NSamples[m])
  <2>1. /\ nTaken' = m /\ acked' = acked /\ nTaken < nSent
        /\ stats' = [stats EXCEPT !.SeriesRead = @ + 1, !.SamplesRead = @ + NSamples[m]]
    BY <1>5 DEF RecvSeries, batcherFrame, wvars
  <2>2. m \in SeriesId /\ NSamples[m] \in Nat
    <3>1. nSent \in 0..NSeries /\ NSeries \in Nat /\ NSamples \in [SeriesId -> Nat]
      BY <1>t, PipelineAssumption DEF TypeOK, PipelineAssumption
    <3>2. m \in SeriesId
      BY <1>t, <2>1, <3>1 DEF SeriesId
    <3> QED
      BY <3>1, <3>2
  <2>3. /\ stats'.SeriesRead = stats.SeriesRead + 1 /\ stats'.SamplesRead = stats.SamplesRead + NSamples[m]
        /\ stats'.BatchesSent = stats.BatchesSent /\ stats'.SamplesSent = stats.SamplesSent
    BY <1>t, <2>1, <2>2 DEF StatsRec
  <2>4. 1..m = 1..nTaken \cup {m}
    BY <1>t
  <2>5. /\ WindowSamples(Window(m, 0, NSamples[m])) = new
        /\ IsFiniteSet(new) /\ Cardinality(new) = NSamples[m]
    BY <2>2, SeriesSamples
  <2>6. ReadSamples' = ReadSamples \cup new
    <3> HIDE DEF m, new
    <3> QED
      BY <2>1, <2>4, <2>5 DEF ReadSamples
  <2>7. ReadSamples \cap new = {}
    <3> SUFFICES ASSUME NEW x \in new, x \in ReadSamples PROVE FALSE
      OBVIOUS
    <3>1. PICK s \in 1..nTaken : x \in WindowSamples(Window(s, 0, NSamples[s]))
      BY DEF ReadSamples
    <3>2. x[1] = s
      BY <3>1 DEF WindowSamples, Window
    <3>3. x[1] = m
      OBVIOUS
    <3> QED
      BY <1>t, <3>1, <3>2, <3>3
  <2>8. IsFiniteSet(ReadSamples)
    BY Countable
  <2>9. Cardinality(ReadSamples') = Cardinality(ReadSamples) + NSamples[m]
    <3> HIDE DEF new
    <3>1. Cardinality(ReadSamples \cup new) = Cardinality(ReadSamples) + Cardinality(new)
      BY <2>5, <2>7, <2>8, DisjointSum
    <3> QED
      BY <2>5, <2>6, <3>1
  <2>10. SamplesOf(acked)' = SamplesOf(acked)
    BY <1>k, <2>1 DEF SamplesOf
  <2> QED
    BY <2>1, <2>3, <2>9, <2>10 DEF CountInv
<1>6. ASSUME NEW w \in Writers, BatchSent(w) PROVE CountInv'
  <2>0. PICK k : k = wb[w]
    OBVIOUS
  <2>1. /\ nTaken' = nTaken /\ acked' = acked \cup {k} /\ batches' = batches
        /\ stats' = [stats EXCEPT !.BatchesSent = @ + 1, !.SamplesSent = @ + SampleCount(batches[k])]
    BY <1>6, <2>0 DEF BatchSent, writerFrame, bvars
  <2>2. k \in 1..Len(batches) /\ k \notin acked
    <3>1. wpc[w] = "send"
      BY <1>6 DEF BatchSent
    <3>2. k \in 0..bTaken /\ k # 0 /\ k \notin acked
      BY <1>t, <2>0, <3>1 DEF TypeOK, CursorInv, HandInv, InHand
    <3> QED
      BY <1>t, <3>2
  <2>3. /\ stats'.SeriesRead = stats.SeriesRead /\ stats'.SamplesRead = stats.SamplesRead
        /\ stats'.BatchesSent = stats.BatchesSent + 1
        /\ stats'.SamplesSent = stats.SamplesSent + SampleCount(batches[k])
    BY <1>t, <2>1 DEF StatsRec
  <2>4. Cardinality(acked') = Cardinality(acked) + 1
    <3>1. IsFiniteSet(1..bTaken)
      BY <1>t, FS_Interval
    <3>2. IsFiniteSet(acked)
      BY <1>t, <3>1, FS_Subset
    <3> QED
      BY <2>1, <2>2, <3>2, FS_AddElement
  <2>5. SamplesOf(acked)' = SamplesOf(acked) \cup BatchSamples(batches[k])
    BY <2>1 DEF SamplesOf
  <2>6. SamplesOf(acked) \cap BatchSamples(batches[k]) = {}
    <3>1. NoSampleTwice
      BY TwiceFromInv DEF IInv
    <3>2. \A i \in acked : BatchSamples(batches[i]) \cap BatchSamples(batches[k]) = {}
      BY <1>t, <2>2, <3>1 DEF NoSampleTwice
    <3> QED
      BY <3>2 DEF SamplesOf
  <2>7. IsFiniteSet(SamplesOf(acked)) /\ IsFiniteSet(BatchSamples(batches[k]))
    <3>1. IsFiniteSet(SamplesOf(acked)) /\ IsFiniteSet(ReadSamples)
      BY <1>t, Countable
    <3>2. BatchSamples(batches[k]) \subseteq ReadSamples
      BY <2>2, SamplesAreRead
    <3> QED
      BY <3>1, <3>2, FS_Subset
  <2>8. Cardinality(SamplesOf(acked)') = Cardinality(SamplesOf(acked)) + SampleCount(batches[k])
    <3>1. Cardinality(SamplesOf(acked) \cup BatchSamples(batches[k]))
            = Cardinality(SamplesOf(acked)) + Cardinality(BatchSamples(batches[k]))
      BY <2>6, <2>7, DisjointSum
    <3> QED
      BY <2>5, <3>1 DEF SampleCount
  <2>9. ReadSamples' = ReadSamples
    BY <2>1 DEF ReadSamples
  <2> QED
    BY <2>1, <2>3, <2>4, <2>8, <2>9 DEF CountInv
<1> QED
  BY <1>2, <1>3, <1>4, <1>5, <1>6 DEF Next, Batcher, Writer

----------------------------------------------------------------------------
(* The theorems.                                                           *)

\* The windows, the writers' hands and the counters, in every reachable state.
THEOREM StatsInvariance == Spec => [](IInv /\ StatsInv)
<1>1. Init => StatsInv
  <2> SUFFICES ASSUME Init PROVE StatsInv
    OBVIOUS
  <2>1. FrontInv /\ ApartInv /\ HandInv
    BY DEF Init, EmptyBatch, FrontInv, ApartInv, HandInv, InHand
  <2>2. ReadSamples = {} /\ SamplesOf(acked) = {}
    BY DEF Init, ReadSamples, SamplesOf
  <2>3. CountInv
    BY <2>2, FS_EmptySet DEF Init, CountInv
  <2> QED
    BY <2>1, <2>3 DEF StatsInv
<1>2. IInv /\ IInv' /\ StatsInv /\ [Next]_vars => StatsInv'
  <2> SUFFICES ASSUME IInv, IInv', StatsInv, [Next]_vars PROVE StatsInv'
    OBVIOUS
  <2>1. FrontInv' /\ ApartInv'
    BY StepApart DEF IInv, StatsInv
  <2>2. HandInv'
    BY StepHand DEF IInv, StatsInv
  <2>3. CountInv'
    BY <2>1, StepCount DEF StatsInv
  <2> QED
    BY <2>1, <2>2, <2>3 DEF StatsInv
<1> QED
  BY <1>1, <1>2, Invariance, PTL DEF Spec

\* Whatever the series, the sample sizes and the budget, no sample is packed
\* into two remote-write requests of one run.
THEOREM NoSampleTwiceHolds == Spec => []NoSampleTwice
<1>1. IInv /\ StatsInv => NoSampleTwice
  BY TwiceFromInv DEF IInv, StatsInv
<1> QED
  BY <1>1, StatsInvariance, PTL

\* The counters Run reports are those of the acknowledged batches, and never
\* more than was read, at every moment and on error returns too.
THEOREM StatsAgreeHolds == Spec => []StatsAgree
<1>1. IInv /\ StatsInv => StatsAgree
  <2> SUFFICES ASSUME IInv, StatsInv PROVE StatsAgree
    OBVIOUS
  <2>1. acked \in SUBSET (1..Len(batches))
    BY DEF IInv, TypeInv, TypeOK
  <2>2. Cardinality(SamplesOf(acked)) <= Cardinality(ReadSamples)
    BY <2>1, Countable DEF StatsInv
  <2> QED
    BY <2>2 DEF StatsAgree, StatsInv, CountInv, IInv, LedgerInv
<1> QED
  BY <1>1, StatsInvariance, PTL

----------------------------------------------------------------------------
(* The byte count.  MapThenSumSet is a recursive function on subsets; what *)
(* it returns is found by looking at a smallest set where a claim fails.   *)

\* The element MapThenSumSet takes next, the recursion it solves over the
\* subsets of S, and the number of bytes it returns.
Pick(s) == CHOOSE x \in s : TRUE

Sums(f, S) ==
  f = [s \in SUBSET S |-> IF s = {} THEN 0 ELSE WindowBytes(Pick(s)) + f[s \ {Pick(s)}]]

Total(S) == MapThenSumSet(WindowBytes, S)

\* Every non-empty set of natural numbers has a least element.
LEMMA LeastNumber ==
  ASSUME NEW T \in SUBSET Nat, T # {}
  PROVE  \E m \in T : \A k \in T : m <= k
<1>1. IsWellFoundedOn(OpToRel(<, Nat), Nat)
  BY NatLessThanWellFounded, Zenon
<1>2. PICK m \in T : \A k \in T : ~(<<k, m>> \in OpToRel(<, Nat))
  BY <1>1, WFMin, Zenon
<1>3. \A k \in T : ~(k < m)
  BY <1>2 DEF OpToRel
<1> QED
  BY <1>3

\* The sum is what the recursion gives at S.
LEMMA TotalDef == \A S : Total(S) = (CHOOSE f : Sums(f, S))[S]
BY Zenon DEF Total, Sums, Pick, MapThenSumSet, MapThenFoldSet

\* Any two solutions of the recursion agree on the finite sets they share.
LEMMA SumsAgree ==
  ASSUME NEW S, NEW T, NEW f, NEW g, Sums(f, S), Sums(g, T), IsFiniteSet(S)
  PROVE  \A s \in SUBSET S : s \in SUBSET T => f[s] = g[s]
<1> DEFINE B == {s \in SUBSET S : s \in SUBSET T /\ f[s] # g[s]}
           C == {Cardinality(s) : s \in B}
<1>1. SUFFICES ASSUME B # {} PROVE FALSE
  OBVIOUS
<1>2. \A s \in SUBSET S : IsFiniteSet(s) /\ Cardinality(s) \in Nat
  BY FS_Subset, FS_CardinalityType
<1>3. PICK m \in C : \A k \in C : m <= k
  <2>1. C \in SUBSET Nat /\ C # {}
    BY <1>1, <1>2
  <2> HIDE DEF C
  <2> QED
    BY <2>1, LeastNumber
<1>4. PICK s \in B : m = Cardinality(s)
  BY <1>3
<1>5. s # {}
  BY <1>4 DEF Sums
<1>6. PICK x : x = Pick(s)
  OBVIOUS
<1>7. x \in s
  BY <1>5, <1>6 DEF Pick
<1>8. f[s] = WindowBytes(x) + f[s \ {x}] /\ g[s] = WindowBytes(x) + g[s \ {x}]
  BY <1>4, <1>5, <1>6, Zenon DEF Sums
<1>9. s \ {x} \in B
  BY <1>4, <1>8
<1>10. Cardinality(s \ {x}) = Cardinality(s) - 1
  BY <1>2, <1>4, <1>7, FS_RemoveElement
<1>11. Cardinality(s \ {x}) \in C
  BY <1>9
<1>12. Cardinality(s) \in Nat
  BY <1>2, <1>4
<1>13. m <= Cardinality(s \ {x})
  BY <1>3, <1>11, Zenon
<1> HIDE DEF C
<1> QED
  BY <1>4, <1>10, <1>12, <1>13

\* At a finite subset, a solution over a larger set gives the sum.
LEMMA SumsGiveTotal ==
  ASSUME NEW S, NEW f, Sums(f, S), IsFiniteSet(S), NEW s \in SUBSET S, \E g : Sums(g, s)
  PROVE  f[s] = Total(s)
<1>1. PICK g : g = CHOOSE h : Sums(h, s)
  OBVIOUS
<1>2. Sums(g, s)
  BY <1>1, Zenon
<1>3. f[s] = g[s]
  BY <1>2, SumsAgree
<1> QED
  BY <1>1, <1>3, TotalDef, Zenon

\* Over a finite set the recursion has a solution: a set with none, of least
\* cardinality, would have one, put together from those of its subsets.
LEMMA SumsExist ==
  ASSUME NEW S, IsFiniteSet(S)
  PROVE  \E f : Sums(f, S)
<1> DEFINE C == {n \in Nat : \E R : IsFiniteSet(R) /\ Cardinality(R) = n /\ ~\E f : Sums(f, R)}
<1>1. SUFFICES ASSUME C # {} PROVE FALSE
  BY FS_CardinalityType, Zenon
<1>2. PICK m \in C : \A k \in C : m <= k
  <2>1. C \in SUBSET Nat
    OBVIOUS
  <2> HIDE DEF C
  <2> QED
    BY <1>1, <2>1, LeastNumber
<1>3. PICK R : IsFiniteSet(R) /\ Cardinality(R) = m /\ ~\E f : Sums(f, R)
  BY <1>2
<1>4. ASSUME NEW t \in SUBSET R, t # R
      PROVE  IsFiniteSet(t) /\ \E g : Sums(g, t)
  <2>1. IsFiniteSet(t) /\ Cardinality(t) <= m /\ Cardinality(t) # m
    BY <1>3, <1>4, FS_Subset
  <2>2. Cardinality(t) \in Nat /\ m \in Nat
    BY <2>1, FS_CardinalityType
  <2>3. Cardinality(t) \notin C
    <3>1. ~(m <= Cardinality(t))
      BY <2>1, <2>2
    <3> QED
      BY <1>2, <3>1, Zenon
  <2> QED
    BY <2>1, <2>2, <2>3, Zenon
<1> DEFINE F == [s \in SUBSET R |-> IF s = {} THEN 0 ELSE WindowBytes(Pick(s)) + Total(s \ {Pick(s)})]
<1>5. ASSUME NEW t \in SUBSET R, t # R
      PROVE  Total(t) = F[t]
  <2>1. PICK g : Sums(g, t)
    BY <1>4, <1>5, Zenon
  <2>2. Total(t) = g[t]
    BY <1>4, <1>5, <2>1, SumsGiveTotal, Zenon
  <2>3. CASE t = {}
    <3>1. g[t] = 0
      BY <2>1, <2>3, Zenon DEF Sums
    <3> QED
      BY <2>2, <2>3, <3>1, Zenon
  <2>4. CASE t # {}
    <3>0. PICK x : x = Pick(t)
      OBVIOUS
    <3>1. x \in t
      BY <2>4, <3>0 DEF Pick
    <3>2. t \ {x} \in SUBSET R /\ t \ {x} # R /\ t \ {x} \in SUBSET t
      BY <3>1
    <3>3. \E h : Sums(h, t \ {x})
      BY <1>4, <3>2, Zenon
    <3>4. g[t \ {x}] = Total(t \ {x})
      BY <1>4, <1>5, <2>1, <3>2, <3>3, SumsGiveTotal, Zenon
    <3>5. g[t] = WindowBytes(x) + g[t \ {x}]
      <4>1. t \in SUBSET t
        OBVIOUS
      <4> QED
        BY <2>1, <2>4, <3>0, <4>1, Zenon DEF Sums
    <3>6. F[t] = WindowBytes(x) + Total(t \ {x})
      BY <2>4, <3>0, Zenon
    <3> QED
      BY <2>2, <3>4, <3>5, <3>6, Zenon
  <2> QED
    BY <2>3, <2>4
<1>6. Sums(F, R)
  <2>1. ASSUME NEW s \in SUBSET R, s # {}
        PROVE  Total(s \ {Pick(s)}) = F[s \ {Pick(s)}]
    <3>0. PICK x : x = Pick(s)
      OBVIOUS
    <3>1. x \in s
      BY <2>1, <3>0 DEF Pick
    <3>2. s \ {x} \in SUBSET R /\ s \ {x} # R
      BY <3>1
    <3> HIDE DEF F
    <3> QED
      BY <1>5, <3>0, <3>2, Zenon
  <2>2. PICK G : G = F
    OBVIOUS
  <2>3. G = [s \in SUBSET R |-> IF s = {} THEN 0 ELSE WindowBytes(Pick(s)) + G[s \ {Pick(s)}]]
    BY <2>1, <2>2, Zenon
  <2> QED
    BY <2>2, <2>3, Zenon DEF Sums
<1> QED
  BY <1>3, <1>6, Zenon

\* One step of the recursion.
LEMMA TotalUnfold ==
  ASSUME NEW S, IsFiniteSet(S)
  PROVE  /\ S = {} => Total(S) = 0
         /\ S # {} => Total(S) = WindowBytes(Pick(S)) + Total(S \ {Pick(S)})
<1>1. PICK f : Sums(f, S)
  BY SumsExist, Zenon
<1>2. ASSUME NEW s \in SUBSET S PROVE f[s] = Total(s)
  <2>1. IsFiniteSet(s)
    BY FS_Subset, Zenon
  <2>2. \E g : Sums(g, s)
    BY <2>1, SumsExist, Zenon
  <2> QED
    BY <1>1, <2>2, SumsGiveTotal, Zenon
<1>3. S \in SUBSET S /\ S \ {Pick(S)} \in SUBSET S
  OBVIOUS
<1>4. f[S] = IF S = {} THEN 0 ELSE WindowBytes(Pick(S)) + f[S \ {Pick(S)}]
  BY <1>1, <1>3, Zenon DEF Sums
<1> QED
  BY <1>2, <1>3, <1>4, Zenon

Sized(S) == IsFiniteSet(S) /\ \A x \in S : WindowBytes(x) \in Nat

\* The windows of a set can be summed in any order: taking out any element x
\* takes off the bytes of x.
LEMMA TotalRemove ==
  ASSUME NEW S, Sized(S)
  PROVE  /\ Total(S) \in Nat
         /\ \A x \in S : Total(S) = WindowBytes(x) + Total(S \ {x})
<1> DEFINE Good(R) == Total(R) \in Nat /\ \A x \in R : Total(R) = WindowBytes(x) + Total(R \ {x})
           C == {n \in Nat : \E R : Sized(R) /\ Cardinality(R) = n /\ ~Good(R)}
<1>1. SUFFICES ASSUME C # {} PROVE FALSE
  <2>1. Cardinality(S) \in Nat
    BY FS_CardinalityType DEF Sized
  <2> QED
    BY <2>1, Zenon
<1>2. PICK m \in C : \A k \in C : m <= k
  <2>1. C \in SUBSET Nat
    OBVIOUS
  <2> HIDE DEF C
  <2> QED
    BY <1>1, <2>1, LeastNumber
<1>3. PICK R : Sized(R) /\ Cardinality(R) = m /\ ~Good(R)
  BY <1>2, Zenon
<1>4. ASSUME NEW t \in SUBSET R, t # R
      PROVE  Sized(t) /\ Good(t)
  <2>1. IsFiniteSet(t) /\ Cardinality(t) <= m /\ Cardinality(t) # m
    BY <1>3, <1>4, FS_Subset DEF Sized
  <2>2. Cardinality(t) \in Nat /\ m \in Nat
    BY <2>1, FS_CardinalityType
  <2>3. Sized(t)
    BY <1>3, <2>1 DEF Sized
  <2>4. Cardinality(t) \notin C
    <3>1. ~(m <= Cardinality(t))
      BY <2>1, <2>2
    <3> HIDE DEF C
    <3> QED
      BY <1>2, <3>1, Zenon
  <2> HIDE DEF Good
  <2> QED
    BY <2>2, <2>3, <2>4, Zenon
<1>5. CASE R = {}
  <2>1. Total(R) = 0
    BY <1>3, <1>5, TotalUnfold, Zenon DEF Sized
  <2> QED
    BY <1>3, <1>5, <2>1
<1>6. CASE R # {}
  <2>0. PICK y : y = Pick(R)
    OBVIOUS
  <2>1. y \in R
    BY <1>6, <2>0 DEF Pick
  <2>2. Total(R) = WindowBytes(y) + Total(R \ {y})
    BY <1>3, <1>6, <2>0, TotalUnfold, Zenon DEF Sized
  <2>3. ASSUME NEW x \in R PROVE WindowBytes(x) \in Nat /\ R \ {x} \in SUBSET R /\ R \ {x} # R
    BY <1>3 DEF Sized
  <2>4. ASSUME NEW x \in R, x # y
        PROVE  Total(R) = WindowBytes(x) + Total(R \ {x})
    <3>1. x \in R \ {y} /\ y \in R \ {x} /\ (R \ {y}) \ {x} = (R \ {x}) \ {y}
      BY <2>1, <2>4
    <3>2. PICK z : z = (R \ {y}) \ {x}
      OBVIOUS
    <3>3. Total(R \ {y}) = WindowBytes(x) + Total(z)
      BY <1>4, <2>1, <2>3, <3>1, <3>2, Zenon
    <3>4. Total(R \ {x}) = WindowBytes(y) + Total(z)
      <4>1. z = (R \ {x}) \ {y}
        BY <3>1, <3>2
      <4>2. \A v \in R \ {x} : Total(R \ {x}) = WindowBytes(v) + Total((R \ {x}) \ {v})
        BY <1>4, <2>3, Zenon
      <4> QED
        BY <3>1, <4>1, <4>2, Zenon
    <3>5. WindowBytes(x) \in Nat /\ WindowBytes(y) \in Nat
      BY <2>1, <2>3
    <3>6. Total(z) \in Nat
      <4>1. z \in SUBSET R /\ z # R
        BY <3>2
      <4> QED
        BY <1>4, <4>1, Zenon
    <3> QED
      BY <2>2, <3>3, <3>4, <3>5, <3>6
  <2>5. Total(R) \in Nat
    <3>1. WindowBytes(y) \in Nat /\ Total(R \ {y}) \in Nat
      BY <1>4, <2>1, <2>3, Zenon
    <3> QED
      BY <2>2, <3>1
  <2> QED
    BY <1>3, <2>2, <2>4, <2>5, Zenon
<1> QED
  BY <1>5, <1>6

\* Adding a window adds its bytes.
LEMMA TotalAdd ==
  ASSUME NEW S, Sized(S), NEW x, x \notin S, WindowBytes(x) \in Nat
  PROVE  Total(S \cup {x}) = Total(S) + WindowBytes(x)
<1>1. Sized(S \cup {x})
  BY FS_AddElement DEF Sized
<1>2. (S \cup {x}) \ {x} = S
  OBVIOUS
<1>3. Total(S \cup {x}) = WindowBytes(x) + Total(S)
  <2>1. \A v \in S \cup {x} : Total(S \cup {x}) = WindowBytes(v) + Total((S \cup {x}) \ {v})
    BY <1>1, TotalRemove, Zenon
  <2> QED
    BY <1>2, <2>1
<1>4. Total(S) \in Nat
  BY TotalRemove, Zenon
<1> QED
  BY <1>3, <1>4

\* An empty batch has no bytes, and a batch of one window has those of it.
LEMMA TotalSmall ==
  /\ Total({}) = 0
  /\ \A x : WindowBytes(x) \in Nat => Total({x}) = WindowBytes(x)
<1>1. Sized({}) /\ IsFiniteSet({})
  BY FS_EmptySet DEF Sized
<1>2. Total({}) = 0
  BY <1>1, TotalUnfold, Zenon
<1>3. ASSUME NEW x, WindowBytes(x) \in Nat PROVE Total({x}) = WindowBytes(x)
  <2>1. {} \cup {x} = {x} /\ x \notin {}
    OBVIOUS
  <2>2. Total({} \cup {x}) = Total({}) + WindowBytes(x)
    BY <1>1, <1>3, <2>1, TotalAdd, Zenon
  <2> QED
    BY <1>2, <1>3, <2>1, <2>2
<1> QED
  BY <1>2, <1>3

\* The windows of a batch lie inside their series, so they have a size.
LEMMA BatchSized ==
  ASSUME NEW b \in Batch, IsFiniteSet(b.items), \A it \in b.items : WindowOK(it)
  PROVE  Sized(b.items)
<1> SUFFICES ASSUME NEW it \in b.items PROVE WindowBytes(it) \in Nat
  BY DEF Sized
<1>1. it.s \in SeriesId /\ it.lo \in Nat /\ it.hi \in Nat /\ it.lo < it.hi /\ it.hi <= NSamples[it.s]
  BY DEF Batch, WindowOK
<1>2. NSamples[it.s] \in Nat
  BY <1>1, PipelineAssumption DEF PipelineAssumption
<1>3. it.lo \in 0..NSamples[it.s] /\ it.hi \in 0..NSamples[it.s] /\ it.lo <= it.hi
  BY <1>1, <1>2
<1> QED
  BY <1>1, <1>3, SizeType DEF WindowBytes

Real(b) == b.bytes = Total(b.items)

RealInv == Real(batch) /\ \A i \in 1..Len(batches) : Real(batches[i])

\* Every step keeps the byte counts of the open and the flushed batches true.
LEMMA StepReal ==
  ASSUME IInv, FrontInv, RealInv, [Next]_vars
  PROVE  RealInv'
<1>t. /\ TypeOK /\ CursorInv /\ FiniteInv /\ BudgetInv /\ nTaken \in Nat /\ batch \in Batch
      /\ batches \in Seq(Batch) /\ offset \in Nat /\ end \in Nat
      /\ NSeries \in Nat /\ NSamples \in [SeriesId -> Nat]
  BY PipelineAssumption DEF IInv, TypeInv, TypeOK, PipelineAssumption
<1>1. CASE UNCHANGED <<batch, batches>>
  BY <1>1 DEF RealInv
<1>2. CASE \/ RejectNilProvider \/ Start \/ CancelParent \/ WaitReturn \/ Returned \/ UNCHANGED vars
           \/ Reader \/ \E w \in Writers : Writer(w)
  <2>1. UNCHANGED <<bvars, batches>>
    BY <1>2 DEF RejectNilProvider, Start, CancelParent, WaitReturn, Returned, vars,
       Reader, OpenQuerier, NextSeries, SendSeries, ReaderExit, readerFrame,
       Writer, TakeBatch, BatchSent, BatchFailed, WriterExit, writerFrame
  <2> QED
    BY <1>1, <2>1 DEF bvars
<1>3. CASE RecvSeries \/ SplitSeries \/ OpenWindow \/ HalveWindow \/ BatcherExit
  BY <1>1, <1>3 DEF RecvSeries, SplitSeries, OpenWindow, HalveWindow, BatcherExit
<1>f. ASSUME NEW b \in Batch, Real(b), batches' = Append(batches, b)
      PROVE  \A i \in 1..Len(batches') : Real(batches'[i])
  <2>1. \A i \in 1..Len(batches') :
          \/ i \in 1..Len(batches) /\ batches'[i] = batches[i]
          \/ i = Len(batches) + 1 /\ batches'[i] = b
    BY <1>t, <1>f, LogAfterFlush
  <2> QED
    BY <1>f, <2>1, Zenon DEF RealInv
<1>4. CASE FlushFull \/ FlushLast
  <2>1. \/ UNCHANGED <<batch, batches>>
        \/ batches' = Append(batches, batch) /\ batch' = EmptyBatch
    BY <1>4 DEF FlushFull, FlushLast, Flush, FlushCancelled
  <2>2. CASE batches' = Append(batches, batch) /\ batch' = EmptyBatch
    <3>1. Real(EmptyBatch)
      BY TotalSmall DEF Real, EmptyBatch
    <3> QED
      BY <1>f, <1>t, <2>2, <3>1 DEF RealInv
  <2> QED
    BY <1>1, <2>1, <2>2
<1>5. CASE AppendSeries
  <2>0. PICK it : it = Window(nTaken, 0, NSamples[nTaken])
    OBVIOUS
  <2>1. /\ nTaken \in SeriesId /\ NSamples[nTaken] \in Nat
    BY <1>t, <1>5 DEF AppendSeries, CursorInv, TypeOK, SeriesId
  <2>2. WindowBytes(it) = SeriesBytes /\ SeriesBytes \in Nat
    BY <2>0, <2>1, SizeType DEF SeriesBytes, WindowBytes, Window
  <2>3. it \notin batch.items
    <3>1. it.s = nTaken /\ bpc = "place"
      BY <1>5, <2>0 DEF AppendSeries, Window
    <3> QED
      BY <1>t, <3>1 DEF FrontInv, Behind
  <2>4. Sized(batch.items)
    BY <1>t, BatchSized DEF FiniteInv, BudgetInv
  <2>5. Total(batch.items \cup {it}) = Total(batch.items) + WindowBytes(it)
    BY <2>2, <2>3, <2>4, TotalAdd
  <2>6. batch'.items = batch.items \cup {it} /\ batch'.bytes = batch.bytes + SeriesBytes /\ batches' = batches
    BY <1>5, <2>0 DEF AppendSeries
  <2> QED
    BY <2>2, <2>5, <2>6 DEF RealInv, Real
<1>6. CASE SendChunk
  <2>0. PICK b : b = [items |-> {Window(nTaken, offset, end)}, bytes |-> Size(nTaken, offset, end)]
    OBVIOUS
  <2>1. UNCHANGED <<batch, batches>> \/ (batches' = Append(batches, b) /\ UNCHANGED batch)
    BY <1>6, <2>0 DEF SendChunk, Flush, FlushCancelled
  <2>2. CASE batches' = Append(batches, b) /\ UNCHANGED batch
    <3>1. /\ nTaken \in SeriesId /\ NSamples[nTaken] \in Nat /\ offset < end /\ end <= NSamples[nTaken]
      BY <1>t, <1>6 DEF SendChunk, CursorInv, TypeOK, SeriesId
    <3>2. Size(nTaken, offset, end) \in Nat
      BY <1>t, <3>1, SizeType
    <3>3. b \in Batch
      BY <1>t, <2>0, <3>1, <3>2 DEF Batch, Window
    <3>4. WindowBytes(Window(nTaken, offset, end)) = Size(nTaken, offset, end)
      BY DEF WindowBytes, Window
    <3>5. Real(b)
      BY <2>0, <3>2, <3>4, TotalSmall DEF Real
    <3> QED
      BY <1>f, <2>2, <3>3, <3>5 DEF RealInv
  <2> QED
    BY <1>1, <2>1, <2>2
<1> QED
  BY <1>2, <1>3, <1>4, <1>5, <1>6 DEF Next, Batcher

\* Whatever is packed, flushed, split and halved, the byte count the batcher
\* compares with MaxBatchBytes is the size of what is in the batch.
THEOREM ByteCountIsRealHolds == Spec => []ByteCountIsReal
<1>1. Init => RealInv
  BY TotalSmall DEF Init, EmptyBatch, RealInv, Real
<1>2. IInv /\ StatsInv /\ RealInv /\ [Next]_vars => RealInv'
  BY StepReal DEF StatsInv
<1>3. RealInv => ByteCountIsReal
  BY DEF RealInv, Real, Total, ByteCountIsReal
<1> QED
  BY <1>1, <1>2, <1>3, StatsInvariance, PTL DEF Spec
============================================================================
