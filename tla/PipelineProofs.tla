-------------------------- MODULE PipelineProofs ---------------------------
(***************************************************************************)
(* Proofs about Pipeline for every number of series, samples, writers and  *)
(* every byte budget.                                                      *)
(***************************************************************************)
EXTENDS Pipeline, TLAPS, FiniteSetTheorems

\* Where the cursors of the reader and the batcher stand while they work on a
\* series, and that a writer in mid-send holds a batch.
CursorInv ==
  /\ rpc = "send" => nSent < NSeries
  /\ bpc \in {"place", "window", "chunk"} => nTaken # 0 /\ NSamples[nTaken] > 0
  /\ bpc = "window" => offset < NSamples[nTaken]
  /\ bpc = "chunk" => offset < end /\ end <= NSamples[nTaken]
  /\ \A w \in Writers : wpc[w] \in {"send", "failed"} => wb[w] # 0

\* Batches are finite, so that their samples can be counted.
FiniteInv ==
  /\ IsFiniteSet(batch.items)
  /\ \A i \in 1..Len(batches) : IsFiniteSet(batches[i].items)

StatsRec == [SeriesRead : Nat, SamplesRead : Nat, BatchesSent : Nat, SamplesSent : Nat]

TypeInv == TypeOK /\ CursorInv /\ FiniteInv

----------------------------------------------------------------------------
(* The configuration.                                                      *)

\* The defaults of Run give a positive byte budget and at least one writer.
LEMMA ConfigType ==
  /\ MaxBatchBytes \in Nat /\ MaxBatchBytes > 0
  /\ WriterConcurrency \in Nat /\ WriterConcurrency > 0
  /\ BatchBuf \in Nat /\ BatchBuf > 0
BY PipelineAssumption DEF PipelineAssumption, MaxBatchBytes, WriterConcurrency, BatchBuf

\* TimeSeries.Size() of a window inside its series is a natural number.
LEMMA SizeType ==
  ASSUME NEW s \in SeriesId, NEW lo \in 0..NSamples[s], NEW hi \in 0..NSamples[s], lo <= hi
  PROVE  Size(s, lo, hi) \in Nat
<1>1. /\ NSamples[s] \in Nat /\ LabelBytes[s] \in Nat
      /\ CumBytes[s][lo] \in Nat /\ CumBytes[s][hi] \in Nat
  BY PipelineAssumption DEF PipelineAssumption
<1>2. CumBytes[s][lo] <= CumBytes[s][hi]
  <2>1. CASE lo = hi
    BY <1>1, <2>1
  <2>2. CASE lo < hi
    BY <1>1, <2>2, PipelineAssumption DEF PipelineAssumption
  <2> QED
    BY <1>1, <2>1, <2>2
<1> QED
  BY <1>1, <1>2 DEF Size

\* The first estimate of a window is at least one sample.
LEMMA ChunkType ==
  ASSUME NEW s \in SeriesId, NSamples[s] > 0
  PROVE  SamplesPerChunk(s) \in Nat /\ SamplesPerChunk(s) > 0
<1> DEFINE sz == Size(s, 0, NSamples[s])
<1>1. NSamples[s] \in Nat
  BY PipelineAssumption DEF PipelineAssumption
<1>2. sz \in Nat
  BY <1>1, SizeType
<1>3. sz \div NSamples[s] \in Int
  BY <1>1, <1>2
<1>4. AvgSampleBytes(s) \in Nat /\ AvgSampleBytes(s) > 0
  BY <1>3 DEF AvgSampleBytes
<1>5. MaxBatchBytes \div AvgSampleBytes(s) \in Int
  BY <1>4, ConfigType
<1> QED
  BY <1>5 DEF SamplesPerChunk

\* Updating one counter of PipelineStats keeps its type.
LEMMA StatsType ==
  ASSUME NEW r \in StatsRec, NEW n \in Nat
  PROVE  /\ [r EXCEPT !.SeriesRead = @ + 1, !.SamplesRead = @ + n] \in StatsRec
         /\ [r EXCEPT !.BatchesSent = @ + 1, !.SamplesSent = @ + n] \in StatsRec
<1>1. /\ r.SeriesRead + 1 \in Nat /\ r.SamplesRead + n \in Nat
      /\ r.BatchesSent + 1 \in Nat /\ r.SamplesSent + n \in Nat
  BY DEF StatsRec
<1> QED
  BY <1>1, Zenon DEF StatsRec

\* A batch of finitely many windows has a countable number of samples.
LEMMA SampleCountType ==
  ASSUME NEW b \in Batch, IsFiniteSet(b.items)
  PROVE  SampleCount(b) \in Nat
<1> DEFINE S == {WindowSamples(it) : it \in b.items}
<1>1. IsFiniteSet(S)
  <2> DEFINE f == [it \in b.items |-> WindowSamples(it)]
  <2>1. f \in Surjection(b.items, S)
    BY DEF Surjection
  <2> QED
    BY <2>1, FS_Surjection DEF ExistsSurjection
<1>2. ASSUME NEW it \in b.items
      PROVE  IsFiniteSet(WindowSamples(it))
  <2>1. it.s \in SeriesId /\ it.lo \in Nat /\ it.hi \in Nat
    BY DEF Batch
  <2>2. IsFiniteSet({it.s})
    BY FS_Singleton
  <2>3. IsFiniteSet((it.lo + 1)..it.hi)
    <3>1. it.lo + 1 \in Int /\ it.hi \in Int
      BY <2>1
    <3> QED
      BY <3>1, FS_Interval
  <2> QED
    BY <2>2, <2>3, FS_Product DEF WindowSamples
<1>3. IsFiniteSet(UNION S)
  BY <1>1, <1>2, FS_UNION
<1> QED
  BY <1>3, FS_CardinalityType DEF SampleCount, BatchSamples
----------------------------------------------------------------------------
(* Type correctness.                                                       *)

\* What flushing one batch does to the log of batches.
LEMMA AppendBatch ==
  ASSUME NEW q \in Seq(Batch), NEW b \in Batch
  PROVE  /\ Append(q, b) \in Seq(Batch)
         /\ Len(q) \in Nat /\ Len(Append(q, b)) = Len(q) + 1
         /\ \A i \in 1..Len(q) : Append(q, b)[i] = q[i] /\ q[i] \in Batch
         /\ Append(q, b)[Len(q) + 1] = b
OBVIOUS

\* Run starts with every cursor at zero and every channel empty.
LEMMA InitTypeInv == Init => TypeInv
<1> SUFFICES ASSUME Init PROVE TypeInv
  OBVIOUS
<1>1. TypeOK
  <2>1. batch \in Batch /\ batches \in Seq(Batch) /\ Len(batches) = 0
    BY DEF Init, Batch, EmptyBatch
  <2>2. nSent \in 0..NSeries /\ nTaken \in 0..nSent /\ bTaken \in 0..Len(batches)
    BY <2>1, PipelineAssumption DEF Init, PipelineAssumption
  <2>3. /\ wpc \in [Writers -> {"recv", "send", "failed", "done"}]
        /\ wb \in [Writers -> 0..bTaken]
    BY DEF Init
  <2>4. stats \in [SeriesRead : Nat, SamplesRead : Nat, BatchesSent : Nat, SamplesSent : Nat]
    BY DEF Init
  <2> QED
    BY <2>1, <2>2, <2>3, <2>4 DEF Init, TypeOK
<1>2. CursorInv
  BY DEF Init, CursorInv
<1>3. FiniteInv
  BY FS_EmptySet DEF Init, FiniteInv, EmptyBatch
<1> QED
  BY <1>1, <1>2, <1>3 DEF TypeInv

\* Every step of every goroutine keeps the types and the cursors in range.
LEMMA StepTypeInv == TypeInv /\ [Next]_vars => TypeInv'
<1> SUFFICES ASSUME TypeInv, [Next]_vars PROVE TypeInv'
  OBVIOUS
<1>t. TypeOK /\ CursorInv /\ FiniteInv
  BY DEF TypeInv
<1>a. /\ NSeries \in Nat /\ NSamples \in [SeriesId -> Nat]
      /\ nTaken \in Nat /\ nSent \in Nat /\ bTaken \in Nat /\ Len(batches) \in Nat
  BY <1>t, PipelineAssumption DEF PipelineAssumption, TypeOK
<1>e. EmptyBatch \in Batch
  BY DEF EmptyBatch, Batch
<1>f. ASSUME NEW b \in Batch, Flush(b), batcherFrame, batch' \in Batch, nTaken' = nTaken,
             bpc' \in {"recv", "place", "window", "chunk", "closed", "done"},
             offset' \in Nat, end' \in Nat
      PROVE  TypeOK'
  <2>1. batches \in Seq(Batch) /\ bTaken \in 0..Len(batches)
    BY <1>t DEF TypeOK
  <2>2. batches' = Append(batches, b) /\ UNCHANGED <<berr, gctx, gerr, stats>>
    BY <1>f DEF Flush
  <2>3. batches' \in Seq(Batch) /\ Len(batches') = Len(batches) + 1
    BY <2>1, <2>2, AppendBatch
  <2>4. bTaken \in 0..Len(batches')
    BY <1>a, <2>1, <2>3
  <2>5. UNCHANGED <<phase, rpc, rerr, nSent, wpc, wb, bTaken, acked, accepted>>
    BY <1>f DEF batcherFrame, rvars, wvars
  <2> QED
    BY <1>t, <1>f, <2>2, <2>3, <2>4, <2>5 DEF TypeOK
<1>1. CASE RejectNilProvider \/ Start \/ CancelParent \/ WaitReturn \/ Returned
  <2>1. /\ UNCHANGED <<rvars, bvars, batches, wvars, stats>>
        /\ phase' \in {"init", "running", "returned"} /\ gctx' \in BOOLEAN /\ gerr' \in BOOLEAN
    BY <1>t, <1>1 DEF RejectNilProvider, Start, CancelParent, WaitReturn, Returned, vars, TypeOK
  <2> QED
    BY <1>t, <2>1 DEF TypeInv, TypeOK, CursorInv, FiniteInv, rvars, bvars, wvars
<1>2. CASE Reader
  <2>1. TypeOK'
    <3>1. /\ rpc' \in {"query", "next", "send", "closed", "done"}
          /\ rerr' \in BOOLEAN /\ gctx' \in BOOLEAN /\ gerr' \in BOOLEAN
      BY <1>t, <1>2 DEF Reader, OpenQuerier, NextSeries, SendSeries, ReaderExit, ReaderReturns, TypeOK
    <3>2. nSent' \in 0..NSeries /\ nTaken \in 0..nSent'
      <4>1. nSent \in 0..NSeries /\ nTaken \in 0..nSent
        BY <1>t DEF TypeOK
      <4>2. nSent' = nSent \/ (rpc = "send" /\ nSent' = nSent + 1)
        BY <1>2 DEF Reader, OpenQuerier, NextSeries, SendSeries, ReaderExit
      <4>3. rpc = "send" => nSent < NSeries
        BY <1>t DEF CursorInv
      <4> QED
        BY <1>a, <4>1, <4>2, <4>3
    <3>3. readerFrame
      BY <1>2 DEF Reader, OpenQuerier, NextSeries, SendSeries, ReaderExit
    <3> QED
      BY <1>t, <3>1, <3>2, <3>3 DEF readerFrame, TypeOK, bvars, wvars
  <2>2. CursorInv' /\ FiniteInv'
    BY <1>t, <1>a, <1>2 DEF TypeOK, Reader, OpenQuerier, NextSeries, SendSeries, ReaderExit, ReaderReturns,
       readerFrame, CursorInv, FiniteInv, bvars, wvars
  <2> QED
    BY <2>1, <2>2 DEF TypeInv
<1>3. CASE RecvSeries
  <2>1. nTaken + 1 \in SeriesId /\ NSamples[nTaken + 1] \in Nat
    BY <1>t, <1>a, <1>3 DEF RecvSeries, TypeOK, SeriesId
  <2>2. TypeOK'
    <3>1. stats' \in [SeriesRead : Nat, SamplesRead : Nat, BatchesSent : Nat, SamplesSent : Nat]
      <4>1. stats \in StatsRec
        BY <1>t DEF TypeOK, StatsRec
      <4>2. stats' = [stats EXCEPT !.SeriesRead = @ + 1, !.SamplesRead = @ + NSamples[nTaken + 1]]
        BY <1>3 DEF RecvSeries
      <4> QED
        BY <4>1, <4>2, <2>1, StatsType DEF StatsRec
    <3>2. nTaken' \in 0..nSent /\ bpc' \in {"recv", "place"}
      BY <1>t, <1>a, <1>3 DEF RecvSeries, TypeOK
    <3> QED
      BY <1>t, <1>3, <3>1, <3>2 DEF RecvSeries, batcherFrame, TypeOK, rvars, wvars
  <2>3. CursorInv' /\ FiniteInv'
    BY <1>t, <1>a, <1>3, <2>1 DEF RecvSeries, batcherFrame, CursorInv, FiniteInv, rvars, wvars
  <2> QED
    BY <2>2, <2>3 DEF TypeInv
<1>4. CASE FlushFull
  <2> USE DEF EmptyBatch
  <2>1. CASE FlushCancelled /\ batcherFrame
    BY <1>t, <1>4, <2>1 DEF FlushCancelled, batcherFrame, TypeInv, TypeOK, CursorInv, FiniteInv, rvars, wvars
  <2>2. CASE /\ Flush(batch) /\ batch' = EmptyBatch
             /\ UNCHANGED <<bpc, nTaken, offset, end>> /\ batcherFrame
    <3>1. TypeOK'
      <4>1. /\ batch \in Batch /\ offset \in Nat /\ end \in Nat
            /\ bpc \in {"recv", "place", "window", "chunk", "closed", "done"}
        BY <1>t DEF TypeOK
      <4> QED
        BY <1>e, <1>f, <2>2, <4>1
    <3>2. CursorInv'
      BY <1>t, <2>2 DEF Flush, batcherFrame, CursorInv, rvars, wvars
    <3>3. FiniteInv'
      BY <1>t, <1>a, <2>2, AppendBatch, FS_EmptySet DEF Flush, TypeOK, FiniteInv
    <3> QED
      BY <3>1, <3>2, <3>3 DEF TypeInv
  <2> QED
    BY <1>4, <2>1, <2>2 DEF FlushFull
<1>5. CASE AppendSeries
  <2>1. nTaken \in SeriesId /\ SeriesBytes \in Nat /\ NSamples[nTaken] \in Nat
    <3>1. nTaken \in SeriesId /\ NSamples[nTaken] \in Nat
      BY <1>t, <1>a, <1>5 DEF AppendSeries, CursorInv, TypeOK, SeriesId
    <3> QED
      BY <3>1, SizeType DEF SeriesBytes
  <2>2. batch' \in Batch
    BY <1>t, <1>5, <2>1 DEF AppendSeries, TypeOK, Batch, Window
  <2>3. IsFiniteSet(batch'.items)
    BY <1>t, <1>5, FS_AddElement DEF AppendSeries, FiniteInv
  <2>4. TypeOK'
    BY <1>t, <1>5, <2>2 DEF AppendSeries, batcherFrame, TypeOK, rvars, wvars
  <2>5. CursorInv' /\ FiniteInv'
    BY <1>t, <1>5, <2>3 DEF AppendSeries, batcherFrame, CursorInv, FiniteInv, rvars, wvars
  <2> QED
    BY <2>4, <2>5 DEF TypeInv
<1>6. CASE SplitSeries \/ OpenWindow \/ HalveWindow
  <2>1. nTaken \in SeriesId /\ NSamples[nTaken] \in Nat /\ NSamples[nTaken] > 0
    BY <1>t, <1>a, <1>6 DEF SplitSeries, OpenWindow, HalveWindow, CursorInv, TypeOK, SeriesId
  <2>2. SamplesPerChunk(nTaken) \in Nat /\ SamplesPerChunk(nTaken) > 0
    BY <2>1, ChunkType
  <2>3. TypeOK' /\ CursorInv'
    <3>1. CASE SplitSeries
      BY <1>t, <1>a, <3>1, <2>1 DEF SplitSeries, batcherFrame, TypeOK, CursorInv, rvars, wvars
    <3>2. CASE OpenWindow
      <4>1. offset \in Nat /\ offset < NSamples[nTaken]
        BY <1>t, <3>2 DEF OpenWindow, TypeOK, CursorInv
      <4>2. end' \in Nat /\ offset < end' /\ end' <= NSamples[nTaken]
        BY <2>1, <2>2, <3>2, <4>1 DEF OpenWindow
      <4>3. TypeOK'
        BY <1>t, <3>2, <4>2 DEF OpenWindow, batcherFrame, TypeOK, rvars, wvars
      <4>4. CursorInv'
        BY <1>t, <2>1, <3>2, <4>2 DEF OpenWindow, batcherFrame, CursorInv, rvars, wvars
      <4> QED
        BY <4>3, <4>4
    <3>3. CASE HalveWindow
      <4>1. /\ end - offset > 1 /\ offset \in Nat /\ end \in Nat /\ end <= NSamples[nTaken]
            /\ end' = offset + (end - offset) \div 2
        BY <1>t, <3>3 DEF HalveWindow, WindowTooBig, TypeOK, CursorInv
      <4>2. end' \in Nat /\ offset < end' /\ end' <= NSamples[nTaken]
        BY <4>1, <2>1
      <4> QED
        BY <1>t, <1>a, <3>3, <4>2 DEF HalveWindow, batcherFrame, TypeOK, CursorInv, rvars, wvars
    <3> QED
      BY <1>6, <3>1, <3>2, <3>3
  <2>4. FiniteInv'
    BY <1>t, <1>6 DEF SplitSeries, OpenWindow, HalveWindow, FiniteInv
  <2> QED
    BY <2>3, <2>4 DEF TypeInv
<1>7. CASE SendChunk
  <2> DEFINE b == [items |-> {Window(nTaken, offset, end)}, bytes |-> Size(nTaken, offset, end)]
  <2>1. CASE FlushCancelled /\ batcherFrame
    BY <1>t, <1>7, <2>1 DEF FlushCancelled, batcherFrame, TypeInv, TypeOK, CursorInv, FiniteInv, rvars, wvars
  <2>2. CASE /\ Flush(b) /\ offset' = end
             /\ bpc' = (IF end < NSamples[nTaken] THEN "window" ELSE "recv")
             /\ UNCHANGED <<nTaken, batch, end>> /\ batcherFrame
    <3>1. /\ nTaken \in SeriesId /\ NSamples[nTaken] \in Nat
          /\ offset \in Nat /\ end \in Nat /\ offset < end /\ end <= NSamples[nTaken]
      BY <1>t, <1>a, <1>7 DEF SendChunk, CursorInv, TypeOK, SeriesId
    <3>2. b \in Batch
      <4>1. Size(nTaken, offset, end) \in Nat
        BY <3>1, SizeType
      <4> QED
        BY <3>1, <4>1 DEF Batch, Window
    <3>3. IsFiniteSet(b.items)
      BY FS_Singleton
    <3> HIDE DEF b
    <3>4. TypeOK'
      <4>1. batch \in Batch /\ end \in Nat
        BY <1>t DEF TypeOK
      <4>2. bpc' \in {"recv", "place", "window", "chunk", "closed", "done"}
        BY <2>2
      <4> QED
        BY <1>f, <2>2, <3>2, <4>1, <4>2
    <3>5. CursorInv'
      <4>1. UNCHANGED <<rpc, nSent, nTaken, end, wpc, wb>>
        BY <2>2 DEF batcherFrame, rvars, wvars
      <4> QED
        <5>1. bpc' \in {"window", "recv"} /\ (bpc' = "window" => end < NSamples[nTaken])
          BY <2>2
        <5>2. offset' = end
          BY <2>2
        <5>3. nTaken # 0 /\ NSamples[nTaken] > 0
          BY <3>1 DEF SeriesId
        <5> QED
          BY <1>t, <4>1, <5>1, <5>2, <5>3 DEF CursorInv
    <3>6. FiniteInv'
      BY <1>t, <1>a, <2>2, <3>2, <3>3, AppendBatch DEF Flush, TypeOK, FiniteInv
    <3> QED
      BY <3>4, <3>5, <3>6 DEF TypeInv
  <2> QED
    BY <1>7, <2>1, <2>2 DEF SendChunk
<1>8. CASE FlushLast
  <2> USE DEF EmptyBatch
  <2>1. CASE FlushCancelled /\ batcherFrame
    BY <1>t, <1>8, <2>1 DEF FlushCancelled, batcherFrame, TypeInv, TypeOK, CursorInv, FiniteInv, rvars, wvars
  <2>2. CASE /\ bpc' = "closed" /\ batcherFrame
             /\ UNCHANGED <<berr, nTaken, batch, offset, end, batches, gctx, gerr, stats>>
    BY <1>t, <2>2 DEF batcherFrame, TypeInv, TypeOK, CursorInv, FiniteInv, rvars, wvars
  <2>3. CASE /\ Flush(batch) /\ batch' = EmptyBatch /\ bpc' = "closed"
             /\ UNCHANGED <<nTaken, offset, end>> /\ batcherFrame
    <3>1. TypeOK'
      <4>1. batch \in Batch /\ offset \in Nat /\ end \in Nat
        BY <1>t DEF TypeOK
      <4> QED
        BY <1>e, <1>f, <2>3, <4>1
    <3>2. CursorInv'
      BY <1>t, <2>3 DEF Flush, batcherFrame, CursorInv, rvars, wvars
    <3>3. FiniteInv'
      BY <1>t, <1>a, <2>3, AppendBatch, FS_EmptySet DEF Flush, TypeOK, FiniteInv
    <3> QED
      BY <3>1, <3>2, <3>3 DEF TypeInv
  <2> QED
    BY <1>8, <2>1, <2>2, <2>3 DEF FlushLast
<1>9. CASE BatcherExit
  BY <1>t, <1>9 DEF BatcherExit, batcherFrame, TypeInv, TypeOK, CursorInv, FiniteInv, rvars, wvars
<1>10. ASSUME NEW w \in Writers, Writer(w) PROVE TypeInv'
  <2>1. CASE TakeBatch(w)
    <3>1. TypeOK'
      BY <1>t, <1>a, <2>1 DEF TakeBatch, writerFrame, TypeOK, rvars, bvars
    <3>2. CursorInv' /\ FiniteInv'
      BY <1>t, <1>a, <2>1 DEF TakeBatch, writerFrame, TypeOK, CursorInv, FiniteInv, rvars, bvars
    <3> QED
      BY <3>1, <3>2 DEF TypeInv
  <2>2. CASE BatchSent(w)
    <3>1. wb[w] \in 1..bTaken /\ wb[w] \in 1..Len(batches)
      BY <1>t, <1>a, <2>2 DEF BatchSent, TypeOK, CursorInv
    <3>2. batches[wb[w]] \in Batch /\ IsFiniteSet(batches[wb[w]].items)
      BY <1>t, <3>1 DEF TypeOK, FiniteInv
    <3>3. SampleCount(batches[wb[w]]) \in Nat
      BY <3>2, SampleCountType
    <3>4. TypeOK'
      <4>1. stats' \in [SeriesRead : Nat, SamplesRead : Nat, BatchesSent : Nat, SamplesSent : Nat]
        <5>1. stats \in StatsRec
          BY <1>t DEF TypeOK, StatsRec
        <5>2. stats' = [stats EXCEPT !.BatchesSent = @ + 1,
                                     !.SamplesSent = @ + SampleCount(batches[wb[w]])]
          BY <2>2 DEF BatchSent
        <5> QED
          BY <3>3, <5>1, <5>2, StatsType DEF StatsRec
      <4>2. /\ wpc' \in [Writers -> {"recv", "send", "failed", "done"}]
            /\ wb' \in [Writers -> 0..bTaken]
        BY <1>t, <1>a, <2>2 DEF BatchSent, TypeOK
      <4>3. acked' \in SUBSET (1..bTaken) /\ accepted' \in SUBSET (1..bTaken)
        BY <1>t, <2>2, <3>1 DEF BatchSent, TypeOK
      <4>4. UNCHANGED <<phase, gctx, gerr, rpc, rerr, nSent, bpc, berr, nTaken, batch,
                        offset, end, batches, bTaken>>
        BY <2>2 DEF BatchSent, writerFrame, rvars, bvars
      <4> QED
        BY <1>t, <4>1, <4>2, <4>3, <4>4 DEF TypeOK
    <3>5. CursorInv' /\ FiniteInv'
      BY <1>t, <1>a, <2>2 DEF BatchSent, writerFrame, TypeOK, CursorInv, FiniteInv, rvars, bvars
    <3> QED
      BY <3>4, <3>5 DEF TypeInv
  <2>3. CASE BatchFailed(w)
    <3>1. wb[w] \in 1..bTaken
      BY <1>t, <1>a, <2>3 DEF BatchFailed, TypeOK, CursorInv
    <3>2. TypeOK'
      BY <1>t, <1>a, <2>3, <3>1 DEF BatchFailed, writerFrame, TypeOK, rvars, bvars
    <3>3. CursorInv' /\ FiniteInv'
      BY <1>t, <1>a, <2>3 DEF BatchFailed, writerFrame, TypeOK, CursorInv, FiniteInv, rvars, bvars
    <3> QED
      BY <3>2, <3>3 DEF TypeInv
  <2>4. CASE WriterExit(w)
    BY <1>t, <1>a, <2>4 DEF WriterExit, writerFrame, TypeInv, TypeOK, CursorInv, FiniteInv, rvars, bvars
  <2> QED
    BY <1>10, <2>1, <2>2, <2>3, <2>4 DEF Writer
<1>11. CASE UNCHANGED vars
  BY <1>t, <1>11 DEF TypeInv, TypeOK, CursorInv, FiniteInv, vars, rvars, bvars, wvars
<1> QED
  BY <1>1, <1>2, <1>3, <1>4, <1>5, <1>6, <1>7, <1>8, <1>9, <1>10, <1>11 DEF Next, Batcher

\* Type correctness, with the positions of the batcher's cursors: the batcher
\* never indexes a series, a sample or a batch that does not exist.
THEOREM TypeCorrect == Spec => []TypeInv
BY InitTypeInv, StepTypeInv, PTL DEF Spec

\* Run's variables keep their types in every execution, whatever the tenant's
\* data, the byte budget and the number of writers.
THEOREM TypeOKHolds == Spec => []TypeOK
<1>1. TypeInv => TypeOK
  BY DEF TypeInv
<1> QED
  BY <1>1, TypeCorrect, PTL

----------------------------------------------------------------------------
(* Shutdown protocol: what the closed channels and the finished goroutines *)
(* say about each other.                                                   *)

ReaderEnd ==
  /\ rerr => SeriesChClosed
  /\ SeriesChClosed /\ ~rerr => nSent = NSeries
  /\ rpc = "done" /\ rerr => gerr

BatcherEnd ==
  /\ berr => BatchChClosed
  /\ BatchChClosed /\ ~berr => SeriesChClosed /\ nTaken = nSent /\ batch.items = {}
  /\ bpc = "done" /\ berr => gerr

WriterEnd ==
  \A w \in Writers :
    /\ wpc[w] = "failed" => gerr
    /\ wpc[w] = "done" => BatchChClosed /\ bTaken = Len(batches)

RunEnd ==
  phase = "returned" /\ ~gerr =>
    rpc = "done" /\ bpc = "done" /\ \A w \in Writers : wpc[w] = "done"

EndInv == ReaderEnd /\ BatcherEnd /\ WriterEnd /\ RunEnd

\* At the start no goroutine has ended.
LEMMA InitEndInv == Init => EndInv
BY DEF Init, EndInv, ReaderEnd, BatcherEnd, WriterEnd, RunEnd, SeriesChClosed, BatchChClosed

\* Every step keeps what the ended goroutines leave behind: a reader that
\* returned nil has sent every series, a batcher that did has flushed all.
LEMMA StepEndInv == TypeInv /\ EndInv /\ [Next]_vars => EndInv'
<1> SUFFICES ASSUME TypeInv, EndInv, [Next]_vars PROVE EndInv'
  OBVIOUS
<1>t. TypeOK
  BY DEF TypeInv
<1>e. ReaderEnd /\ BatcherEnd /\ WriterEnd /\ RunEnd
  BY DEF EndInv
<1> USE DEF SeriesChClosed, BatchChClosed
<1>1. CASE RejectNilProvider \/ Start \/ CancelParent \/ WaitReturn \/ Returned
  <2>1. /\ UNCHANGED <<rvars, bvars, batches, wvars>> /\ (gerr => gerr')
        /\ WaitReturn \/ (phase' = "returned" /\ ~gerr' => phase = "returned" /\ ~gerr)
    BY <1>1 DEF RejectNilProvider, Start, CancelParent, WaitReturn, Returned, vars
  <2>2. ReaderEnd' /\ BatcherEnd' /\ WriterEnd'
    BY <1>e, <2>1 DEF ReaderEnd, BatcherEnd, WriterEnd, rvars, bvars, wvars
  <2>3. RunEnd'
    BY <1>e, <1>t, <2>1 DEF RunEnd, WriterEnd, WaitReturn, TypeOK, rvars, bvars, wvars
  <2> QED
    BY <2>2, <2>3 DEF EndInv
<1>2. CASE Reader
  <2>1. /\ readerFrame /\ (gerr => gerr') /\ rpc # "done"
        /\ rpc = "closed" => rpc' = "done"
    <3>1. CASE OpenQuerier \/ NextSeries \/ SendSeries
      <4>1. readerFrame /\ UNCHANGED gerr
        BY <3>1 DEF OpenQuerier, NextSeries, SendSeries
      <4>2. rpc \notin {"closed", "done"}
        BY <3>1 DEF OpenQuerier, NextSeries, SendSeries
      <4> QED
        BY <4>1, <4>2
    <3>2. CASE ReaderExit
      BY <3>2, <1>t DEF ReaderExit, TypeOK
    <3> QED
      BY <1>2, <3>1, <3>2 DEF Reader
  <2>2. ReaderEnd'
    <3>1. CASE OpenQuerier \/ SendSeries
      BY <1>e, <3>1 DEF OpenQuerier, SendSeries, ReaderReturns, ReaderEnd
    <3>2. CASE NextSeries
      BY <1>e, <3>2 DEF NextSeries, ReaderReturns, ReaderEnd
    <3>3. CASE ReaderExit
      BY <1>e, <1>t, <3>3 DEF ReaderExit, ReaderEnd, TypeOK
    <3> QED
      BY <1>2, <3>1, <3>2, <3>3 DEF Reader
  <2>3. BatcherEnd'
    BY <1>e, <1>2, <2>1 DEF Reader, OpenQuerier, NextSeries, SendSeries, ReaderExit, ReaderReturns,
       readerFrame, BatcherEnd, bvars
  <2>4. WriterEnd' /\ RunEnd'
    BY <1>e, <2>1 DEF readerFrame, WriterEnd, RunEnd, bvars, wvars
  <2> QED
    BY <2>2, <2>3, <2>4 DEF EndInv
<1>3. CASE Batcher
  <2>1. /\ batcherFrame /\ (gerr => gerr') /\ bpc # "done"
        /\ bpc = "closed" => bpc' = "done" /\ UNCHANGED batches
    <3>1. CASE BatcherExit
      BY <3>1, <1>t DEF BatcherExit, TypeOK
    <3>2. CASE ~BatcherExit
      <4>1. batcherFrame /\ UNCHANGED gerr
        BY <1>3, <3>2 DEF Batcher, RecvSeries, FlushFull, Flush, FlushCancelled, AppendSeries,
           SplitSeries, OpenWindow, HalveWindow, SendChunk, FlushLast
      <4>2. bpc \notin {"closed", "done"}
        BY <1>3, <3>2 DEF Batcher, RecvSeries, FlushFull, AppendSeries,
           SplitSeries, OpenWindow, HalveWindow, SendChunk, FlushLast
      <4> QED
        BY <4>1, <4>2
    <3> QED
      BY <3>1, <3>2
  <2>2. ReaderEnd'
    BY <1>e, <2>1 DEF batcherFrame, ReaderEnd, rvars
  <2>3. BatcherEnd'
    <3>1. CASE FlushLast
      BY <1>e, <2>1, <3>1 DEF FlushLast, Flush, FlushCancelled, EmptyBatch, batcherFrame, BatcherEnd, rvars
    <3>2. CASE FlushFull \/ SendChunk
      BY <1>e, <2>1, <3>2 DEF FlushFull, SendChunk, Flush, FlushCancelled, batcherFrame, BatcherEnd, rvars
    <3>3. CASE RecvSeries \/ AppendSeries \/ SplitSeries \/ OpenWindow \/ HalveWindow
      BY <1>e, <2>1, <3>3 DEF RecvSeries, AppendSeries, SplitSeries, OpenWindow, HalveWindow,
         batcherFrame, BatcherEnd, rvars
    <3>4. CASE BatcherExit
      BY <1>e, <2>1, <3>4 DEF BatcherExit, batcherFrame, BatcherEnd, rvars
    <3> QED
      BY <1>3, <3>1, <3>2, <3>3, <3>4 DEF Batcher
  <2>4. WriterEnd' /\ RunEnd'
    BY <1>e, <2>1 DEF batcherFrame, WriterEnd, RunEnd, rvars, wvars
  <2> QED
    BY <2>2, <2>3, <2>4 DEF EndInv
<1>4. ASSUME NEW w \in Writers, Writer(w) PROVE EndInv'
  <2>1. writerFrame /\ (gerr => gerr') /\ wpc[w] # "done"
    BY <1>4 DEF Writer, TakeBatch, BatchSent, BatchFailed, WriterExit
  <2>2. ReaderEnd' /\ BatcherEnd'
    BY <1>e, <2>1 DEF writerFrame, ReaderEnd, BatcherEnd, rvars, bvars
  <2>3. WriterEnd'
    <3>1. CASE TakeBatch(w)
      BY <1>e, <1>t, <2>1, <3>1 DEF TakeBatch, writerFrame, WriterEnd, TypeOK, bvars
    <3>2. CASE BatchSent(w)
      BY <1>e, <1>t, <2>1, <3>2 DEF BatchSent, writerFrame, WriterEnd, TypeOK, bvars
    <3>3. CASE BatchFailed(w)
      BY <1>e, <1>t, <2>1, <3>3 DEF BatchFailed, writerFrame, WriterEnd, TypeOK, bvars
    <3>4. CASE WriterExit(w)
      BY <1>e, <1>t, <2>1, <3>4 DEF WriterExit, writerFrame, WriterEnd, TypeOK, bvars
    <3> QED
      BY <1>4, <3>1, <3>2, <3>3, <3>4 DEF Writer
  <2>4. RunEnd'
    BY <1>e, <2>1 DEF writerFrame, RunEnd
  <2> QED
    BY <2>2, <2>3, <2>4 DEF EndInv
<1>5. CASE UNCHANGED vars
  BY <1>e, <1>5 DEF EndInv, ReaderEnd, BatcherEnd, WriterEnd, RunEnd, vars, rvars, bvars, wvars
<1> QED
  BY <1>1, <1>2, <1>3, <1>4, <1>5 DEF Next

----------------------------------------------------------------------------
(* Ledger: every batch a writer took is acknowledged or still in a         *)
(* writer's hands, and only a failed send leaves the endpoint's answer     *)
(* unknown.                                                                *)

LedgerInv ==
  /\ \A i \in 1..bTaken :
       i \in acked \/ \E w \in Writers : wpc[w] \in {"send", "failed"} /\ wb[w] = i
  /\ ~DryRun => acked \subseteq accepted
  /\ \A i \in accepted : i \in acked \/ gerr

\* Every step keeps each taken batch in a writer's hand, acknowledged, or
\* covered by the group's error.
LEMMA StepLedgerInv == TypeInv /\ LedgerInv /\ [Next]_vars => LedgerInv'
<1> SUFFICES ASSUME TypeInv, LedgerInv, [Next]_vars PROVE LedgerInv'
  OBVIOUS
<1>t. TypeOK /\ CursorInv
  BY DEF TypeInv
<1>1. CASE /\ UNCHANGED wvars /\ (gerr => gerr')
  BY <1>1 DEF LedgerInv, wvars
<1>2. ASSUME NEW w \in Writers, Writer(w) PROVE LedgerInv'
  <2>1. CASE TakeBatch(w)
    BY <1>t, <2>1 DEF TakeBatch, LedgerInv, TypeOK
  <2>2. CASE BatchSent(w)
    BY <1>t, <2>2 DEF BatchSent, LedgerInv, TypeOK
  <2>3. CASE BatchFailed(w)
    BY <1>t, <2>3 DEF BatchFailed, LedgerInv, TypeOK
  <2>4. CASE WriterExit(w)
    BY <1>t, <2>4 DEF WriterExit, LedgerInv, TypeOK
  <2> QED
    BY <1>2, <2>1, <2>2, <2>3, <2>4 DEF Writer
<1>3. CASE Batcher
  BY <1>1, <1>3 DEF Batcher, RecvSeries, FlushFull, Flush, FlushCancelled, AppendSeries, SplitSeries,
     OpenWindow, HalveWindow, SendChunk, FlushLast, BatcherExit, batcherFrame
<1>4. CASE Reader
  BY <1>1, <1>4 DEF Reader, OpenQuerier, NextSeries, SendSeries, ReaderExit, readerFrame
<1>5. CASE RejectNilProvider \/ Start \/ CancelParent \/ WaitReturn \/ Returned \/ UNCHANGED vars
  BY <1>1, <1>5 DEF RejectNilProvider, Start, CancelParent, WaitReturn, Returned, vars
<1> QED
  BY <1>2, <1>3, <1>4, <1>5 DEF Next

----------------------------------------------------------------------------
(* Coverage: every sample the batcher has read is in a flushed batch, in   *)
(* the open batch, or still ahead of the window it is sizing.              *)

InItems(items, s, k) == \E it \in items : it.s = s /\ it.lo < k /\ k <= it.hi

Placed(s, k) ==
  \/ \E i \in 1..Len(batches) : InItems(batches[i].items, s, k)
  \/ InItems(batch.items, s, k)

Busy == bpc \in {"place", "window", "chunk"}

CoverInv ==
  ~berr =>
    /\ \A s \in 1..nTaken : (s = nTaken /\ Busy) \/ \A k \in 1..NSamples[s] : Placed(s, k)
    /\ bpc \in {"window", "chunk"} => \A k \in 1..offset : Placed(nTaken, k)

\* A window of samples lo+1..hi covers exactly those.
LEMMA WindowCovers ==
  ASSUME NEW s, NEW lo \in Nat, NEW hi \in Nat, NEW items, Window(s, lo, hi) \in items
  PROVE  \A k \in (lo + 1)..hi : InItems(items, s, k)
<1> SUFFICES ASSUME NEW k \in (lo + 1)..hi PROVE InItems(items, s, k)
  OBVIOUS
<1>1. LET it == Window(s, lo, hi) IN it.s = s /\ it.lo < k /\ k <= it.hi
  BY DEF Window
<1> QED
  BY <1>1 DEF InItems

\* Moving the open batch to the log, or adding to either, keeps what is placed.
LEMMA PlacedGrows ==
  ASSUME TypeOK, TypeOK',
         \/ UNCHANGED batches /\ batch.items \subseteq batch'.items
         \/ \E b \in Batch : batches' = Append(batches, b) /\ batch.items \subseteq batch'.items
         \/ batches' = Append(batches, batch)
  PROVE  \A s, k : Placed(s, k) => Placed(s, k)'
<1> SUFFICES ASSUME NEW s, NEW k, Placed(s, k) PROVE Placed(s, k)'
  OBVIOUS
<1>t. batches \in Seq(Batch) /\ batch \in Batch /\ Len(batches) \in Nat
  BY DEF TypeOK
<1>1. CASE UNCHANGED batches /\ batch.items \subseteq batch'.items
  BY <1>1 DEF Placed, InItems
<1>2. ASSUME NEW b \in Batch, batches' = Append(batches, b)
      PROVE  /\ \A i \in 1..Len(batches) : i \in 1..Len(batches') /\ batches'[i] = batches[i]
             /\ Len(batches) + 1 \in 1..Len(batches') /\ batches'[Len(batches) + 1] = b
  BY <1>t, <1>2, AppendBatch
<1>3. CASE \E b \in Batch : batches' = Append(batches, b) /\ batch.items \subseteq batch'.items
  BY <1>2, <1>3 DEF Placed, InItems
<1>4. CASE batches' = Append(batches, batch)
  BY <1>t, <1>2, <1>4 DEF Placed, InItems
<1> QED
  BY <1>1, <1>3, <1>4

\* Every step keeps each sample the batcher has passed in a flushed batch or
\* in the open one.
LEMMA StepCoverInv == TypeInv /\ TypeInv' /\ EndInv /\ CoverInv /\ [Next]_vars => CoverInv'
<1> SUFFICES ASSUME TypeInv, TypeInv', EndInv, CoverInv, [Next]_vars PROVE CoverInv'
  OBVIOUS
<1>t. TypeOK /\ CursorInv /\ TypeOK'
  BY DEF TypeInv
<1>a. /\ NSeries \in Nat /\ NSamples \in [SeriesId -> Nat] /\ nTaken \in Nat
      /\ offset \in Nat /\ end \in Nat
  BY <1>t, PipelineAssumption DEF PipelineAssumption, TypeOK
<1>1. CASE UNCHANGED <<bvars, batches>>
  BY <1>1 DEF CoverInv, Placed, Busy, bvars
<1>2. CASE Reader
  BY <1>1, <1>2 DEF Reader, OpenQuerier, NextSeries, SendSeries, ReaderExit, readerFrame
<1>3. CASE RejectNilProvider \/ Start \/ CancelParent \/ WaitReturn \/ Returned \/ UNCHANGED vars
  BY <1>1, <1>3 DEF RejectNilProvider, Start, CancelParent, WaitReturn, Returned, vars
<1>4. CASE \E w \in Writers : Writer(w)
  BY <1>1, <1>4 DEF Writer, TakeBatch, BatchSent, BatchFailed, WriterExit, writerFrame
<1>5. CASE RecvSeries
  <2>1. /\ nTaken' = nTaken + 1 /\ UNCHANGED <<berr, batch, batches>> /\ ~Busy
        /\ bpc' = (IF NSamples[nTaken + 1] = 0 THEN "recv" ELSE "place")
    BY <1>5 DEF RecvSeries, Busy
  <2>2. \A s, k : Placed(s, k) => Placed(s, k)'
    BY <2>1 DEF Placed
  <2>3. ASSUME ~berr', NEW s \in 1..nTaken', ~(s = nTaken' /\ Busy'), NEW k \in 1..NSamples[s]
        PROVE  Placed(s, k)'
    <3>1. CASE s = nTaken + 1
      BY <1>a, <2>1, <2>3, <3>1 DEF Busy
    <3>2. CASE s \in 1..nTaken
      BY <2>1, <2>2, <2>3, <3>2 DEF CoverInv
    <3> QED
      BY <1>a, <2>1, <2>3, <3>1, <3>2
  <2> QED
    BY <2>1, <2>3 DEF CoverInv
<1>6. CASE FlushFull
  <2>1. CASE berr'
    BY <2>1 DEF CoverInv
  <2>2. CASE batches' = Append(batches, batch) /\ UNCHANGED <<bpc, berr, nTaken, offset>>
    BY <1>t, <2>2, PlacedGrows DEF CoverInv, Busy
  <2> QED
    BY <1>6, <2>1, <2>2 DEF FlushFull, Flush, FlushCancelled
<1>7. CASE AppendSeries
  <2>1. /\ batch'.items = batch.items \cup {Window(nTaken, 0, NSamples[nTaken])}
        /\ UNCHANGED <<berr, nTaken, batches>> /\ bpc' = "recv" /\ Busy
    BY <1>7 DEF AppendSeries, Busy
  <2>2. \A s, k : Placed(s, k) => Placed(s, k)'
    BY <1>t, <2>1, PlacedGrows
  <2>3. \A k \in 1..NSamples[nTaken] : Placed(nTaken, k)'
    <3>1. NSamples[nTaken] \in Nat
      BY <1>t, <1>a, <1>7 DEF AppendSeries, CursorInv, TypeOK, SeriesId
    <3>2. \A k \in 1..NSamples[nTaken] : InItems(batch'.items, nTaken, k)
      BY <2>1, <3>1, WindowCovers
    <3> QED
      BY <2>1, <3>2 DEF Placed
  <2> QED
    BY <2>1, <2>2, <2>3 DEF CoverInv
<1>8. CASE SplitSeries \/ OpenWindow \/ HalveWindow
  <2>1. /\ UNCHANGED <<berr, nTaken, batch, batches>> /\ Busy /\ Busy'
        /\ offset' = 0 \/ (offset' = offset /\ bpc \in {"window", "chunk"})
    BY <1>8 DEF SplitSeries, OpenWindow, HalveWindow, Busy
  <2>2. \A s, k : Placed(s, k) <=> Placed(s, k)'
    BY <2>1 DEF Placed
  <2> QED
    BY <2>1, <2>2 DEF CoverInv
<1>9. CASE SendChunk
  <2> DEFINE b == [items |-> {Window(nTaken, offset, end)}, bytes |-> Size(nTaken, offset, end)]
  <2>1. CASE berr'
    BY <2>1 DEF CoverInv
  <2>2. CASE /\ batches' = Append(batches, b) /\ offset' = end
             /\ bpc' = (IF end < NSamples[nTaken] THEN "window" ELSE "recv")
             /\ UNCHANGED <<berr, nTaken, batch>>
    <3>1. /\ nTaken \in SeriesId /\ NSamples[nTaken] \in Nat
          /\ offset < end /\ end <= NSamples[nTaken] /\ bpc = "chunk"
      <4>1. bpc = "chunk"
        BY <1>9 DEF SendChunk
      <4>2. offset < end /\ end <= NSamples[nTaken] /\ nTaken # 0
        BY <1>t, <4>1 DEF CursorInv
      <4>3. nTaken \in SeriesId
        BY <1>t, <1>a, <4>2 DEF TypeOK, SeriesId
      <4> QED
        BY <1>a, <4>1, <4>2, <4>3
    <3>2. b \in Batch
      <4>1. Size(nTaken, offset, end) \in Nat
        BY <1>a, <3>1, SizeType
      <4> QED
        BY <1>a, <3>1, <4>1 DEF Batch, Window
    <3>3. \A s, k : Placed(s, k) => Placed(s, k)'
      BY <1>t, <2>2, <3>2, PlacedGrows
    <3>4. \A k \in (offset + 1)..end : Placed(nTaken, k)'
      <4>1. Len(batches) + 1 \in 1..Len(batches') /\ batches'[Len(batches) + 1] = b
        <5> HIDE DEF b
        <5>1. batches \in Seq(Batch) /\ Len(batches) \in Nat
          BY <1>t DEF TypeOK
        <5> QED
          BY <5>1, <2>2, <3>2, AppendBatch
      <4>2. \A k \in (offset + 1)..end : InItems(b.items, nTaken, k)
        BY <1>a, WindowCovers
      <4> QED
        BY <2>2, <4>1, <4>2 DEF Placed
    <3>5. ~berr' => \A k \in 1..end : Placed(nTaken, k)'
      <4> SUFFICES ASSUME ~berr', NEW k \in 1..end PROVE Placed(nTaken, k)'
        OBVIOUS
      <4>1. CASE k \in 1..offset
        BY <2>2, <3>1, <3>3, <4>1 DEF CoverInv
      <4>2. CASE k \in (offset + 1)..end
        BY <3>4, <4>2
      <4> QED
        BY <1>a, <4>1, <4>2
    <3>6. bpc' = "recv" => end = NSamples[nTaken]
      BY <1>a, <2>2, <3>1
    <3>7. bpc' \in {"recv", "window"} /\ Busy
      BY <2>2, <3>1 DEF Busy
    <3> QED
      BY <2>2, <3>3, <3>5, <3>6, <3>7 DEF CoverInv, Busy
  <2> QED
    BY <1>9, <2>1, <2>2 DEF SendChunk, Flush, FlushCancelled
<1>10. CASE FlushLast
  <2>1. CASE berr'
    BY <2>1 DEF CoverInv
  <2>2. CASE UNCHANGED <<batches, batch, berr, nTaken>> /\ bpc = "recv" /\ bpc' = "closed"
    BY <2>2 DEF CoverInv, Busy, Placed
  <2>3. CASE /\ batches' = Append(batches, batch) /\ UNCHANGED <<berr, nTaken>>
             /\ bpc = "recv" /\ bpc' = "closed"
    BY <1>t, <2>3, PlacedGrows DEF CoverInv, Busy
  <2> QED
    BY <1>10, <2>1, <2>2, <2>3 DEF FlushLast, Flush, FlushCancelled
<1>11. CASE BatcherExit
  BY <1>11 DEF BatcherExit, CoverInv, Busy, Placed
<1> QED
  BY <1>2, <1>3, <1>4, <1>5, <1>6, <1>7, <1>8, <1>9, <1>10, <1>11 DEF Next, Batcher

----------------------------------------------------------------------------
(* Budget: windows are non-empty and inside their series, and a batch is   *)
(* within the budget unless it is a single sample.                         *)

WindowOK(it) == it.lo < it.hi /\ it.hi <= NSamples[it.s]

BatchOK(b) ==
  /\ b.items # {} /\ \A it \in b.items : WindowOK(it)
  /\ b.bytes <= MaxBatchBytes \/ SingleSample(b)

BudgetInv ==
  /\ \A it \in batch.items : WindowOK(it)
  /\ batch.bytes <= MaxBatchBytes /\ (batch.items = {} => batch.bytes = 0)
  /\ \A i \in 1..Len(batches) : BatchOK(batches[i])

\* Flushing a batch that respects the budget keeps the log within it.
LEMMA FlushBudget ==
  ASSUME NEW b \in Batch, TypeOK, BudgetInv, BatchOK(b), batches' = Append(batches, b)
  PROVE  \A i \in 1..Len(batches') : BatchOK(batches'[i])
<1>t. batches \in Seq(Batch) /\ Len(batches) \in Nat
  BY DEF TypeOK
<1> SUFFICES ASSUME NEW i \in 1..Len(batches') PROVE BatchOK(batches'[i])
  OBVIOUS
<1>1. CASE i \in 1..Len(batches)
  BY <1>t, <1>1, AppendBatch DEF BudgetInv
<1>2. CASE i = Len(batches) + 1
  BY <1>t, <1>2, AppendBatch
<1> QED
  BY <1>t, <1>1, <1>2, AppendBatch

\* Every step keeps the open batch and all flushed ones within the budget.
LEMMA StepBudgetInv == TypeInv /\ BudgetInv /\ [Next]_vars => BudgetInv'
<1> SUFFICES ASSUME TypeInv, BudgetInv, [Next]_vars PROVE BudgetInv'
  OBVIOUS
<1>t. TypeOK /\ CursorInv
  BY DEF TypeInv
<1>a. /\ NSeries \in Nat /\ NSamples \in [SeriesId -> Nat] /\ nTaken \in Nat
      /\ offset \in Nat /\ end \in Nat /\ batch \in Batch
  BY <1>t, PipelineAssumption DEF PipelineAssumption, TypeOK
<1>1. CASE UNCHANGED <<batch, batches>>
  BY <1>1 DEF BudgetInv
<1>2. CASE \/ RejectNilProvider \/ Start \/ CancelParent \/ WaitReturn \/ Returned \/ UNCHANGED vars
           \/ Reader \/ \E w \in Writers : Writer(w)
  <2>1. UNCHANGED <<bvars, batches>>
    BY <1>2 DEF RejectNilProvider, Start, CancelParent, WaitReturn, Returned, vars,
       Reader, OpenQuerier, NextSeries, SendSeries, ReaderExit, readerFrame,
       Writer, TakeBatch, BatchSent, BatchFailed, WriterExit, writerFrame
  <2> QED
    BY <1>1, <2>1 DEF bvars
<1>3. CASE RecvSeries \/ SplitSeries \/ OpenWindow \/ HalveWindow \/ BatcherExit
  BY <1>1, <1>3 DEF RecvSeries, SplitSeries, OpenWindow, HalveWindow, BatcherExit
<1>4. CASE FlushFull \/ FlushLast
  <2>1. \/ UNCHANGED <<batch, batches>>
        \/ batch.items # {} /\ batches' = Append(batches, batch) /\ batch' = EmptyBatch
    BY <1>4 DEF FlushFull, FlushLast, MustFlush, Flush, FlushCancelled
  <2>2. CASE batch.items # {} /\ batches' = Append(batches, batch) /\ batch' = EmptyBatch
    <3>1. BatchOK(batch)
      BY <2>2 DEF BudgetInv, BatchOK
    <3>2. \A i \in 1..Len(batches') : BatchOK(batches'[i])
      BY <1>t, <1>a, <2>2, <3>1, FlushBudget
    <3> QED
      BY <2>2, <3>2, ConfigType DEF BudgetInv, EmptyBatch
  <2> QED
    BY <1>1, <2>1, <2>2
<1>5. CASE AppendSeries
  <2>1. /\ nTaken \in SeriesId /\ NSamples[nTaken] \in Nat /\ NSamples[nTaken] > 0
    BY <1>t, <1>a, <1>5 DEF AppendSeries, CursorInv, TypeOK, SeriesId
  <2>2. SeriesBytes \in Nat
    BY <2>1, SizeType DEF SeriesBytes
  <2>3. WindowOK(Window(nTaken, 0, NSamples[nTaken]))
    BY <2>1 DEF WindowOK, Window
  <2>4. batch.bytes + SeriesBytes <= MaxBatchBytes \/ (batch.items = {} /\ SeriesBytes <= MaxBatchBytes)
    BY <1>5, <1>a, <2>2, ConfigType DEF AppendSeries, Oversize, MustFlush, Batch
  <2> QED
    BY <1>5, <1>a, <2>2, <2>3, <2>4 DEF AppendSeries, BudgetInv, Batch
<1>6. CASE SendChunk
  <2> DEFINE b == [items |-> {Window(nTaken, offset, end)}, bytes |-> Size(nTaken, offset, end)]
  <2>1. UNCHANGED <<batch, batches>> \/ (batches' = Append(batches, b) /\ UNCHANGED batch)
    BY <1>6 DEF SendChunk, Flush, FlushCancelled
  <2>2. CASE batches' = Append(batches, b) /\ UNCHANGED batch
    <3>1. /\ nTaken \in SeriesId /\ NSamples[nTaken] \in Nat
          /\ offset < end /\ end <= NSamples[nTaken] /\ ~WindowTooBig
      BY <1>t, <1>a, <1>6 DEF SendChunk, CursorInv, TypeOK, SeriesId
    <3>2. Size(nTaken, offset, end) \in Nat
      BY <1>a, <3>1, SizeType
    <3>3. b \in Batch
      BY <1>a, <3>1, <3>2 DEF Batch, Window
    <3>4. BatchOK(b)
      <4>1. WindowOK(Window(nTaken, offset, end))
        BY <3>1 DEF WindowOK, Window
      <4>2. Size(nTaken, offset, end) <= MaxBatchBytes \/ end = offset + 1
        BY <1>a, <3>1, <3>2, ConfigType DEF WindowTooBig
      <4>3. end = offset + 1 => SingleSample(b)
        BY DEF SingleSample, Window
      <4> QED
        BY <4>1, <4>2, <4>3 DEF BatchOK
    <3> HIDE DEF b
    <3> QED
      BY <1>t, <2>2, <3>3, <3>4, FlushBudget DEF BudgetInv
  <2> QED
    BY <1>1, <2>1, <2>2
<1> QED
  BY <1>2, <1>3, <1>4, <1>5, <1>6 DEF Next, Batcher

----------------------------------------------------------------------------
(* Idleness: outside "running" no goroutine has started, or all are gone.  *)

Idle ==
  /\ rpc = "query" /\ bpc = "recv" /\ nSent = nTaken /\ bTaken = Len(batches)
  /\ \A w \in Writers : wpc[w] = "recv"

Gone ==
  /\ rpc = "done" /\ bpc = "done"
  /\ \A w \in Writers : wpc[w] \in {"done", "failed"}

IdleInv ==
  /\ phase = "init" => Idle
  /\ phase = "returned" => Idle \/ Gone

\* Neither an idle nor a finished set of goroutines can take a step.
LEMMA IdleStops ==
  ASSUME TypeOK, [Next]_vars, phase # "running", Idle \/ Gone
  PROVE  RejectNilProvider \/ Start \/ UNCHANGED vars
<1>1. ~Reader
  BY DEF Reader, OpenQuerier, NextSeries, SendSeries, ReaderExit, Idle, Gone
<1>2. ~Batcher
  BY DEF Batcher, RecvSeries, FlushFull, AppendSeries, SplitSeries, OpenWindow, HalveWindow,
     SendChunk, FlushLast, BatcherExit, SeriesChClosed, Idle, Gone
<1>3. \A w \in Writers : ~Writer(w)
  BY DEF Writer, TakeBatch, BatchSent, BatchFailed, WriterExit, BatchChClosed, Idle, Gone
<1>4. ~CancelParent /\ ~WaitReturn
  BY DEF CancelParent, WaitReturn
<1> QED
  BY <1>1, <1>2, <1>3, <1>4 DEF Next, Returned

\* Every step keeps the goroutines idle before the start and after the return.
LEMMA StepIdleInv == TypeInv /\ IdleInv /\ [Next]_vars => IdleInv'
<1> SUFFICES ASSUME TypeInv, IdleInv, [Next]_vars PROVE IdleInv'
  OBVIOUS
<1>t. TypeOK
  BY DEF TypeInv
<1>1. CASE phase = "running"
  <2>1. CASE WaitReturn
    BY <2>1 DEF WaitReturn, IdleInv, Gone, rvars, bvars, wvars
  <2>2. CASE ~WaitReturn
    <3>1. phase' = "running"
      BY <1>1, <2>2 DEF Next, RejectNilProvider, Start, CancelParent, Returned, vars,
         Reader, OpenQuerier, NextSeries, SendSeries, ReaderExit, readerFrame,
         Batcher, RecvSeries, FlushFull, AppendSeries, SplitSeries, OpenWindow, HalveWindow,
         SendChunk, FlushLast, BatcherExit, batcherFrame,
         Writer, TakeBatch, BatchSent, BatchFailed, WriterExit, writerFrame
    <3> QED
      BY <3>1 DEF IdleInv
  <2> QED
    BY <2>1, <2>2
<1>2. CASE phase # "running"
  <2>1. Idle \/ Gone
    BY <1>t, <1>2 DEF TypeOK, IdleInv
  <2>2. CASE RejectNilProvider \/ Start
    BY <2>2 DEF RejectNilProvider, Start, IdleInv, Idle, rvars, bvars, wvars
  <2>3. CASE UNCHANGED vars
    BY <2>3 DEF IdleInv, Idle, Gone, vars, rvars, bvars, wvars
  <2> QED
    BY <1>t, <1>2, <2>1, <2>2, <2>3, IdleStops
<1> QED
  BY <1>1, <1>2

----------------------------------------------------------------------------
(* The inductive invariant and what follows from it.                       *)

IInv == TypeInv /\ EndInv /\ LedgerInv /\ CoverInv /\ BudgetInv /\ IdleInv

\* The inductive invariant of Run holds in every reachable state.
THEOREM Invariance == Spec => []IInv
<1>1. Init => IInv
  <2> SUFFICES ASSUME Init PROVE IInv
    OBVIOUS
  <2>1. LedgerInv /\ CoverInv /\ IdleInv
    BY DEF Init, LedgerInv, CoverInv, IdleInv, Idle
  <2>2. BudgetInv
    BY ConfigType DEF Init, BudgetInv, EmptyBatch
  <2> QED
    BY <2>1, <2>2, InitTypeInv, InitEndInv DEF IInv
<1>2. IInv /\ [Next]_vars => IInv'
  BY StepTypeInv, StepEndInv, StepLedgerInv, StepCoverInv, StepBudgetInv, StepIdleInv DEF IInv
<1> QED
  BY <1>1, <1>2, PTL DEF Spec

\* What a set of flushed batches holds are samples of the tenant.
LEMMA DeliveredInRange ==
  ASSUME IInv, NEW ids \in SUBSET (1..Len(batches))
  PROVE  SamplesOf(ids) \subseteq AllSamples
<1> SUFFICES ASSUME NEW i \in ids, NEW it \in batches[i].items,
                    NEW x \in WindowSamples(it)
             PROVE  x \in AllSamples
  BY DEF SamplesOf, BatchSamples
<1>1. batches[i] \in Batch /\ BatchOK(batches[i])
  BY DEF IInv, TypeInv, TypeOK, BudgetInv
<1>2. it.s \in SeriesId /\ it.lo \in Nat /\ it.hi \in Nat /\ it.hi <= NSamples[it.s]
  BY <1>1 DEF Batch, BatchOK, WindowOK
<1>3. NSamples[it.s] \in Nat
  BY <1>2, PipelineAssumption DEF PipelineAssumption
<1>4. x \in {it.s} \X (1..NSamples[it.s])
  BY <1>2, <1>3 DEF WindowSamples
<1>5. x \in WindowSamples(Window(it.s, 0, NSamples[it.s]))
  BY <1>4 DEF WindowSamples, Window
<1> QED
  BY <1>2, <1>5 DEF AllSamples

DeliveredOK == SamplesOf(acked \cup accepted) \subseteq AllSamples

\* Only samples of the tenant are ever delivered.
LEMMA DeliveredFromInv == IInv => DeliveredOK
<1> SUFFICES ASSUME IInv PROVE DeliveredOK
  OBVIOUS
<1>1. acked \cup accepted \in SUBSET (1..Len(batches))
  BY DEF IInv, TypeInv, TypeOK
<1> QED
  BY <1>1, DeliveredInRange DEF DeliveredOK

\* The invariant implies that a nil return means a complete transfer.
LEMMA SuccessFromInv == IInv => SuccessIsComplete
<1> SUFFICES ASSUME IInv, phase = "returned", ~gerr
             PROVE  nTaken = NSeries /\ SamplesOf(acked) = AllSamples /\ (~DryRun => acked = accepted)
  BY DEF SuccessIsComplete
<1>t. TypeOK
  BY DEF IInv, TypeInv
<1>1. /\ rpc = "done" /\ bpc = "done" /\ \A w \in Writers : wpc[w] = "done"
      /\ ~rerr /\ ~berr /\ nTaken = NSeries /\ batch.items = {}
  BY DEF IInv, EndInv, RunEnd, ReaderEnd, BatcherEnd, SeriesChClosed, BatchChClosed
<1>2. bTaken = Len(batches)
  <2>1. 1 \in Writers
    BY ConfigType DEF Writers
  <2> QED
    BY <1>1, <2>1 DEF IInv, EndInv, WriterEnd
<1>3. acked = 1..Len(batches)
  BY <1>t, <1>1, <1>2 DEF IInv, LedgerInv, TypeOK
<1>4. ~DryRun => acked = accepted
  BY DEF IInv, LedgerInv
<1>5. AllSamples \subseteq SamplesOf(acked)
  <2> SUFFICES ASSUME NEW s \in SeriesId, NEW x \in WindowSamples(Window(s, 0, NSamples[s]))
               PROVE  x \in SamplesOf(acked)
    BY DEF AllSamples
  <2>1. PICK k \in 1..NSamples[s] : x = <<s, k>>
    BY DEF WindowSamples, Window
  <2>2. Placed(s, k)
    BY <1>1 DEF IInv, CoverInv, Busy, SeriesId
  <2>3. PICK i \in acked : InItems(batches[i].items, s, k)
    BY <1>1, <1>3, <2>2 DEF Placed, InItems
  <2>4. PICK it \in batches[i].items : it.s = s /\ it.lo < k /\ k <= it.hi
    BY <2>3 DEF InItems
  <2>5. it.lo \in Nat /\ it.hi \in Nat /\ NSamples[s] \in Nat
    <3>1. batches[i] \in Batch
      BY <1>t, <1>3 DEF TypeOK
    <3>2. NSamples[s] \in Nat
      BY PipelineAssumption DEF PipelineAssumption
    <3> QED
      BY <3>1, <3>2 DEF Batch
  <2>6. x \in WindowSamples(it)
    BY <2>1, <2>4, <2>5 DEF WindowSamples
  <2> QED
    BY <2>6 DEF SamplesOf, BatchSamples
<1>6. SamplesOf(acked) \subseteq AllSamples
  BY <1>3, DeliveredInRange
<1> QED
  BY <1>1, <1>4, <1>5, <1>6

\* When Run returns nil, every sample of every selected series has been
\* acknowledged by the endpoint, for any data, budget and number of writers
\* and any interleaving of reader, batcher, writers and cancellation.
THEOREM SuccessIsCompleteHolds == Spec => []SuccessIsComplete
BY SuccessFromInv, Invariance, PTL

\* Every batch flushed to the writers is non-empty and within MaxBatchBytes,
\* unless it is one sample of one series.
THEOREM BatchWithinBudgetHolds == Spec => []BatchWithinBudget
<1>1. IInv => BatchWithinBudget
  <2> SUFFICES ASSUME IInv, NEW i \in 1..Len(batches)
               PROVE  /\ BatchSamples(batches[i]) # {}
                      /\ batches[i].bytes <= MaxBatchBytes \/ SingleSample(batches[i])
    BY DEF BatchWithinBudget
  <2>1. BatchOK(batches[i]) /\ batches[i] \in Batch
    BY DEF IInv, BudgetInv, TypeInv, TypeOK
  <2>2. PICK it \in batches[i].items : it.lo < it.hi
    BY <2>1 DEF BatchOK, WindowOK
  <2>3. it.lo \in Nat /\ it.hi \in Nat
    BY <2>1 DEF Batch
  <2>4. <<it.s, it.hi>> \in WindowSamples(it)
    BY <2>2, <2>3 DEF WindowSamples
  <2> QED
    BY <2>1, <2>4 DEF BatchSamples, BatchOK
<1> QED
  BY <1>1, Invariance, PTL

\* No goroutine of Run outlives it: after the return nothing changes.
THEOREM NothingAfterReturnHolds == Spec => NothingAfterReturn
<1>1. IInv /\ [Next]_vars => [phase = "returned" => UNCHANGED vars]_vars
  <2> SUFFICES ASSUME IInv, [Next]_vars, phase = "returned" PROVE UNCHANGED vars
    OBVIOUS
  <2>1. TypeOK /\ (Idle \/ Gone)
    BY DEF IInv, TypeInv, IdleInv
  <2>2. RejectNilProvider \/ Start \/ UNCHANGED vars
    BY <2>1, IdleStops
  <2> QED
    BY <2>2 DEF RejectNilProvider, Start
<1> QED
  BY <1>1, Invariance, PTL DEF Spec, NothingAfterReturn

----------------------------------------------------------------------------
(* Refinement.                                                             *)

\* A flush adds one batch; nothing else touches the log.
LEMMA LogGrows ==
  ASSUME TypeInv, [Next]_vars
  PROVE  UNCHANGED batches \/ \E b \in Batch : batches' = Append(batches, b)
<1>t. TypeOK /\ CursorInv
  BY DEF TypeInv
<1>1. CASE \/ RejectNilProvider \/ Start \/ CancelParent \/ WaitReturn \/ Returned \/ UNCHANGED vars
           \/ Reader \/ \E w \in Writers : Writer(w)
  BY <1>1 DEF RejectNilProvider, Start, CancelParent, WaitReturn, Returned, vars,
     Reader, OpenQuerier, NextSeries, SendSeries, ReaderExit, readerFrame,
     Writer, TakeBatch, BatchSent, BatchFailed, WriterExit, writerFrame
<1>2. CASE RecvSeries \/ AppendSeries \/ SplitSeries \/ OpenWindow \/ HalveWindow \/ BatcherExit
  BY <1>2 DEF RecvSeries, AppendSeries, SplitSeries, OpenWindow, HalveWindow, BatcherExit
<1>3. CASE FlushFull \/ FlushLast
  <2>1. UNCHANGED batches \/ batches' = Append(batches, batch)
    BY <1>3 DEF FlushFull, FlushLast, Flush, FlushCancelled
  <2>2. batch \in Batch
    BY <1>t DEF TypeOK
  <2> QED
    BY <2>1, <2>2
<1>4. CASE SendChunk
  <2>0. PICK b : b = [items |-> {Window(nTaken, offset, end)}, bytes |-> Size(nTaken, offset, end)]
    OBVIOUS
  <2>1. bpc = "chunk" /\ (UNCHANGED batches \/ batches' = Append(batches, b))
    BY <1>4, <2>0 DEF SendChunk, Flush, FlushCancelled
  <2>2. nTaken \in SeriesId /\ offset \in 0..NSamples[nTaken] /\ end \in 0..NSamples[nTaken] /\ offset <= end
    <3>1. offset < end /\ end <= NSamples[nTaken] /\ nTaken # 0
      BY <1>t, <2>1 DEF CursorInv
    <3>2. nTaken \in SeriesId
      BY <1>t, <3>1, PipelineAssumption DEF TypeOK, SeriesId, PipelineAssumption
    <3>3. NSamples[nTaken] \in Nat /\ offset \in Nat /\ end \in Nat
      BY <1>t, <3>2, PipelineAssumption DEF TypeOK, PipelineAssumption
    <3> QED
      BY <3>1, <3>2, <3>3
  <2>3. Size(nTaken, offset, end) \in Nat
    BY <2>2, SizeType
  <2>4. offset \in Nat /\ end \in Nat
    BY <1>t DEF TypeOK
  <2>5. b \in Batch
    BY <2>0, <2>2, <2>3, <2>4 DEF Batch, Window
  <2> QED
    BY <2>1, <2>5
<1> QED
  BY <1>1, <1>2, <1>3, <1>4 DEF Next, Batcher

\* The log of batches only grows, so what a set of taken batches holds is
\* fixed, and the sets of acknowledged and accepted batches only grow.
LEMMA DeliveredGrows ==
  ASSUME IInv, [Next]_vars
  PROVE  SamplesOf(acked \cup accepted) \subseteq SamplesOf(acked \cup accepted)'
<1>t. /\ TypeOK /\ batches \in Seq(Batch) /\ Len(batches) \in Nat /\ bTaken \in 0..Len(batches)
      /\ acked \subseteq 1..bTaken /\ accepted \subseteq 1..bTaken
  BY DEF IInv, TypeInv, TypeOK
<1>1. \/ UNCHANGED batches
      \/ \E b \in Batch : batches' = Append(batches, b)
  BY LogGrows DEF IInv
<1>2. \A i \in 1..Len(batches) : batches'[i] = batches[i]
  BY <1>t, <1>1, AppendBatch
<1>3. acked \subseteq acked' /\ accepted \subseteq accepted'
  BY DEF Next, RejectNilProvider, Start, CancelParent, WaitReturn, Returned, vars, wvars,
     Reader, OpenQuerier, NextSeries, SendSeries, ReaderExit, readerFrame,
     Batcher, RecvSeries, FlushFull, AppendSeries, SplitSeries, OpenWindow, HalveWindow,
     SendChunk, FlushLast, BatcherExit, batcherFrame,
     Writer, TakeBatch, BatchSent, BatchFailed, WriterExit
<1>4. ASSUME NEW i \in acked \cup accepted
      PROVE  i \in (acked \cup accepted)' /\ batches'[i] = batches[i]
  BY <1>t, <1>2, <1>3
<1> QED
  BY <1>4 DEF SamplesOf

\* The reader-batcher-writer pipeline implements the abstract transfer:
\* delivered samples are never taken back, the outcome is final, and success
\* means that all samples were delivered.
THEOREM Refinement == Spec => ImplementsTransfer
<1> DEFINE D == SamplesOf(acked \cup accepted)
           O == IF phase # "returned" THEN "running" ELSE IF gerr THEN "failed" ELSE "ok"
<1>1. Init => Abstract!TransferInit
  BY DEF Init, Abstract!TransferInit, SamplesOf
<1>2. IInv /\ IInv' /\ [Next]_vars => [Abstract!TransferNext]_(Abstract!tvars)
  <2> SUFFICES ASSUME IInv, IInv', [Next]_vars
               PROVE  [Abstract!TransferNext]_(Abstract!tvars)
    OBVIOUS
  <2>t. TypeOK /\ TypeOK'
    BY DEF IInv, TypeInv
  <2>1. D \subseteq D' /\ D' \subseteq AllSamples
    <3>1. DeliveredOK'
      BY DeliveredFromInv, PTL
    <3> QED
      BY <3>1, DeliveredGrows DEF DeliveredOK, AllSamples
  <2>2. CASE phase = "returned"
    <3>1. (Idle \/ Gone) /\ phase # "running"
      BY <2>2 DEF IInv, IdleInv
    <3>2. RejectNilProvider \/ Start \/ UNCHANGED vars
      BY <2>t, <3>1, IdleStops
    <3>3. UNCHANGED vars
      BY <2>2, <3>2 DEF RejectNilProvider, Start
    <3> QED
      BY <3>3 DEF vars, wvars, Abstract!tvars, SamplesOf
  <2>3. CASE phase # "returned" /\ phase' # "returned"
    BY <2>1, <2>3 DEF Abstract!TransferNext, Abstract!Deliver
  <2>4. CASE phase # "returned" /\ phase' = "returned"
    <3>1. UNCHANGED <<batches, acked, accepted>>
      BY <2>4 DEF Next, RejectNilProvider, Start, CancelParent, WaitReturn, Returned, vars, wvars,
         Reader, OpenQuerier, NextSeries, SendSeries, ReaderExit, readerFrame,
         Batcher, RecvSeries, FlushFull, AppendSeries, SplitSeries, OpenWindow, HalveWindow,
         SendChunk, FlushLast, BatcherExit, batcherFrame,
         Writer, TakeBatch, BatchSent, BatchFailed, WriterExit, writerFrame
    <3>2. D' = D
      BY <3>1 DEF SamplesOf
    <3>3. CASE gerr'
      BY <2>4, <3>2, <3>3 DEF Abstract!TransferNext, Abstract!Fail
    <3>4. CASE ~gerr'
      <4>1. SuccessIsComplete'
        BY SuccessFromInv, PTL
      <4>2. D' = AllSamples
        BY <2>1, <2>4, <3>4, <4>1 DEF SuccessIsComplete, SamplesOf
      <4> QED
        BY <2>4, <3>2, <3>4, <4>2 DEF Abstract!TransferNext, Abstract!Succeed
    <3> QED
      BY <3>3, <3>4
  <2> QED
    BY <2>2, <2>3, <2>4
<1> QED
  BY <1>1, <1>2, Invariance, PTL DEF Spec, ImplementsTransfer, Abstract!TransferSpec
============================================================================
