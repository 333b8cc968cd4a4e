----------------------- MODULE PipelineProgressProofs -----------------------
(***************************************************************************)
(* Why Run returns, for every number of series, samples and writers: its   *)
(* goroutines never all wait (NoCircularWait), every step leaves less work *)
(* (EveryStepCounts), and work cannot shrink for ever (NoEndlessDescent).  *)
(* What is left to TLC is that a fair scheduler takes the enabled steps.   *)
(***************************************************************************)
EXTENDS PipelineStatsProofs

----------------------------------------------------------------------------
(* No circular wait.                                                       *)

\* The errgroup cancels gctx with its first error; only the refusal of a nil
\* Provider is an error without goroutines to cancel.
CancelInv == gerr /\ phase # "returned" => gctx

\* Every step that records an error while goroutines run cancels them.
LEMMA StepCancel == TypeInv /\ CancelInv /\ [Next]_vars => CancelInv'
<1> SUFFICES ASSUME TypeInv, CancelInv, [Next]_vars PROVE CancelInv'
  OBVIOUS
<1>1. CASE RejectNilProvider \/ WaitReturn
  BY <1>1 DEF CancelInv, RejectNilProvider, WaitReturn
<1>2. CASE UNCHANGED <<phase, gctx, gerr>>
  BY <1>2 DEF CancelInv
<1>3. CASE Start \/ CancelParent
  BY <1>3, Zenon DEF CancelInv, Start, CancelParent
<1>4. CASE ReaderExit \/ BatcherExit
  BY <1>4, Zenon DEF CancelInv, ReaderExit, BatcherExit, readerFrame, batcherFrame
<1>5. ASSUME NEW w \in Writers, BatchFailed(w) PROVE CancelInv'
  BY <1>5 DEF CancelInv, BatchFailed
<1>6. CASE Returned \/ UNCHANGED vars \/ OpenQuerier \/ NextSeries \/ SendSeries
  BY <1>2, <1>6 DEF Returned, vars, OpenQuerier, NextSeries, SendSeries, readerFrame
<1>7. CASE \/ RecvSeries \/ FlushFull \/ AppendSeries \/ SplitSeries \/ OpenWindow \/ HalveWindow
           \/ SendChunk \/ FlushLast
  BY <1>2, <1>7 DEF RecvSeries, FlushFull, AppendSeries, SplitSeries, OpenWindow, HalveWindow,
     SendChunk, FlushLast, Flush, FlushCancelled, batcherFrame
<1>8. ASSUME NEW w \in Writers, TakeBatch(w) \/ BatchSent(w) \/ WriterExit(w) PROVE CancelInv'
  BY <1>2, <1>8 DEF TakeBatch, BatchSent, WriterExit, writerFrame
<1> QED
  BY <1>1, <1>3, <1>4, <1>5, <1>6, <1>7, <1>8 DEF Next, Reader, Batcher, Writer

\* A writer waits only for the batcher, the batcher with room only for the
\* reader, the reader only for the batcher; and who has left with work undone
\* has cancelled gctx, on which nobody waits.
LEMMA WaitFromInv == IInv /\ CancelInv => NoCircularWait
<1> SUFFICES ASSUME IInv, CancelInv, phase = "running",
                    rpc = "done" \/ ReaderWaits, bpc = "done" \/ BatcherWaits,
                    \A w \in Writers : wpc[w] \in {"recv", "send"} => WriterWaits(w)
             PROVE  /\ rpc = "done" /\ bpc = "done"
                    /\ \A w \in Writers : wpc[w] \in {"done", "failed"}
  BY Zenon DEF NoCircularWait
<1>t. /\ nSent \in Nat /\ nTaken \in Nat /\ bTaken \in Nat /\ Len(batches) \in Nat
      /\ SeriesBuf \in Nat /\ SeriesBuf > 0 /\ BatchBuf \in Nat /\ BatchBuf > 0
      /\ wpc \in [Writers -> {"recv", "send", "failed", "done"}] /\ 1 \in Writers
  BY ConfigType, PipelineAssumption DEF IInv, TypeInv, TypeOK, PipelineAssumption, Writers
<1>e. ReaderEnd /\ BatcherEnd /\ WriterEnd
  BY DEF IInv, EndInv
<1>g. gerr => gctx
  BY DEF CancelInv
<1>1. ASSUME gctx PROVE rpc = "done" /\ bpc = "done"
  <2>1. rpc = "done"
    BY <1>1 DEF ReaderWaits
  <2>2. ~BatcherWaits
    BY <1>1, <2>1 DEF BatcherWaits, SeriesChClosed
  <2> QED
    BY <2>1, <2>2
<1>2. ASSUME bpc = "done" PROVE rpc = "done"
  <2>1. CASE berr
    BY <1>1, <1>2, <1>e, <1>g, <2>1 DEF BatcherEnd
  <2>2. CASE ~berr
    BY <1>2, <1>e, <2>2 DEF BatcherEnd, BatchChClosed, SeriesChClosed, ReaderWaits
  <2> QED
    BY <2>1, <2>2
<1>3. ASSUME NEW w \in Writers, WriterWaits(w) PROVE FALSE
  <2>1. bTaken = Len(batches) /\ BatcherWaits
    BY <1>3 DEF WriterWaits, BatchChClosed
  <2>2. ~(Len(batches) - bTaken >= BatchBuf)
    BY <1>t, <2>1
  <2>3. nTaken = nSent /\ ~SeriesChClosed
    BY <2>1, <2>2 DEF BatcherWaits
  <2>4. nSent - nTaken >= SeriesBuf
    BY <2>3 DEF SeriesChClosed, ReaderWaits
  <2> QED
    BY <1>t, <2>3, <2>4
<1>4. \A w \in Writers : wpc[w] \in {"done", "failed"}
  BY <1>t, <1>3
<1>5. bpc = "done"
  <2>1. CASE wpc[1] = "failed"
    BY <1>1, <1>e, <1>g, <1>t, <2>1 DEF WriterEnd
  <2>2. CASE wpc[1] = "done"
    <3>1. BatchChClosed
      BY <1>e, <1>t, <2>2 DEF WriterEnd
    <3> QED
      BY <3>1 DEF BatchChClosed, BatcherWaits, Flushing
  <2> QED
    BY <1>t, <1>4, <2>1, <2>2
<1> QED
  BY <1>2, <1>4, <1>5

\* Whatever fails or is cancelled, the reader, the batcher and the writers
\* are never all blocked on a channel before all of them have returned.
THEOREM NoCircularWaitHolds == Spec => []NoCircularWait
<1>1. Init => CancelInv
  BY DEF Init, CancelInv
<1>2. IInv /\ CancelInv /\ [Next]_vars => CancelInv'
  BY StepCancel DEF IInv
<1> QED
  BY <1>1, <1>2, WaitFromInv, Invariance, PTL DEF Spec

----------------------------------------------------------------------------
(* Every step counts.                                                      *)

\* A step that leaves less of one part and no more of those before it counts.
LEMMA Counts ==
  ASSUME RunLeft' <= RunLeft, CancelLeft' <= CancelLeft,
         \/ RunLeft' < RunLeft
         \/ CancelLeft' < CancelLeft
         \/ ReaderLeft' < ReaderLeft
         \/ ReaderLeft' <= ReaderLeft /\ SeriesLeft' < SeriesLeft
         \/ ReaderLeft' <= ReaderLeft /\ SeriesLeft' <= SeriesLeft /\ StageLeft' < StageLeft
         \/ /\ ReaderLeft' <= ReaderLeft /\ SeriesLeft' <= SeriesLeft /\ StageLeft' <= StageLeft
            /\ \/ SplitLeft' < SplitLeft
               \/ SplitLeft' <= SplitLeft /\ OpenLeft' < OpenLeft
               \/ SplitLeft' <= SplitLeft /\ OpenLeft' <= OpenLeft /\ SizeLeft' < SizeLeft
         \/ /\ ReaderLeft' <= ReaderLeft /\ SeriesLeft' <= SeriesLeft /\ StageLeft' <= StageLeft
            /\ SplitLeft' <= SplitLeft /\ OpenLeft' <= OpenLeft /\ SizeLeft' <= SizeLeft
            /\ \/ (Len(batches) - bTaken)' < Len(batches) - bTaken
               \/ /\ (Len(batches) - bTaken)' <= Len(batches) - bTaken
                  /\ \/ Cardinality(WritersAt("send"))' < Cardinality(WritersAt("send"))
                     \/ /\ Cardinality(WritersAt("send"))' <= Cardinality(WritersAt("send"))
                        /\ Cardinality(WritersAt("recv"))' < Cardinality(WritersAt("recv"))
  PROVE  LexLess(WorkLeft', WorkLeft)
<1>1. PICK b : b = WorkLeft
  OBVIOUS
<1>2. PICK a : a = WorkLeft'
  OBVIOUS
<1>3. /\ DOMAIN b = 1..11
      /\ b[1] = RunLeft /\ b[2] = CancelLeft /\ b[3] = ReaderLeft /\ b[4] = SeriesLeft /\ b[5] = StageLeft
      /\ b[6] = SplitLeft /\ b[7] = OpenLeft /\ b[8] = SizeLeft /\ b[9] = Len(batches) - bTaken
      /\ b[10] = Cardinality(WritersAt("send")) /\ b[11] = Cardinality(WritersAt("recv"))
  BY <1>1 DEF WorkLeft
<1>4. /\ a[1] = RunLeft' /\ a[2] = CancelLeft' /\ a[3] = ReaderLeft' /\ a[4] = SeriesLeft' /\ a[5] = StageLeft'
      /\ a[6] = SplitLeft' /\ a[7] = OpenLeft' /\ a[8] = SizeLeft' /\ a[9] = (Len(batches) - bTaken)'
      /\ a[10] = Cardinality(WritersAt("send"))' /\ a[11] = Cardinality(WritersAt("recv"))'
  BY <1>2 DEF WorkLeft
<1>5. \E k \in 1..11 : a[k] < b[k] /\ \A j \in 1..(k - 1) : a[j] <= b[j]
  BY <1>3, <1>4
<1> QED
  BY <1>1, <1>2, <1>3, <1>5 DEF LexLess

\* The parts of WorkLeft are natural numbers: no cursor passes its end.
LEMMA WorkType ==
  ASSUME TypeInv
  PROVE  /\ RunLeft \in Nat /\ CancelLeft \in Nat /\ ReaderLeft \in Nat /\ SeriesLeft \in Nat
         /\ StageLeft \in Nat /\ SplitLeft \in Nat /\ OpenLeft \in Nat /\ SizeLeft \in Nat
         /\ Len(batches) - bTaken \in Nat
         /\ \A pc : IsFiniteSet(WritersAt(pc)) /\ Cardinality(WritersAt(pc)) \in Nat
<1>t. /\ TypeOK /\ CursorInv /\ NSeries \in Nat /\ NSamples \in [SeriesId -> Nat]
      /\ nSent \in 0..NSeries /\ nTaken \in 0..nSent /\ offset \in Nat /\ end \in Nat
      /\ Len(batches) \in Nat /\ bTaken \in 0..Len(batches)
  BY PipelineAssumption DEF TypeInv, TypeOK, PipelineAssumption
<1>1. RunLeft \in Nat /\ CancelLeft \in Nat /\ StageLeft \in Nat /\ OpenLeft \in Nat
  BY DEF RunLeft, CancelLeft, StageLeft, OpenLeft
<1>2. ReaderLeft \in Nat /\ SeriesLeft \in Nat /\ Len(batches) - bTaken \in Nat
  BY <1>t DEF ReaderLeft, SeriesLeft
<1>3. bpc \in {"window", "chunk"} => nTaken \in SeriesId
  BY <1>t DEF CursorInv, SeriesId
<1>4. SplitLeft \in Nat /\ SizeLeft \in Nat
  BY <1>t, <1>3 DEF SplitLeft, SizeLeft, CursorInv
<1>5. ASSUME NEW pc PROVE IsFiniteSet(WritersAt(pc)) /\ Cardinality(WritersAt(pc)) \in Nat
  <2>1. IsFiniteSet(Writers)
    BY ConfigType, FS_Interval DEF Writers
  <2>2. WritersAt(pc) \in SUBSET Writers
    BY DEF WritersAt
  <2> QED
    BY <2>1, <2>2, FS_Subset, FS_CardinalityType
<1> QED
  BY <1>1, <1>2, <1>4, <1>5

\* Cancellation is never taken back.
LEMMA CancelKept == TypeInv /\ (gctx => gctx') => CancelLeft' <= CancelLeft
BY DEF CancelLeft

\* Run's own steps, and the end of the caller's context.
LEMMA RunCounts ==
  ASSUME TypeInv, RejectNilProvider \/ Start \/ CancelParent \/ WaitReturn
  PROVE  LexLess(WorkLeft', WorkLeft)
<1>1. CASE CancelParent
  <2>1. RunLeft' <= RunLeft /\ CancelLeft' < CancelLeft /\ CancelLeft' <= CancelLeft
    BY <1>1 DEF CancelParent, RunLeft, CancelLeft
  <2> QED
    BY <2>1, Counts
<1>2. CASE RejectNilProvider \/ Start \/ WaitReturn
  <2>1. RunLeft' < RunLeft /\ RunLeft' <= RunLeft
    BY <1>2 DEF RejectNilProvider, Start, WaitReturn, RunLeft
  <2>2. CancelLeft' <= CancelLeft
    BY <1>2 DEF RejectNilProvider, Start, WaitReturn, CancelLeft
  <2> QED
    BY <2>1, <2>2, Counts
<1> QED
  BY <1>1, <1>2

\* The reader: each series is looked for once and sent once.
LEMMA ReaderCounts ==
  ASSUME TypeInv, Reader
  PROVE  LexLess(WorkLeft', WorkLeft)
<1>t. NSeries \in Nat /\ nSent \in Nat /\ gctx \in BOOLEAN
  BY PipelineAssumption DEF TypeInv, TypeOK, PipelineAssumption
<1>1. RunLeft' <= RunLeft
  <2>1. phase' = phase
    BY DEF Reader, OpenQuerier, NextSeries, SendSeries, ReaderExit, readerFrame
  <2> QED
    BY <2>1, WorkType DEF RunLeft
<1>2. CancelLeft' <= CancelLeft
  <2>1. gctx => gctx'
    BY Zenon DEF Reader, OpenQuerier, NextSeries, SendSeries, ReaderExit
  <2> QED
    BY <2>1, CancelKept
<1>3. ReaderLeft' < ReaderLeft
  <2>1. \/ rpc = "query" /\ rpc' \in {"next", "closed"} /\ nSent' = nSent
        \/ rpc = "next" /\ rpc' \in {"send", "closed"} /\ nSent' = nSent
        \/ rpc = "send" /\ rpc' = "next" /\ nSent' = nSent + 1
        \/ rpc = "send" /\ rpc' = "closed" /\ nSent' = nSent
        \/ rpc = "closed" /\ rpc' = "done" /\ nSent' = nSent
    BY DEF Reader, OpenQuerier, NextSeries, SendSeries, ReaderExit, ReaderReturns
  <2> QED
    BY <1>t, <2>1 DEF ReaderLeft
<1> QED
  BY <1>1, <1>2, <1>3, Counts

\* The batcher: a series is taken once, flushing empties the batch, and while
\* a series is split each window sent is shorter than what was left.
LEMMA BatcherCounts ==
  ASSUME TypeInv, Batcher
  PROVE  LexLess(WorkLeft', WorkLeft)
<1>t. /\ CursorInv /\ NSeries \in Nat /\ NSamples \in [SeriesId -> Nat] /\ nTaken \in Nat
      /\ offset \in Nat /\ end \in Nat /\ gctx \in BOOLEAN
  BY PipelineAssumption DEF TypeInv, TypeOK, PipelineAssumption
<1>s. bpc \in {"window", "chunk"} => nTaken \in SeriesId /\ NSamples[nTaken] \in Nat
  BY PipelineAssumption DEF TypeInv, TypeOK, CursorInv, SeriesId, PipelineAssumption
<1>1. RunLeft' <= RunLeft /\ ReaderLeft' <= ReaderLeft
  <2>1. UNCHANGED <<phase, rpc, nSent>>
    BY DEF Batcher, RecvSeries, FlushFull, AppendSeries, SplitSeries, OpenWindow, HalveWindow,
       SendChunk, FlushLast, BatcherExit, batcherFrame, rvars
  <2> QED
    BY <2>1, WorkType DEF RunLeft, ReaderLeft
<1>2. CancelLeft' <= CancelLeft
  <2>1. gctx => gctx'
    BY Zenon DEF Batcher, RecvSeries, FlushFull, AppendSeries, SplitSeries, OpenWindow, HalveWindow,
       SendChunk, FlushLast, BatcherExit, Flush, FlushCancelled
  <2> QED
    BY <2>1, CancelKept
<1>3. CASE RecvSeries
  <2>1. SeriesLeft' < SeriesLeft
    BY <1>3, <1>t DEF RecvSeries, SeriesLeft
  <2> QED
    BY <1>1, <1>2, <2>1, Counts
<1>4. CASE nTaken' = nTaken /\ StageLeft' < StageLeft
  <2>1. SeriesLeft' <= SeriesLeft
    BY <1>4, <1>t DEF SeriesLeft
  <2> QED
    BY <1>1, <1>2, <1>4, <2>1, Counts
<1>5. CASE FlushCancelled /\ bpc \in {"place", "chunk", "recv"}
  BY <1>4, <1>5 DEF FlushCancelled, StageLeft
<1>6. CASE AppendSeries \/ SplitSeries \/ BatcherExit
  BY <1>4, <1>6 DEF AppendSeries, SplitSeries, BatcherExit, StageLeft
<1>7. CASE FlushFull
  <2>1. CASE FlushCancelled
    BY <1>5, <1>7, <2>1 DEF FlushFull
  <2>2. CASE /\ batch.items # {} /\ bpc = "place" /\ batch' = EmptyBatch
             /\ UNCHANGED <<bpc, nTaken, offset, end>>
    <3>1. /\ SeriesLeft' <= SeriesLeft /\ StageLeft' <= StageLeft /\ SplitLeft' <= SplitLeft
          /\ OpenLeft' <= OpenLeft
      BY <1>t, <2>2 DEF SeriesLeft, StageLeft, SplitLeft, OpenLeft
    <3>2. SizeLeft' < SizeLeft
      BY <2>2 DEF SizeLeft, EmptyBatch
    <3> QED
      BY <1>1, <1>2, <3>1, <3>2, Counts
  <2> QED
    BY <1>7, <2>1, <2>2 DEF FlushFull, MustFlush
<1>8. CASE OpenWindow
  <2>1. /\ SeriesLeft' <= SeriesLeft /\ StageLeft' <= StageLeft /\ SplitLeft' <= SplitLeft
        /\ OpenLeft' < OpenLeft
    BY <1>8, <1>s, <1>t DEF OpenWindow, SeriesLeft, StageLeft, SplitLeft, OpenLeft
  <2> QED
    BY <1>1, <1>2, <2>1, Counts
<1>9. CASE HalveWindow
  <2>1. /\ SeriesLeft' <= SeriesLeft /\ StageLeft' <= StageLeft /\ SplitLeft' <= SplitLeft
        /\ OpenLeft' <= OpenLeft
    BY <1>9, <1>s, <1>t DEF HalveWindow, SeriesLeft, StageLeft, SplitLeft, OpenLeft
  <2>2. SizeLeft' < SizeLeft
    <3>1. /\ end - offset > 1 /\ end' = offset + (end - offset) \div 2 /\ offset' = offset
          /\ bpc = "chunk" /\ bpc' = "chunk"
      BY <1>9 DEF HalveWindow, WindowTooBig
    <3>2. end' - offset < end - offset
      BY <1>t, <3>1
    <3> QED
      BY <3>1, <3>2 DEF SizeLeft
  <2> QED
    BY <1>1, <1>2, <2>1, <2>2, Counts
<1>10. CASE SendChunk
  <2>1. CASE FlushCancelled
    BY <1>5, <1>10, <2>1 DEF SendChunk
  <2>2. CASE bpc = "chunk" /\ nTaken' = nTaken /\ bpc' = "recv"
    BY <1>4, <2>2 DEF StageLeft
  <2>3. CASE bpc = "chunk" /\ nTaken' = nTaken /\ bpc' = "window" /\ offset' = end
    <3>1. SeriesLeft' <= SeriesLeft /\ StageLeft' <= StageLeft
      BY <1>t, <2>3 DEF SeriesLeft, StageLeft
    <3>2. SplitLeft' < SplitLeft
      BY <1>s, <1>t, <2>3 DEF SplitLeft, CursorInv
    <3> QED
      BY <1>1, <1>2, <3>1, <3>2, Counts
  <2> QED
    BY <1>10, <2>1, <2>2, <2>3 DEF SendChunk
<1>11. CASE FlushLast
  <2>1. CASE FlushCancelled
    BY <1>5, <1>11, <2>1 DEF FlushLast
  <2>2. CASE bpc = "recv" /\ bpc' = "closed" /\ nTaken' = nTaken
    BY <1>4, <2>2 DEF StageLeft
  <2> QED
    BY <1>11, <2>1, <2>2 DEF FlushLast
<1> QED
  BY <1>3, <1>6, <1>7, <1>8, <1>9, <1>10, <1>11 DEF Batcher

\* A writer: a batch is taken once and sent once, and a writer leaves once.
LEMMA WriterCounts ==
  ASSUME TypeInv, NEW w \in Writers, Writer(w)
  PROVE  LexLess(WorkLeft', WorkLeft)
<1>t. /\ wpc \in [Writers -> {"recv", "send", "failed", "done"}] /\ gctx \in BOOLEAN
      /\ bTaken \in Nat /\ Len(batches) \in Nat
      /\ \A pc : IsFiniteSet(WritersAt(pc)) /\ Cardinality(WritersAt(pc)) \in Nat
  <2>1. /\ wpc \in [Writers -> {"recv", "send", "failed", "done"}] /\ gctx \in BOOLEAN
        /\ bTaken \in Nat /\ Len(batches) \in Nat
    BY DEF TypeInv, TypeOK
  <2> QED
    BY <2>1, WorkType
<1>1. /\ UNCHANGED <<phase, rpc, nSent, nTaken, bpc, batch, offset, end, batches>>
  BY DEF Writer, TakeBatch, BatchSent, BatchFailed, WriterExit, writerFrame, rvars, bvars
<1>2. /\ RunLeft' <= RunLeft /\ ReaderLeft' <= ReaderLeft /\ SeriesLeft' <= SeriesLeft
      /\ StageLeft' <= StageLeft /\ SplitLeft' <= SplitLeft /\ OpenLeft' <= OpenLeft /\ SizeLeft' <= SizeLeft
  <2>1. /\ RunLeft' = RunLeft /\ ReaderLeft' = ReaderLeft /\ SeriesLeft' = SeriesLeft
        /\ StageLeft' = StageLeft /\ SplitLeft' = SplitLeft /\ OpenLeft' = OpenLeft /\ SizeLeft' = SizeLeft
    BY <1>1, Zenon DEF RunLeft, ReaderLeft, SeriesLeft, StageLeft, SplitLeft, OpenLeft, SizeLeft
  <2> QED
    BY <2>1, WorkType
<1>3. CancelLeft' <= CancelLeft
  <2>1. gctx => gctx'
    BY Zenon DEF Writer, TakeBatch, BatchSent, BatchFailed, WriterExit
  <2> QED
    BY <2>1, CancelKept
<1>4. CASE TakeBatch(w)
  <2>1. (Len(batches) - bTaken)' < Len(batches) - bTaken
    BY <1>1, <1>4, <1>t DEF TakeBatch
  <2> QED
    BY <1>2, <1>3, <2>1, Counts
<1>5. CASE \E pc \in {"recv", "failed"} : wpc[w] = "send" /\ wpc' = [wpc EXCEPT ![w] = pc] /\ bTaken' = bTaken
  <2>1. WritersAt("send")' = WritersAt("send") \ {w} /\ w \in WritersAt("send")
    BY <1>5, <1>t DEF WritersAt
  <2>2. Cardinality(WritersAt("send") \ {w}) = Cardinality(WritersAt("send")) - 1
    BY <1>t, <2>1, FS_RemoveElement
  <2>3. Cardinality(WritersAt("send"))' < Cardinality(WritersAt("send"))
    <3>1. Cardinality(WritersAt("send"))' = Cardinality(WritersAt("send")) - 1
      BY <2>1, <2>2, Zenon
    <3>2. Cardinality(WritersAt("send")) \in Nat
      BY <1>t
    <3> QED
      BY <3>1, <3>2
  <2>4. (Len(batches) - bTaken)' <= Len(batches) - bTaken
    BY <1>1, <1>5, <1>t
  <2> QED
    BY <1>2, <1>3, <2>3, <2>4, Counts
<1>6. CASE BatchSent(w) \/ BatchFailed(w)
  BY <1>5, <1>6 DEF BatchSent, BatchFailed
<1>7. CASE WriterExit(w)
  <2>1. wpc[w] = "recv" /\ wpc' = [wpc EXCEPT ![w] = "done"] /\ bTaken' = bTaken
    BY <1>7 DEF WriterExit
  <2>2. /\ WritersAt("send")' = WritersAt("send")
        /\ WritersAt("recv")' = WritersAt("recv") \ {w} /\ w \in WritersAt("recv")
    BY <1>t, <2>1 DEF WritersAt
  <2>3. Cardinality(WritersAt("recv") \ {w}) = Cardinality(WritersAt("recv")) - 1
    BY <1>t, <2>2, FS_RemoveElement
  <2>4. /\ Cardinality(WritersAt("recv"))' < Cardinality(WritersAt("recv"))
        /\ Cardinality(WritersAt("send"))' <= Cardinality(WritersAt("send"))
    <3>1. /\ Cardinality(WritersAt("recv"))' = Cardinality(WritersAt("recv")) - 1
          /\ Cardinality(WritersAt("send"))' = Cardinality(WritersAt("send"))
      BY <2>2, <2>3, Zenon
    <3>2. Cardinality(WritersAt("recv")) \in Nat /\ Cardinality(WritersAt("send")) \in Nat
      BY <1>t
    <3> QED
      BY <3>1, <3>2
  <2>5. (Len(batches) - bTaken)' <= Len(batches) - bTaken
    BY <1>1, <1>t, <2>1
  <2> QED
    BY <1>2, <1>3, <2>4, <2>5, Counts
<1> QED
  BY <1>4, <1>6, <1>7 DEF Writer

\* Whatever the sizes, failures and cancellations, every step of a run leaves
\* less work: no loop over windows, series or batches repeats itself.
THEOREM EveryStepCountsHolds == Spec => EveryStepCounts
<1>1. TypeInv /\ [Next]_vars => [LexLess(WorkLeft', WorkLeft)]_vars
  <2> SUFFICES ASSUME TypeInv, [Next]_vars, ~UNCHANGED vars PROVE LexLess(WorkLeft', WorkLeft)
    OBVIOUS
  <2> QED
    BY RunCounts, ReaderCounts, BatcherCounts, WriterCounts, Zenon DEF Next, Returned
<1> QED
  BY <1>1, TypeCorrect, PTL DEF Spec, EveryStepCounts

----------------------------------------------------------------------------
(* Work cannot shrink for ever.                                            *)

Work == [1..11 -> Nat]
LessWork == {p \in Work \X Work : LexLess(p[1], p[2])}

\* Induction on the natural numbers, for a set instead of a predicate.
LEMMA SetInduction ==
  ASSUME NEW T, 0 \in T, \A k \in Nat : k \in T => k + 1 \in T
  PROVE  \A k \in Nat : k \in T
<1> DEFINE C == {k \in Nat : k \notin T}
<1>1. SUFFICES ASSUME C # {} PROVE FALSE
  OBVIOUS
<1>2. PICK m \in C : \A k \in C : m <= k
  <2>1. C \in SUBSET Nat
    OBVIOUS
  <2> HIDE DEF C
  <2> QED
    BY <1>1, <2>1, LeastNumber
<1>3. m # 0 /\ m \in Nat /\ m \notin T
  OBVIOUS
<1>4. m - 1 \in Nat /\ (m - 1) + 1 = m /\ ~(m <= m - 1)
  BY <1>3
<1>5. m - 1 \in T
  BY <1>2, <1>4
<1> QED
  BY <1>3, <1>4, <1>5

\* A sequence of natural numbers that never grows stops changing.
LEMMA SettlesDown ==
  ASSUME NEW g \in [Nat -> Nat], NEW N \in Nat,
         \A i \in Nat : i >= N => g[i + 1] <= g[i]
  PROVE  \E M \in Nat : M >= N /\ \A i \in Nat : i >= M => g[i] = g[M]
<1> DEFINE C == {c \in Nat : \E i \in Nat : i >= N /\ g[i] = c}
<1>1. PICK m \in C : \A c \in C : m <= c
  <2>1. C \in SUBSET Nat /\ g[N] \in C
    OBVIOUS
  <2> HIDE DEF C
  <2> QED
    BY <2>1, LeastNumber
<1>2. PICK M \in Nat : M >= N /\ g[M] = m
  OBVIOUS
<1> DEFINE T == {d \in Nat : g[M + d] <= m}
<1>3. \A d \in Nat : d \in T
  <2>1. 0 \in T
    BY <1>2
  <2>2. ASSUME NEW d \in Nat, d \in T PROVE d + 1 \in T
    <3>1. M + d \in Nat /\ M + d >= N /\ (M + d) + 1 = M + (d + 1) /\ M + (d + 1) \in Nat
      BY <1>2
    <3>2. g[M + d] \in Nat /\ g[M + (d + 1)] \in Nat /\ m \in Nat
      BY <3>1
    <3>3. g[M + (d + 1)] <= g[M + d] /\ g[M + d] <= m
      BY <2>2, <3>1
    <3> QED
      BY <3>2, <3>3
  <2> HIDE DEF T
  <2> QED
    BY <2>1, <2>2, SetInduction
<1>4. ASSUME NEW i \in Nat, i >= M PROVE g[i] = g[M]
  <2>1. i - M \in Nat /\ M + (i - M) = i /\ i >= N
    BY <1>2, <1>4
  <2>2. g[i] <= m
    BY <1>3, <2>1
  <2>3. m <= g[i]
    BY <1>1, <2>1
  <2> QED
    BY <1>2, <2>2, <2>3
<1> QED
  BY <1>2, <1>4

\* There is no endless sequence of amounts of work, each less than the one
\* before: one after the other, from the most significant on, the parts stop
\* changing.  With EveryStepCounts, a run takes finitely many steps.
THEOREM WorkWellFounded == IsWellFoundedOn(LessWork, Work)
<1>1. SUFFICES ASSUME NEW f \in [Nat -> Work], \A n \in Nat : <<f[n + 1], f[n]>> \in LessWork
               PROVE  FALSE
  BY Zenon DEF IsWellFoundedOn
<1>2. ASSUME NEW n \in Nat
      PROVE  \E k \in 1..11 : f[n + 1][k] < f[n][k] /\ \A j \in 1..(k - 1) : f[n + 1][j] <= f[n][j]
  <2>1. LexLess(f[n + 1], f[n]) /\ f[n] \in Work
    BY <1>1 DEF LessWork
  <2> QED
    BY <2>1 DEF LexLess, Work
<1>3. \A n \in Nat : \A j \in 1..11 : f[n][j] \in Nat
  BY DEF Work
<1> DEFINE Settled(k, N) == \A i \in Nat : i >= N => \A j \in 1..k : f[i][j] = f[N][j]
           T == {k \in Nat : k <= 11 => \E N \in Nat : Settled(k, N)}
<1>4. \A k \in Nat : k \in T
  <2>1. 0 \in T
    OBVIOUS
  <2>2. ASSUME NEW k \in Nat, k \in T PROVE k + 1 \in T
    <3> SUFFICES ASSUME k + 1 <= 11 PROVE \E N \in Nat : Settled(k + 1, N)
      OBVIOUS
    <3>0. k <= 11 /\ k + 1 \in 1..11
      OBVIOUS
    <3>1. PICK N \in Nat : Settled(k, N)
      BY <2>2, <3>0
    <3> DEFINE g == [i \in Nat |-> f[i][k + 1]]
    <3>2. g \in [Nat -> Nat]
      BY <1>3, <3>0
    <3>3. ASSUME NEW i \in Nat, i >= N PROVE g[i + 1] <= g[i]
      <4>1. i + 1 \in Nat /\ i + 1 >= N
        BY <3>3
      <4>2. PICK p \in 1..11 : f[i + 1][p] < f[i][p] /\ \A j \in 1..(p - 1) : f[i + 1][j] <= f[i][j]
        BY <1>2
      <4>3. \A j \in 1..k : f[i + 1][j] = f[i][j]
        BY <3>1, <3>3, <4>1
      <4>4. f[i + 1][p] \in Nat /\ f[i][p] \in Nat /\ f[i + 1][k + 1] \in Nat /\ f[i][k + 1] \in Nat
        BY <1>3, <3>0, <4>1
      <4>5. p \notin 1..k
        BY <4>2, <4>3, <4>4
      <4>6. p = k + 1 \/ k + 1 \in 1..(p - 1)
        BY <4>5
      <4>7. f[i + 1][k + 1] <= f[i][k + 1]
        BY <4>2, <4>4, <4>6
      <4> QED
        BY <4>1, <4>7
    <3>4. PICK M \in Nat : M >= N /\ \A i \in Nat : i >= M => g[i] = g[M]
      <4> HIDE DEF g
      <4> QED
        BY <3>2, <3>3, SettlesDown
    <3>5. ASSUME NEW i \in Nat, i >= M, NEW j \in 1..(k + 1) PROVE f[i][j] = f[M][j]
      <4>1. CASE j \in 1..k
        <5>1. f[i][j] = f[N][j] /\ f[M][j] = f[N][j]
          BY <3>1, <3>4, <3>5, <4>1
        <5> QED
          BY <5>1
      <4>2. CASE j = k + 1
        BY <3>4, <3>5, <4>2
      <4> QED
        BY <4>1, <4>2
    <3> QED
      BY <3>5
  <2> HIDE DEF T
  <2> QED
    BY <2>1, <2>2, SetInduction
<1>5. PICK N \in Nat : Settled(11, N)
  <2>1. 11 \in Nat /\ 11 <= 11
    OBVIOUS
  <2>2. 11 \in T
    <3> HIDE DEF T
    <3> QED
      BY <1>4, <2>1
  <2> HIDE DEF Settled
  <2> QED
    BY <2>1, <2>2, Zenon
<1>6. PICK k \in 1..11 : f[N + 1][k] < f[N][k]
  BY <1>2
<1>7. f[N + 1][k] = f[N][k] /\ f[N][k] \in Nat
  BY <1>3, <1>5
<1> QED
  BY <1>6, <1>7

\* The work left is such an amount in every reachable state, so the descent
\* of EveryStepCounts is one in a well-founded order.
THEOREM WorkIsCounted == Spec => [](WorkLeft \in Work)
<1>1. TypeInv => WorkLeft \in Work
  <2> SUFFICES ASSUME TypeInv PROVE WorkLeft \in Work
    OBVIOUS
  <2>1. PICK b : b = WorkLeft
    OBVIOUS
  <2>2. Cardinality(WritersAt("send")) \in Nat /\ Cardinality(WritersAt("recv")) \in Nat
    BY WorkType
  <2>3. /\ b[1] \in Nat /\ b[2] \in Nat /\ b[3] \in Nat /\ b[4] \in Nat /\ b[5] \in Nat /\ b[6] \in Nat
        /\ b[7] \in Nat /\ b[8] \in Nat /\ b[9] \in Nat /\ b[10] \in Nat /\ b[11] \in Nat
    <3>1. /\ b[1] = RunLeft /\ b[2] = CancelLeft /\ b[3] = ReaderLeft /\ b[4] = SeriesLeft
          /\ b[5] = StageLeft /\ b[6] = SplitLeft /\ b[7] = OpenLeft /\ b[8] = SizeLeft
          /\ b[9] = Len(batches) - bTaken
          /\ b[10] = Cardinality(WritersAt("send")) /\ b[11] = Cardinality(WritersAt("recv"))
      BY <2>1 DEF WorkLeft
    <3> QED
      BY <2>2, <3>1, WorkType
  <2>4. b = [i \in 1..11 |-> b[i]]
    BY <2>1 DEF WorkLeft
  <2>5. \A i \in 1..11 : b[i] \in Nat
    BY <2>3
  <2> QED
    BY <2>1, <2>4, <2>5 DEF Work
<1> QED
  BY <1>1, TypeCorrect, PTL
=============================================================================
