------------------------------ MODULE Pipeline ------------------------------
(***************************************************************************)
(* migration.Run: one tenant's trip from the TSDB to the remote-write      *)
(* endpoint.  One reader goroutine feeds seriesCh, one batcher goroutine   *)
(* packs series into byte-budgeted batches on batchCh, and a pool of       *)
(* writer goroutines POSTs them.  An errgroup records the first error and  *)
(* cancels the shared context gctx.                                        *)
(*                                                                         *)
(* Both channels are FIFO with one producer, so each is a pair of cursors: *)
(* seriesCh holds series nTaken+1..nSent, and batchCh holds the entries    *)
(* bTaken+1..Len(batches) of the log of every batch ever flushed.          *)
(***************************************************************************)
EXTENDS Integers, Sequences, FiniteSets, FiniteSetsExt

CONSTANTS
  NSeries,               \* series the querier selects for the tenant
  NSamples,              \* NSamples[s]: samples the reader collects from s
  LabelBytes,            \* LabelBytes[s]: encoded size of the labels of s
  CumBytes,              \* CumBytes[s][k]: encoded size of the first k samples
  CfgMaxBatchBytes,      \* PipelineConfig.MaxBatchBytes
  CfgWriterConcurrency,  \* PipelineConfig.WriterConcurrency
  DryRun,                \* PipelineConfig.DryRun
  SeriesBuf              \* capacity of seriesCh

SeriesId == 1..NSeries

ASSUME PipelineAssumption ==
  /\ NSeries \in Nat
  /\ NSamples \in [SeriesId -> Nat]
  /\ LabelBytes \in [SeriesId -> Nat]
  /\ \A s \in SeriesId : CumBytes[s] \in [0..NSamples[s] -> Nat]
  /\ \A s \in SeriesId : \A i, j \in 0..NSamples[s] :
        i < j => CumBytes[s][i] < CumBytes[s][j]
  /\ CfgMaxBatchBytes \in Int
  /\ CfgWriterConcurrency \in Int
  /\ DryRun \in BOOLEAN
  /\ SeriesBuf \in Nat \ {0}

\* The defaults Run substitutes for unset fields.
MaxBatchBytes == IF CfgMaxBatchBytes <= 0 THEN 3 * 1024 * 1024 ELSE CfgMaxBatchBytes
WriterConcurrency == IF CfgWriterConcurrency <= 0 THEN 4 ELSE CfgWriterConcurrency

Writers == 1..WriterConcurrency
BatchBuf == WriterConcurrency * 2

VARIABLES
  phase,     \* Run itself: "init", "running", "returned"
  gctx,      \* TRUE once gctx is cancelled, by the caller or by the errgroup
  gerr,      \* TRUE once the errgroup holds an error, which Run returns
  rpc, rerr, \* reader: control point, whether Read returned an error
  bpc, berr, \* batcher: the same
  wpc, wb,   \* writers: control point and batch in hand (0: none)
  nSent,     \* series put on seriesCh
  nTaken,    \* series taken off it; the batcher works on series nTaken
  batch,     \* the batch being filled, with its byte count
  offset,    \* start of the next window of an oversize series
  end,       \* end of the window being sized
  batches,   \* every batch flushed to batchCh so far
  bTaken,    \* how many of them writers have taken
  acked,     \* batches whose send returned nil and were counted
  accepted,  \* batches the remote endpoint ingested
  stats      \* PipelineStats

rvars == <<rpc, rerr, nSent>>
bvars == <<bpc, berr, nTaken, batch, offset, end>>
wvars == <<wpc, wb, bTaken, acked, accepted>>
vars == <<phase, gctx, gerr, rvars, bvars, batches, wvars, stats>>

----------------------------------------------------------------------------
\* A window [s, lo, hi] stands for TimeSeries{Labels of s, Samples[lo:hi]}.
Window(s, lo, hi) == [s |-> s, lo |-> lo, hi |-> hi]

\* TimeSeries.Size() of such a window.
Size(s, lo, hi) == LabelBytes[s] + CumBytes[s][hi] - CumBytes[s][lo]

EmptyBatch == [items |-> {}, bytes |-> 0]

WindowSamples(it) == {it.s} \X ((it.lo + 1)..it.hi)
BatchSamples(b) == UNION {WindowSamples(it) : it \in b.items}
SampleCount(b) == Cardinality(BatchSamples(b))

\* Sample windows are first sized by the amortised cost of a sample.
AvgSampleBytes(s) ==
  LET avg == Size(s, 0, NSamples[s]) \div NSamples[s]
  IN  IF avg < 1 THEN 1 ELSE avg

SamplesPerChunk(s) ==
  LET n == MaxBatchBytes \div AvgSampleBytes(s)
  IN  IF n < 1 THEN 1 ELSE n

SeriesChClosed == rpc \in {"closed", "done"}
\* Fault: close(batchCh) is not deferred, and an early return skips it.
BatchChClosedOnSuccess == bpc \in {"closed", "done"} /\ ~berr

BatchChClosed == bpc \in {"closed", "done"}

----------------------------------------------------------------------------
Init ==
  /\ phase = "init" /\ gctx = FALSE /\ gerr = FALSE
  /\ rpc = "query" /\ rerr = FALSE /\ nSent = 0
  /\ bpc = "recv" /\ berr = FALSE /\ nTaken = 0
  /\ batch = EmptyBatch /\ offset = 0 /\ end = 0
  /\ batches = <<>> /\ bTaken = 0
  /\ wpc = [w \in Writers |-> "recv"] /\ wb = [w \in Writers |-> 0]
  /\ acked = {} /\ accepted = {}
  /\ stats = [SeriesRead |-> 0, SamplesRead |-> 0, BatchesSent |-> 0, SamplesSent |-> 0]

\* A nil Provider is refused before any goroutine starts.
RejectNilProvider ==
  /\ phase = "init"
  /\ phase' = "returned" /\ gerr' = TRUE
  /\ UNCHANGED <<gctx, rvars, bvars, batches, wvars, stats>>

Start ==
  /\ phase = "init"
  /\ phase' = "running"
  /\ UNCHANGED <<gctx, gerr, rvars, bvars, batches, wvars, stats>>

\* The caller's context ends: asynq timeout or cancellation, shutdown, SIGINT.
CancelParent ==
  /\ phase = "running" /\ ~gctx
  /\ gctx' = TRUE
  /\ UNCHANGED <<phase, gerr, rvars, bvars, batches, wvars, stats>>

\* Fault: the writers are not part of the errgroup.
WaitReturnIgnoringWriters ==
  /\ phase = "running" /\ rpc = "done" /\ bpc = "done"
  /\ phase' = "returned"
  /\ UNCHANGED <<gctx, gerr, rvars, bvars, batches, wvars, stats>>

\* g.Wait() returns once every goroutine has; Run returns the group's error.
WaitReturn ==
  /\ phase = "running"
  /\ rpc = "done" /\ bpc = "done"
  /\ \A w \in Writers : wpc[w] \in {"done", "failed"}
  /\ phase' = "returned"
  /\ UNCHANGED <<gctx, gerr, rvars, bvars, batches, wvars, stats>>

----------------------------------------------------------------------------
(* Reader goroutine.  Its deferred close(seriesCh) runs before the         *)
(* errgroup sees its error, so "closed" and "done" are two points.         *)

readerFrame == UNCHANGED <<phase, bvars, batches, wvars, stats>>

ReaderReturns(err) == rpc' = "closed" /\ rerr' = err

OpenQuerier ==
  /\ phase = "running" /\ rpc = "query"
  /\ \/ rpc' = "next" /\ UNCHANGED rerr
     \/ ReaderReturns(TRUE)
  /\ UNCHANGED <<nSent, gctx, gerr>> /\ readerFrame

\* ss.Next(): another series, the end, or an iteration error.
NextSeries ==
  /\ rpc = "next"
  /\ \/ nSent < NSeries /\ ~gctx /\ rpc' = "send" /\ UNCHANGED rerr
     \/ nSent = NSeries /\ ReaderReturns(FALSE)
     \/ ReaderReturns(TRUE)                \* ctx.Err(), it.Err() or ss.Err()
  /\ UNCHANGED <<nSent, gctx, gerr>> /\ readerFrame

\* Fault: a plain send instead of a select on ctx.Done().
SendSeriesBlocking ==
  /\ rpc = "send" /\ nSent - nTaken < SeriesBuf
  /\ nSent' = nSent + 1 /\ rpc' = "next"
  /\ UNCHANGED <<rerr, gctx, gerr>> /\ readerFrame

SendSeries ==
  /\ rpc = "send"
  /\ \/ /\ nSent - nTaken < SeriesBuf
        /\ nSent' = nSent + 1 /\ rpc' = "next" /\ UNCHANGED rerr
     \/ gctx /\ ReaderReturns(TRUE) /\ UNCHANGED nSent
  /\ UNCHANGED <<gctx, gerr>> /\ readerFrame

ReaderExit ==
  /\ rpc = "closed"
  /\ rpc' = "done"
  /\ gerr' = (gerr \/ rerr) /\ gctx' = (gctx \/ rerr)
  /\ UNCHANGED <<rerr, nSent>> /\ readerFrame

----------------------------------------------------------------------------
(* Batcher goroutine.                                                      *)

batcherFrame == UNCHANGED <<phase, rvars, wvars>>

\* sendBatch's select: hand b to the writers, or give up if gctx is done.
Flush(b) ==
  /\ Len(batches) - bTaken < BatchBuf
  /\ batches' = Append(batches, b)
  /\ UNCHANGED <<berr, gctx, gerr, stats>>

FlushCancelled ==
  /\ gctx
  /\ bpc' = "closed" /\ berr' = TRUE
  /\ UNCHANGED <<nTaken, batch, offset, end, batches, gctx, gerr, stats>>

\* Fault: a receive that does not notice an empty, closed channel.
RecvSeriesUnchecked ==
  /\ phase = "running" /\ bpc = "recv"
  /\ nTaken' = nTaken + 1
  /\ UNCHANGED <<bpc, stats, berr, batch, offset, end, batches, gctx, gerr>> /\ batcherFrame

RecvSeries ==
  /\ phase = "running" /\ bpc = "recv" /\ nTaken < nSent
  /\ nTaken' = nTaken + 1
  /\ stats' = [stats EXCEPT !.SeriesRead = @ + 1,
                            !.SamplesRead = @ + NSamples[nTaken + 1]]
  /\ bpc' = IF NSamples[nTaken + 1] = 0 THEN "recv" ELSE "place"
  /\ UNCHANGED <<berr, batch, offset, end, batches, gctx, gerr>> /\ batcherFrame

SeriesBytes == Size(nTaken, 0, NSamples[nTaken])
Oversize == SeriesBytes > MaxBatchBytes
\* Fault: only an oversize series flushes what was packed before it.
MustFlushOversizeOnly == batch.items # {} /\ Oversize

MustFlush == batch.items # {} /\ (Oversize \/ batch.bytes + SeriesBytes > MaxBatchBytes)

\* Fault: batchBytes is not reset with the slice.
FlushFullKeepingBytes ==
  /\ bpc = "place" /\ MustFlush
  /\ \/ /\ Flush(batch) /\ batch' = [batch EXCEPT !.items = {}]
        /\ UNCHANGED <<bpc, nTaken, offset, end>>
     \/ FlushCancelled
  /\ batcherFrame

FlushFull ==
  /\ bpc = "place" /\ MustFlush
  /\ \/ /\ Flush(batch) /\ batch' = EmptyBatch
        /\ UNCHANGED <<bpc, nTaken, offset, end>>
     \/ FlushCancelled
  /\ batcherFrame

AppendSeries ==
  /\ bpc = "place" /\ ~Oversize /\ ~MustFlush
  /\ batch' = [items |-> batch.items \cup {Window(nTaken, 0, NSamples[nTaken])},
               bytes |-> batch.bytes + SeriesBytes]
  /\ bpc' = "recv"
  /\ UNCHANGED <<berr, nTaken, offset, end, batches, gctx, gerr, stats>> /\ batcherFrame

SplitSeries ==
  /\ bpc = "place" /\ Oversize /\ ~MustFlush
  /\ offset' = 0 /\ bpc' = "window"
  /\ UNCHANGED <<berr, nTaken, batch, end, batches, gctx, gerr, stats>> /\ batcherFrame

OpenWindow ==
  /\ bpc = "window"
  /\ end' = IF offset + SamplesPerChunk(nTaken) > NSamples[nTaken]
            THEN NSamples[nTaken] ELSE offset + SamplesPerChunk(nTaken)
  /\ bpc' = "chunk"
  /\ UNCHANGED <<berr, nTaken, batch, offset, batches, gctx, gerr, stats>> /\ batcherFrame

\* Fault: a window of a single oversize sample is halved as well.
WindowTooBigEvenIfSingle == Size(nTaken, offset, end) > MaxBatchBytes

WindowTooBig == Size(nTaken, offset, end) > MaxBatchBytes /\ end - offset > 1

HalveWindow ==
  /\ bpc = "chunk" /\ WindowTooBig
  /\ end' = offset + (end - offset) \div 2
  /\ UNCHANGED <<bpc, berr, nTaken, batch, offset, batches, gctx, gerr, stats>> /\ batcherFrame

\* Fault: windows overlap by one sample.
SendChunkOverlapping ==
  /\ bpc = "chunk" /\ ~WindowTooBig
  /\ \/ /\ Flush([items |-> {Window(nTaken, offset, end)}, bytes |-> Size(nTaken, offset, end)])
        /\ offset' = IF end - offset > 1 THEN end - 1 ELSE end
        /\ bpc' = IF end < NSamples[nTaken] THEN "window" ELSE "recv"
        /\ UNCHANGED <<nTaken, batch, end>>
     \/ FlushCancelled
  /\ batcherFrame

SendChunk ==
  /\ bpc = "chunk" /\ ~WindowTooBig
  /\ \/ /\ Flush([items |-> {Window(nTaken, offset, end)}, bytes |-> Size(nTaken, offset, end)])
        /\ offset' = end
        /\ bpc' = IF end < NSamples[nTaken] THEN "window" ELSE "recv"
        /\ UNCHANGED <<nTaken, batch, end>>
     \/ FlushCancelled
  /\ batcherFrame

\* Fault: the trailing sendBatch is missing.
FlushLastForgotten ==
  /\ bpc = "recv" /\ SeriesChClosed /\ nTaken = nSent
  /\ bpc' = "closed"
  /\ UNCHANGED <<berr, nTaken, batch, offset, end, batches, gctx, gerr, stats>>
  /\ batcherFrame

\* seriesCh is closed and drained: the last, possibly empty, batch goes out.
FlushLast ==
  /\ bpc = "recv" /\ SeriesChClosed /\ nTaken = nSent
  /\ \/ /\ batch.items = {}
        /\ bpc' = "closed"
        /\ UNCHANGED <<berr, nTaken, batch, offset, end, batches, gctx, gerr, stats>>
     \/ /\ batch.items # {}
        /\ Flush(batch) /\ batch' = EmptyBatch /\ bpc' = "closed"
        /\ UNCHANGED <<nTaken, offset, end>>
     \/ batch.items # {} /\ FlushCancelled
  /\ batcherFrame

BatcherExit ==
  /\ bpc = "closed"
  /\ bpc' = "done"
  /\ gerr' = (gerr \/ berr) /\ gctx' = (gctx \/ berr)
  /\ UNCHANGED <<berr, nTaken, batch, offset, end, batches, stats>> /\ batcherFrame

----------------------------------------------------------------------------
(* Writer goroutines.                                                      *)

writerFrame == UNCHANGED <<phase, rvars, bvars, batches>>

TakeBatch(w) ==
  /\ phase = "running" /\ wpc[w] = "recv" /\ bTaken < Len(batches)
  /\ bTaken' = bTaken + 1
  /\ wb' = [wb EXCEPT ![w] = bTaken + 1]
  /\ wpc' = [wpc EXCEPT ![w] = "send"]
  /\ UNCHANGED <<acked, accepted, gctx, gerr, stats>> /\ writerFrame

\* Send returned nil (2xx), or DryRun skipped it; the batch is counted.
BatchSent(w) ==
  /\ wpc[w] = "send"
  /\ accepted' = IF DryRun THEN accepted ELSE accepted \cup {wb[w]}
  /\ acked' = acked \cup {wb[w]}
  /\ stats' = [stats EXCEPT !.BatchesSent = @ + 1,
                            !.SamplesSent = @ + SampleCount(batches[wb[w]])]
  /\ wpc' = [wpc EXCEPT ![w] = "recv"] /\ wb' = [wb EXCEPT ![w] = 0]
  /\ UNCHANGED <<bTaken, gctx, gerr>> /\ writerFrame

\* Fault: the counters are bumped before the error is looked at.
BatchFailedButCounted(w) ==
  /\ wpc[w] = "send" /\ ~DryRun
  /\ accepted' \in {accepted, accepted \cup {wb[w]}}
  /\ stats' = [stats EXCEPT !.BatchesSent = @ + 1]
  /\ wpc' = [wpc EXCEPT ![w] = "failed"]
  /\ gerr' = TRUE /\ gctx' = TRUE
  /\ UNCHANGED <<wb, bTaken, acked>> /\ writerFrame

\* Send failed: dial error, timeout, cancelled gctx or a non-2xx answer.  The
\* endpoint may have ingested the request all the same.
BatchFailed(w) ==
  /\ wpc[w] = "send" /\ ~DryRun
  /\ accepted' \in {accepted, accepted \cup {wb[w]}}
  /\ wpc' = [wpc EXCEPT ![w] = "failed"]
  /\ gerr' = TRUE /\ gctx' = TRUE
  /\ UNCHANGED <<wb, bTaken, acked, stats>> /\ writerFrame

\* Fault: a writer that sees gctx done returns nil with batches still queued.
WriterExitOnCancel(w) ==
  /\ wpc[w] = "recv" /\ (gctx \/ (bTaken = Len(batches) /\ BatchChClosed))
  /\ wpc' = [wpc EXCEPT ![w] = "done"]
  /\ UNCHANGED <<wb, bTaken, acked, accepted, gctx, gerr, stats>> /\ writerFrame

WriterExit(w) ==
  /\ wpc[w] = "recv" /\ bTaken = Len(batches) /\ BatchChClosed
  /\ wpc' = [wpc EXCEPT ![w] = "done"]
  /\ UNCHANGED <<wb, bTaken, acked, accepted, gctx, gerr, stats>> /\ writerFrame

----------------------------------------------------------------------------
\* Run has returned and nothing is left to do.
Returned == phase = "returned" /\ UNCHANGED vars

Reader == OpenQuerier \/ NextSeries \/ SendSeries \/ ReaderExit

Batcher ==
  \/ RecvSeries \/ FlushFull \/ AppendSeries \/ SplitSeries
  \/ OpenWindow \/ HalveWindow \/ SendChunk \/ FlushLast \/ BatcherExit

Writer(w) == TakeBatch(w) \/ BatchSent(w) \/ BatchFailed(w) \/ WriterExit(w)

Next ==
  \/ RejectNilProvider \/ Start \/ CancelParent \/ WaitReturn \/ Returned
  \/ Reader
  \/ Batcher
  \/ \E w \in Writers : Writer(w)

Spec == Init /\ [][Next]_vars

\* Goroutines are scheduled fairly; the querier's iteration is finite and the
\* HTTP client's timeout bounds every Send, so no step waits for ever.
Fairness ==
  /\ WF_vars(Start \/ RejectNilProvider) /\ WF_vars(WaitReturn)
  /\ WF_vars(Reader) /\ WF_vars(Batcher)
  /\ \A w \in Writers : WF_vars(Writer(w))

FairSpec == Spec /\ Fairness

----------------------------------------------------------------------------
(* Properties.                                                             *)

Batch == [items : SUBSET [s : SeriesId, lo : Nat, hi : Nat], bytes : Nat]

\* Every variable keeps its type, and the cursors into the two channels never
\* overtake what was put on them (seriesCh, batchCh, PipelineStats).
TypeOK ==
  /\ phase \in {"init", "running", "returned"}
  /\ gctx \in BOOLEAN /\ gerr \in BOOLEAN
  /\ rpc \in {"query", "next", "send", "closed", "done"} /\ rerr \in BOOLEAN
  /\ bpc \in {"recv", "place", "window", "chunk", "closed", "done"} /\ berr \in BOOLEAN
  /\ nSent \in 0..NSeries /\ nTaken \in 0..nSent
  /\ batch \in Batch /\ offset \in Nat /\ end \in Nat
  /\ batches \in Seq(Batch) /\ bTaken \in 0..Len(batches)
  /\ wpc \in [Writers -> {"recv", "send", "failed", "done"}]
  /\ wb \in [Writers -> 0..bTaken]
  /\ acked \in SUBSET (1..bTaken) /\ accepted \in SUBSET (1..bTaken)
  /\ stats \in [SeriesRead : Nat, SamplesRead : Nat, BatchesSent : Nat, SamplesSent : Nat]

AllSamples == UNION {WindowSamples(Window(s, 0, NSamples[s])) : s \in SeriesId}
SamplesOf(ids) == UNION {BatchSamples(batches[i]) : i \in ids}

\* When Run returns nil, every sample of every selected series was in a batch
\* whose Send returned nil, and outside a dry run the endpoint ingested it:
\* no batch is lost on a channel, in the half-filled batch or in a window.
SuccessIsComplete ==
  phase = "returned" /\ ~gerr =>
    /\ nTaken = NSeries
    /\ SamplesOf(acked) = AllSamples
    /\ ~DryRun => acked = accepted

\* Packing and splitting never put one sample into two requests, although
\* windows are halved and re-opened while they are sized.
NoSampleTwice ==
  \A i, j \in 1..Len(batches) :
    i # j => BatchSamples(batches[i]) \cap BatchSamples(batches[j]) = {}

WindowBytes(it) == Size(it.s, it.lo, it.hi)
SingleSample(b) == \E it \in b.items : b.items = {it} /\ it.hi = it.lo + 1

\* A flushed batch is never empty, and its byte count is over MaxBatchBytes
\* only when it is one sample that cannot be split any further.
BatchWithinBudget ==
  \A i \in 1..Len(batches) :
    /\ BatchSamples(batches[i]) # {}
    /\ batches[i].bytes <= MaxBatchBytes \/ SingleSample(batches[i])

\* The running byte count the batcher compares with the budget is the size of
\* what is in the batch, across flushes, splits and halved windows.
ByteCountIsReal ==
  \A b \in {batches[i] : i \in 1..Len(batches)} \cup {batch} :
    b.bytes = MapThenSumSet(WindowBytes, b.items)

\* The counters Run reports agree with what happened, at every moment and on
\* error returns too: sent samples are exactly those of the acknowledged
\* batches, and never more than were read.
StatsAgree ==
  /\ stats.SeriesRead = nTaken
  /\ stats.BatchesSent = Cardinality(acked)
  /\ stats.SamplesSent = Cardinality(SamplesOf(acked))
  /\ stats.SamplesSent <= stats.SamplesRead
  /\ ~DryRun => acked \subseteq accepted

\* Once g.Wait has returned no goroutine of the run is left: nothing is sent
\* or read after the caller has been told the outcome.
NothingAfterReturn ==
  [][phase = "returned" => UNCHANGED vars]_vars

\* Run as its caller sees it: the samples that reached the endpoint (in a dry
\* run, that would have) and the outcome.
Abstract == INSTANCE Transfer WITH
  Samples   <- AllSamples,
  delivered <- SamplesOf(acked \cup accepted),
  outcome   <- IF phase # "returned" THEN "running" ELSE IF gerr THEN "failed" ELSE "ok"

\* The three-stage pipeline implements the abstract transfer: a lost, re-read
\* or half-sent batch shows up as a success without all samples, or as samples
\* that vanish or change after the outcome is known.
ImplementsTransfer == Abstract!TransferSpec

\* Where a goroutine can block: the reader's select on a full seriesCh, the
\* batcher's receive on an empty one or its select on a full batchCh, a
\* writer's receive on an empty batchCh.
ReaderWaits == rpc = "send" /\ nSent - nTaken >= SeriesBuf /\ ~gctx

Flushing ==
  \/ bpc = "place" /\ MustFlush
  \/ bpc = "chunk" /\ ~WindowTooBig
  \/ bpc = "recv" /\ SeriesChClosed /\ nTaken = nSent /\ batch.items # {}

BatcherWaits ==
  \/ bpc = "recv" /\ nTaken = nSent /\ ~SeriesChClosed
  \/ Flushing /\ Len(batches) - bTaken >= BatchBuf /\ ~gctx

WriterWaits(w) == wpc[w] = "recv" /\ bTaken = Len(batches) /\ ~BatchChClosed

\* The goroutines of a run never wait for one another in a circle, and none
\* waits for one that has left: until all have returned, one can move.
NoCircularWait ==
  phase = "running" =>
    \/ rpc # "done" /\ ~ReaderWaits
    \/ bpc # "done" /\ ~BatcherWaits
    \/ \E w \in Writers : wpc[w] \in {"recv", "send"} /\ ~WriterWaits(w)
    \/ /\ rpc = "done" /\ bpc = "done"
       /\ \A w \in Writers : wpc[w] \in {"done", "failed"}

\* What is left to do: for Run, until cancellation, for the reader, and for
\* the batcher in series, stages of one, samples and sizing of a window.
RunLeft == CASE phase = "init" -> 2 [] phase = "running" -> 1 [] OTHER -> 0
CancelLeft == IF gctx THEN 0 ELSE 1
ReaderLeft ==
  3 * (NSeries - nSent) + CASE rpc = "query" -> 4 [] rpc = "next" -> 3 [] rpc = "send" -> 2
                            [] rpc = "closed" -> 1 [] OTHER -> 0
SeriesLeft == NSeries - nTaken
StageLeft ==
  CASE bpc = "place" -> 4 [] bpc \in {"window", "chunk"} -> 3 [] bpc = "recv" -> 2
    [] bpc = "closed" -> 1 [] OTHER -> 0
SplitLeft == IF bpc \in {"window", "chunk"} THEN NSamples[nTaken] - offset ELSE 0
OpenLeft == IF bpc = "window" THEN 1 ELSE 0
SizeLeft == IF bpc = "chunk" THEN end - offset ELSE IF batch.items # {} THEN 1 ELSE 0
WritersAt(pc) == {w \in Writers : wpc[w] = pc}

\* All of it, the most significant part first.
WorkLeft ==
  <<RunLeft, CancelLeft, ReaderLeft, SeriesLeft, StageLeft, SplitLeft, OpenLeft, SizeLeft,
    Len(batches) - bTaken, Cardinality(WritersAt("send")), Cardinality(WritersAt("recv"))>>

LexLess(a, b) == \E k \in DOMAIN b : a[k] < b[k] /\ \A j \in 1..(k - 1) : a[j] <= b[j]

\* No loop of the run goes round for nothing: whatever is flushed, split,
\* halved or cancelled, each step leaves less work than before.
EveryStepCounts == [][LexLess(WorkLeft', WorkLeft)]_vars

\* Run always returns: whichever of reader, batcher, writers or caller fails
\* or cancels, no goroutine stays blocked on a full or empty channel.
Terminates == <>(phase = "returned")

============================================================================
