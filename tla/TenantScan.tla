----------------------------- MODULE TenantScan -----------------------------
(***************************************************************************)
(* cmd/tenant-scan: a one-shot ranking of projects by their series, read   *)
(* from the block directories without a lock, while a TSDB opened on the   *)
(* same path (external) compacts blocks: it writes the merged block and    *)
(* then deletes its parents.  A block that has been opened stays readable. *)
(***************************************************************************)
EXTENDS Naturals, FiniteSets, Sequences, FiniteSetsExt, SequencesExt

CONSTANTS
  ProjectOf,  \* the projectId of each series
  Blocks,     \* initial blocks, in the order of their names: the series of each
  TopN,       \* second argument
  MaxFaults   \* bound: blocks and postings that cannot be read

Series == DOMAIN ProjectOf
Projects == {ProjectOf[s] : s \in Series}
Merged == Len(Blocks) + 1

ASSUME TenantScanAssumption ==
  /\ IsFiniteSet(Series) /\ Blocks \in Seq(SUBSET Series)
  /\ TopN \in Nat \ {0} /\ MaxFaults \in Nat

VARIABLES
  store,      \* series of each block directory; {} if there is none
  pc,         \* "readdir", "stat", "scan", "rank", "done" or "error"
  entries,    \* entries of os.ReadDir still to be looked at
  dirs, i,    \* blockDirs and the loop index
  counts,     \* series counted for each project
  top,        \* the projects reported as top
  present,    \* history: series in some block when the directory was read
  seen,       \* history: series that were counted
  missed,     \* history: series of blocks that were gone, or could not be read
  faults      \* spent bound

scanVars == <<pc, entries, dirs, i, counts, top, present, seen, missed, faults>>
vars == <<store, scanVars>>

SeriesOf(S, p) == {s \in S : ProjectOf[s] = p}
\* What a block directory holds while it exists.
Content(b) == IF b = Merged THEN UNION Range(Blocks) ELSE Blocks[b]
Existing == {b \in 1..Merged : store[b] # {}}

Init ==
  /\ store = Append(Blocks, {}) /\ pc = "readdir" /\ entries = {} /\ dirs = <<>> /\ i = 1
  /\ counts = [p \in Projects |-> 0] /\ top = <<>> /\ present = {} /\ seen = {} /\ missed = {} /\ faults = 0

----------------------------------------------------------------------------
(* The TSDB.                                                               *)

CompactWrite ==
  /\ store[Merged] = {} /\ \A b \in DOMAIN Blocks : store[b] = Blocks[b]
  /\ store' = [store EXCEPT ![Merged] = Content(Merged)]
  /\ UNCHANGED scanVars

CompactDelete(b) ==
  /\ store[Merged] # {} /\ b # Merged /\ store[b] # {}
  /\ store' = [store EXCEPT ![b] = {}]
  /\ UNCHANGED scanVars

----------------------------------------------------------------------------
(* The scan.                                                               *)

\* listBlockDirs: os.ReadDir, whose error ends the program.  The entries are
\* those of one moment: a directory of some hundred blocks is read in one call.
ReadDir ==
  /\ pc = "readdir"
  /\ \/ pc' = "stat" /\ entries' = Existing /\ present' = UNION Range(store)
     \/ pc' = "error" /\ UNCHANGED <<entries, present>>
  /\ UNCHANGED <<store, dirs, i, counts, top, seen, missed, faults>>

\* An entry without meta.json is left out without a word.
StatMeta(b) ==
  /\ pc = "stat" /\ b \in entries
  /\ entries' = entries \ {b}
  /\ IF b \in Existing THEN dirs' = Append(dirs, b) /\ UNCHANGED missed
     ELSE missed' = missed \cup Content(b) /\ UNCHANGED dirs
  /\ UNCHANGED <<store, pc, i, counts, top, present, seen, faults>>

\* sort.Strings, and on to the loop.
SortDirs ==
  /\ pc = "stat" /\ entries = {}
  /\ pc' = "scan"
  /\ dirs' \in {s \in SetToSeqs(ToSet(dirs)) : \A j, k \in DOMAIN s : j < k => s[j] < s[k]}
  /\ UNCHANGED <<store, entries, i, counts, top, present, seen, missed, faults>>

\* Fault: a project's count is that of the last block.
CountedLastOnly(b, ps) ==
  [p \in Projects |-> IF p \in ps THEN Cardinality(SeriesOf(store[b], p)) ELSE counts[p]]

\* counts[v] += n, for the projects whose postings could be read.
Counted(b, ps) ==
  [p \in Projects |-> IF p \in ps THEN counts[p] + Cardinality(SeriesOf(store[b], p)) ELSE counts[p]]

\* Fault: a block that is gone takes the next one with it.
ScanBlockAndSkip ==
  /\ pc = "scan" /\ i <= Len(dirs)
  /\ LET b == dirs[i] IN
     IF b \in Existing
     THEN i' = i + 1 /\ counts' = Counted(b, Projects) /\ seen' = seen \cup store[b] /\ UNCHANGED missed
     ELSE i' = i + 2 /\ missed' = missed \cup Content(b) /\ UNCHANGED <<counts, seen>>
  /\ UNCHANGED <<store, pc, entries, dirs, top, present, faults>>

\* countProjectSeries.  A project whose postings fail is passed over, and so
\* is a block that cannot be opened (no project of it is readable) or that is
\* gone; blocks_scanned counts it all the same.
ScanBlock ==
  /\ pc = "scan" /\ i <= Len(dirs) /\ i' = i + 1
  /\ LET b == dirs[i]
         vals == {ProjectOf[s] : s \in store[b]}
     IN  \/ /\ b \in Existing
            /\ \E readable \in SUBSET vals :
                 LET counted == {s \in store[b] : ProjectOf[s] \in readable} IN
                 /\ IF readable = vals THEN UNCHANGED faults
                    ELSE faults < MaxFaults /\ faults' = faults + 1
                 /\ counts' = Counted(b, readable) /\ seen' = seen \cup counted
                 /\ missed' = missed \cup (store[b] \ counted)
         \/ b \notin Existing /\ missed' = missed \cup Content(b) /\ UNCHANGED <<counts, seen, faults>>
  /\ UNCHANGED <<store, pc, entries, dirs, top, present>>

ScanEnds ==
  /\ pc = "scan" /\ i > Len(dirs) /\ pc' = "rank"
  /\ UNCHANGED <<store, entries, dirs, i, counts, top, present, seen, missed, faults>>

\* The less function of sort.Slice.
Before(p, r) == counts[p] > counts[r]

\* sort.Slice over the map's entries, in an order of ties that is anyone's,
\* and all[:topN]; writing the report may fail.
Rank ==
  /\ pc = "rank" /\ pc' \in {"done", "error"}
  /\ \E all \in SetToSeqs({p \in Projects : counts[p] > 0}) :
       /\ \A j, k \in DOMAIN all : j < k => ~Before(all[k], all[j])
       /\ top' = SubSeq(all, 1, Min({TopN, Len(all)}))
  /\ UNCHANGED <<store, entries, dirs, i, counts, present, seen, missed, faults>>

Scan ==
  ReadDir \/ (\E b \in 1..Merged : StatMeta(b)) \/ SortDirs \/ ScanBlock \/ ScanEnds \/ Rank
Compaction == CompactWrite \/ \E b \in 1..Merged : CompactDelete(b)

Next == Scan \/ Compaction

Spec == Init /\ [][Next]_vars

----------------------------------------------------------------------------
(* Properties.                                                             *)

TypeOK ==
  /\ store \in Seq(SUBSET Series) /\ Len(store) = Merged
  /\ pc \in {"readdir", "stat", "scan", "rank", "done", "error"}
  /\ entries \subseteq 1..Merged /\ dirs \in Seq(1..Merged) /\ i \in 1..Len(dirs) + 1
  /\ counts \in [Projects -> 0..Cardinality(Series) * Merged] /\ top \in Seq(Projects)
  /\ present \subseteq Series /\ seen \subseteq Series /\ missed \subseteq Series /\ faults \in 0..MaxFaults

\* Compaction moves series between blocks under the scan, and still a project
\* is counted no lower than the number of its series that were in some block
\* when the directory was read, but for those that were only in blocks that had
\* vanished or could not be read when their turn came: what goes wrong with one
\* block or one project takes nothing from another.
NoUndercount ==
  pc = "done" =>
    \A p \in Projects : Cardinality(SeriesOf(present \ (missed \ seen), p)) <= counts[p]
============================================================================
