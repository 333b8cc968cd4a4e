# Verification of the Mimir tenant migrator

TLA+ models of `services/migrator`, the service that copies one tenant's series
after another from a Prometheus TSDB to a remote-write endpoint (cortex-tenant
in front of Mimir), with the TLC runs that check them and the TLAPS proofs of
their main properties. `PROJECT.json` lists components, runs, mutants, the map
from definitions to source lines, findings, hazards and theorems.

## 1. The system

| component | state | operations | correct when |
|---|---|---|---|
| `internal/migration` `Run` | two channels, the open batch, window cursors, errgroup, `PipelineStats` | reader, batcher and writer goroutines | nil return = every sample acknowledged; nothing sent twice; budget kept; always returns |
| `internal/tsdb` `Reader` | a querier per call | `Read` | every selected series is sent, or an error |
| `internal/remotewrite` `Writer` | HTTP client | `Send` | nil only on 2xx |
| `internal/queue` `MigrationHandler` | none of its own | `ProcessTask` | outcome recorded truthfully, error returned so asynq retries |
| `internal/queue` `ProgressStore` | one Redis hash per task | `Update`, `Get`, `List`, `Delete`, `DeleteAll`, `ReconcileStaleActive` | a hash reflects what happens to its task |
| `internal/queue` `HistoryLogger` | append-only file, mutex | `Append` | "completed" only for completed work |
| `internal/api` | none of its own | `POST /migrate`, `GET /status`, `DELETE /tasks` | tasks queued are run; deletion hits its targets only |
| `cmd/server` | process, shared TSDB | boot, drain, close, exit | no stale "active" after a restart; no read after close |
| `internal/mimirconfig`, `cmd/revert-overrides` | `runtime.yaml` in a ConfigMap | `ApplyOverrides`, `RevertOverrides` | foreign data preserved; a tenant is as its last call left it |
| asynq (external) | task queue in Redis | dequeue, retry, archive, lease recovery, cancel, shutdown | at-least-once |
| `deploy/run-migration.sh` | poll and failure counters, a port-forward | `run`, `wait`, `patch_runtime_config` | exit code 0 of `wait` means migrated |
| `cmd/tenant-scan` | series counts per project | read the block directories, count, rank | every series that can be read is counted, whatever is compacted meanwhile |
| `deploy/disk-watchdog.yaml` | replicas and annotation | pause, resume | a full disk stops the migrator, a pause ends once the disks are low, and not before |
| keystone authorization (Lua) | two token caches | validate | no expired token accepted |

Interaction: an operator's `POST /migrate` calls `ApplyOverrides`, then per
project enqueues an asynq task and writes a progress hash. Workers in the same
process call `ProcessTask`, which writes the hash, calls `Run`, and writes hash
and history. The operator's script polls `GET /status`, which reads the hashes one
by one, through a port-forward that dies with the pod; it also patches the
ConfigMap the API edits. The disk watchdog scales the deployment under all of
them. `DELETE /tasks` reads and edits the queue and then the hashes.
Queue entry, hash, history file and ConfigMap are separate stores with no common
transaction, and every Redis call of a handler uses the task's own context.

What is hard: goroutines on bounded channels with error and cancellation; window
arithmetic of oversize series; asynq abandoning handlers that keep running;
crash and restart between any two writes; requests racing workers;
read-modify-write of a shared ConfigMap; a poll that is no snapshot; a job of two
calls that dies between them; files that are compacted while they are read. The full list is `hazards` in
`PROJECT.json`.

## 2. Modules

| module | what it is |
|---|---|
| `Pipeline` | `migration.Run`, with the control flow of `Reader.Read` and the outcomes of `Writer.Send` |
| `Transfer` | abstract specification of a run: samples get delivered, the outcome is announced once, success means all |
| `PipelineProofs` | theorems about `Pipeline`: types, completeness, budget, quiescence, refinement |
| `PipelineStatsProofs` | more of them: no sample twice, true counters, true byte counts |
| `PipelineProgressProofs` | why a run ends: no circular wait, every step leaves less work |
| `TaskQueue` | API, asynq, `ProcessTask`, progress store, history, server lifecycle |
| `TaskContract` | abstract specification of the service: what may become of a task, and what its hash may say |
| `WaitLoop` | `run-migration.sh wait` with `GET /status` and the pod, composed with `TaskContract` |
| `RuntimeOverrides` | `ApplyOverrides`, `RevertOverrides` and the script's `patch_runtime_config` with concurrent callers |
| `DiskWatchdog` | the disk-watchdog CronJob, moving disks, an operator who scales by hand |
| `TenantScan` | `cmd/tenant-scan` over block directories that are being compacted |
| `TaskQueueProofs`, `WaitLoopProofs`, `RuntimeOverridesProofs`, `DiskWatchdogProofs`, `TenantScanProofs` | theorems about the five modules above |
| `MCPipeline`, `MCTaskQueue`, `MCWaitLoop`, `MCRuntimeOverrides`, `MCTenantScan` | constants for TLC |

Compositions and refinements. `Pipeline` implements `Transfer`. `TaskQueue`
implements `TaskContract` (`ImplementsContract`), and `WaitLoop` is built on
`TaskContract` instead of on `TaskQueue`: what it shows of the script holds for
every service that keeps the contract, and the product stays small. Both halves
are proved: the service keeps the contract (`TaskQueueProofs!Refinement`), and
against any service that does, exit code 0 covers only migrated tasks
(`WaitLoopProofs!OkMeansDeliveredHolds`).

Definitions whose comment starts with "Fault:" are mutated forms of the
definition below them. They are part of no specification; substituting one for
its original makes TLC report the property it is listed with in `PROJECT.json`.

**Pipeline.** Channels are FIFO with one producer, so `seriesCh` is the pair of
cursors `nTaken`, `nSent`, and `batchCh` is the part of the log `batches` after
`bTaken`. A batch is a set of windows `[s, lo, hi]` of samples with its byte
count; the sizes of labels and sample prefixes are constants. The series sent and
the batches flushed are never forgotten, so properties can speak of the past.
The `select` statements are disjunctions: with the context done and room in the
channel, either may happen. A closed channel and the return of its goroutine are
two steps because the deferred `close` runs first. `Send` may succeed, fail, or
fail after the endpoint ingested the request (`accepted` against `acked`).

**TaskQueue.** `q` is the asynq state of each task, `prog` the state
field of its hash, `exec` the handler goroutines with their program counters, `held` whether asynq
still waits for one, `cancelled` whether its context is done. An update on a
cancelled context may fail; `unrecorded`, a history variable, remembers the tasks
whose last update was lost. POST is split after the override call, after each
Enqueue and after each hash write; DELETE after each listing, the cancellations,
each DeleteTask and the progress deletion. One POST and one DELETE are in flight
at a time. A crash clears the process's volatile state and leaves Redis and the
file; `Boot` starts with the reconciliation. There is one server: the deployment
has one replica and the `Recreate` strategy. asynq is external and modelled from
its use: `asynq.MaxRetry(3)`, `asynq.Timeout`, `Shutdown` with a timeout, and the
Inspector, whose listings return one page (`PageSize`) of the tasks in a state; asynq
orders them by time, which the model does not keep, so `Listed` allows every page
and every order. Listings of scheduled and completed tasks are always empty, because
no task is enqueued with a delay or a retention.

**TaskContract.** A task is submitted once, stays queued until it is finished,
given up or removed, and none of these is taken back except that an archived task
may be removed. It is finished only if it was delivered; its hash says "completed"
only then. Hashes may otherwise say anything, and be forgotten at any time: this
is what the code guarantees, and no more. The refinement mapping takes asynq's
pending, active and retry for "queued" and tells "done" from "removed" by the
history of DELETE.

**WaitLoop.** `wpc` is the script's control point, `unread` the keys that were
there when the server's SCAN began and have not been read (SCAN returns those for
certain; one that was made later, or was read already, may be returned too), `seen`
the counters that are not 0. `wait <id>` reads one hash. A round without an answer
(no tunnel, an error status, five seconds gone by) counts as a failure; three in a
row restart the port-forward, which ends the script with exit code 1 if `/healthz`
does not answer. The tasks move between any two reads.

**RuntimeOverrides.** A document has other top-level data, an `overrides` value
that may be missing, malformed or a map, and one entry per tenant that may be
missing, null, a scalar or a map. Malformed overrides have entries too: they are
above all maps with a tenant id that is an unquoted number, which yaml.v3 does not
decode as `map[string]interface{}`. `extractOverrides` loses what the code loses:
the entries of malformed overrides and every entry that is not a map. A call reads, edits and writes the whole document;
the script writes a document of its own without reading. The patch may fail, or
succeed with its answer lost. `cm0`, `last`, `replaced` and `overlapped` are
history variables: the first document, what the last call for a tenant did
("unknown" while a call is in flight, failed, or overlapped with another for that
tenant; the script's call is about every tenant), whether a script replaced the
document, and whether two calls were ever in flight at once.

**DiskWatchdog.** One job at a time (`concurrencyPolicy: Forbid`), one step per
`kubectl` call. The shell has `-u` but not `-e`, so a failed read is 0 or empty
and a failed scale is followed by the annotate. A job may die at any point. The
history variables say which nodes have been low since the last pause (`dipped`),
which ones this job could not read (`blind`), who stopped the migrator (`stopper`)
and whether a pause or resume was left half done (`strayed`). Two of them are
exceptions in a property and so mark what it does not cover. `strayed` excepts the
half-done pause and resume from `PauseIsClaimed` and `LowDiskResumes`: there the
code does leave the migrator down until somebody scales it up, and the properties
say that nothing else does. `blind` excepts a node that could not be read from
`ResumeAfterRelief`: such a job may resume onto a full disk, and it is
`FullDiskPauses` that says a later one pauses again.

**TenantScan.** `seen` and `missed` are history variables: the series that were
counted, and those of blocks, or of projects in a block, that were gone or unreadable
when their turn came. Directory listing, the stat of every `meta.json`, the scan of each
block and the ranking are steps; compaction writes the merged block and deletes the
parents between any two of them. A block is read in one step: once opened, its
files stay readable. `sort.Strings` and `sort.Slice` are described by their results:
an ordering of the same elements in which no later one precedes an earlier one.
`os.ReadDir` is one step: the kernel hands a directory out in buffers of some KiB,
and with more than about a hundred blocks the entries of later buffers could be
newer than those of the first.

## 3. Runs

Runs expected to pass:

| run | instance | shows |
|---|---|---|
| `pipeline` | 5 series, budget 10, 2 writers, seriesCh 1 | completeness, no duplicates, budget, counters, quiescence after return, refinement of `Transfer`, no circular wait, less work after every step, `Run` always returns |
| `task_queue` | 1 task, 2 workers, 3 handler goroutines, 1 retry, 2 timeouts, 2 stops, `OpenProvider` may fail, drain may abort, Redis and file faults | no lost task, no false completion, no stale "active", no hash without a state but for a lost update, only abandoned handlers outlive the TSDB, every task settles and goes quiet, the contract is kept |
| `task_queue_delete` | 2 tasks of 2 projects, 1 DELETE | DELETE touches its targets only, and the contract is kept under it |
| `wait_loop` | 2 tasks (symmetric), 4 polls, 1 pod restart | exit code 0 means migrated |
| `disk_watchdog` | 2 nodes at 65, 79 or 80 %, 2 faults, 2 interventions | full disks pause, low disks resume, the watchdog resumes only after relief or blind, and only half-done work strands the migrator |
| `tenant_scan` | 3 blocks and their merger, 1 unreadable block or project | each series is counted unless it was only in blocks that vanished or could not be read |
| `runtime_overrides` | 2 callers, 2 tenants, 3 calls, every shape of initial document | foreign keys in tenants' maps kept, data lost only by kinds and never mixed, managed keys whole, and without overlap each tenant is as its last call left it |

Why the bounds are enough. The five series drive the batcher through every
branch: a series that fits, an empty one, one that is split with a halved window
and an oversize single sample, and one that forces a flush. Two writers are what
it takes for one to fail while another succeeds, and channels shorter than the
data make both ends block. In `TaskQueue` three handler slots allow a retry to overlap
two abandoned handlers of the same task, one retry gives both the retried and the
archived outcome, and two stops an aborted drain and a crash. Each task has its own
queue entry, hash and handlers; where one request handles several, in POST and DELETE,
`task_queue_delete` has two, and the proofs of the safety properties are for any number
of tasks. `MaxExecs`, `MaxCancels`, `MaxStops` and
`MaxDeletes` only limit how often the environment interferes. In `WaitLoop` two
tasks let one move behind the scan while the other is read, and four polls reach
the third failure in a row and a round after the restart of the port-forward. In
`DiskWatchdog` the usages are the two thresholds and the highest value of the band
between them, two nodes make the maximum matter, and two faults allow a half-done
pause to be followed by another failure. In `TenantScan` three blocks allow a
compaction to be met before, between and after the blocks that are scanned. In
`RuntimeOverrides` an overlap needs two callers, and an apply followed by a
revert is two calls; the third can undo or confirm them.

Deadlock checking is off in the `TaskQueue`, `RuntimeOverrides`, `WaitLoop` and
`TenantScan` runs, which stop when the bounds are spent or the program has ended;
the `pipeline` run (a returned `Run` stutters explicitly) and the `disk_watchdog`
run check it.

The `pipeline` run has `DryRun` off; that a dry run goes through every batch as well is part of
`SuccessIsComplete`, which is proved for both values.

Fairness. `Pipeline`: weak fairness of each goroutine and of `Wait`, justified by
the Go scheduler, a finite series set and the HTTP client's 30 s timeout; none on
cancellation. `TaskQueue`: weak fairness of each handler (its steps end because
`Run` does, which is what `Terminates` says), of asynq's processor, forwarder
and recoverer, of a drain's end and of a successful boot (Kubernetes restarts the
pod); none on POST, timeouts, cancellations, crashes or aborts. `DiskWatchdog`:
weak fairness of the job as a whole, because the controller starts one every
minute and its calls return; none on disks, operator or deaths, which are bounded
by `MaxFaults` and `MaxOps` where they would have to stop.

Runs that show a disagreement between the code and what the repository says of
it (details and quotations under `findings`):

| run | property | what happens |
|---|---|---|
| `task_queue_overwrite` | `FinalStateIsTerminal` | POST overwrites a finished task's state with "pending" |
| `task_queue_failure` | `FailureIsObservable` | a timed-out task cannot record its failure |
| `task_queue_abort` | `NoReadAfterClose` | an aborted drain closes the TSDB under a running handler |
| `runtime_overrides_race` | `LastCallWins` | the stale patch of an API call undoes the script's replacement made since its Get; two API calls do the same to each other |
| `runtime_overrides_loss` | `UnlistedPreserved` | a call for one tenant empties another's entry that is not a map, or all entries of malformed overrides |

The passing runs name the cause: after an aborted drain only handlers whose context
is done are still in `Run` (`ReadersAreCancelled`), a hash stays "active" only if its
last update was lost (`ActiveIsRunning`), calls that do not overlap keep
`LastCallWins` (`LastCallWinsAlone`), and what calls lose are whole kinds of data,
never a foreign key in a tenant's map (`UnmanagedPreserved`).

Three more behaviours of the code that a reader may not expect are in the models
but are no findings, since no line of the repository excludes them: `wait --all`
takes "failed" for terminal and may exit with 1 while asynq holds a retry; it exits
with 0 when there is no hash at all; and `DELETE /tasks` wipes the hash of an active
task although asynq refuses to delete the task itself. `OkMeansDelivered` and
`ImplementsContract` state what remains true: exit code 0 never covers a task that
was visible and not migrated, and a task that DELETE could not remove stays queued.
"Visible" is to have a state: a hash with counters only (`BlankIsExplained` says where
it comes from) is in the total that `run-migration.sh:365` calls tracked tasks, but in
none of the counters the script waits for, and exit code 0 says nothing of its task.

The disk watchdog does not do what the comment above its CronJob says
(`disk-watchdog.yaml:61-64`). "Operator resumes manually" is out of date: lines 125-127
resume a pause of the watchdog's own, which is what `LowDiskResumes` states and what
`ResumeAfterRelief` limits. "If any exceeds" is at or above the threshold in line 118,
as in `deploy.sh:160`, and `FullDiskPauses` has it so. A handler that asynq has given up
may record its "failed" after the retry has recorded "completed"; the contract allows
it, and what holds is that it ends (`SettledTasksGoQuiet`).

## 4. Proofs

All theorems are about `Spec`, without fairness, and hold for every value of the
constants that the named assumption of the module allows; the assumptions say that
bounds are naturals, that there are finitely many series, that encoded sizes grow with
each sample, that the initial documents are well formed, and that the resume threshold
lies below the pause threshold. Where a property is not inductive, a module
defines the invariant that is, as a conjunction of named parts, and shows that each
action keeps each part.

| property | theorem |
|---|---|
| `Pipeline`: `TypeOK`, `SuccessIsComplete`, `BatchWithinBudget`, `NothingAfterReturn`, `ImplementsTransfer` | `PipelineProofs`: `TypeOKHolds`, `SuccessIsCompleteHolds`, `BatchWithinBudgetHolds`, `NothingAfterReturnHolds`, `Refinement` |
| `Pipeline`: `NoSampleTwice`, `StatsAgree`, `ByteCountIsReal` | `PipelineStatsProofs`: one `...Holds` each |
| `Pipeline`: `NoCircularWait`, `EveryStepCounts` | `PipelineProgressProofs`: one `...Holds` each, `WorkWellFounded`, `WorkIsCounted` |
| `TaskQueue`: `TypeOK`, `NoLostTask`, `CompletedIsTrue`, `ActiveIsRunning`, `ReadersAreCancelled`, `BlankIsExplained`, `DeleteSparesOthers`, `ImplementsContract` | `TaskQueueProofs`: `TypeCorrect`, one `...Holds` each, `Refinement` |
| `WaitLoop`: `TypeOK`, `OkMeansDelivered` | `WaitLoopProofs`: `TypeCorrect`, `OkMeansDeliveredHolds` |
| `RuntimeOverrides`: `TypeOK`, `UnmanagedPreserved`, `ManagedWhole`, `LastCallWinsAlone` | `RuntimeOverridesProofs`: `TypeCorrect`, one `...Holds` each |
| `DiskWatchdog`: `TypeOK`, `PauseIsClaimed`, `ResumeAfterRelief` | `DiskWatchdogProofs`: `TypeCorrect`, `PauseIsClaimedHolds`, `ResumeAfterReliefHolds` |
| `TenantScan`: `TypeOK`, `NoUndercount` | `TenantScanProofs`: `TypeCorrect`, `NoUndercountHolds` |

**PipelineProofs.** The invariant is
`TypeInv /\ EndInv /\ LedgerInv /\ CoverInv /\ BudgetInv /\ IdleInv`.
`SuccessIsComplete` speaks only of the return, so the invariant must say where
each sample is before it: passed samples are in the log or in the open batch
(`CoverInv`), each taken batch is acknowledged or in a writer's hands
(`LedgerInv`), and goroutines that ended without an error left nothing behind
(`EndInv`). `BudgetInv` bounds the open batch as well as the flushed ones, and
`IdleInv` says that no goroutine runs before the start or after the return. The
refinement: a step delivers samples of taken batches, announces the outcome, or is
a stutter of `Transfer`.

**PipelineStatsProofs** adds `FrontInv /\ ApartInv /\ HandInv /\ CountInv`. That two
batches share no sample is inductive only with the batcher's position: what it has
packed lies behind the series it works on and, while it splits that one, behind
`offset` (`FrontInv`), so each new window is apart from all others, those of the
open batch included (`ApartInv`). A batch is in one writer's hands and not yet
acknowledged (`HandInv`), so each acknowledgement adds a new batch and, by
`ApartInv`, samples that were not counted before: the sums of the counters are
cardinalities (`CountInv`).

`ByteCountIsReal` compares the running byte count with `MapThenSumSet`, a function
defined by recursion on subsets. The library's induction theorems take a predicate
as a parameter and cannot be used, but that every non-empty set of naturals has a
least element can (`LeastNumber`, from `WFMin`). So the lemmas about the sum look at
a set of least cardinality where they fail: two solutions of the recursion agree
(`SumsAgree`), one exists over a finite set (`SumsExist`), and any element may be
taken out first (`TotalRemove`). With `FrontInv`, an appended series is new to its
batch, so adding its size is right (`StepReal`).

**PipelineProgressProofs.** Why a run ends, in three parts. No circular wait: a
writer waits only for the batcher; the batcher waits for the writers only while
batches are queued, and otherwise for the reader; the reader waits for the batcher
only while series are queued; and a goroutine that left early has cancelled `gctx`
(`CancelInv` with `EndInv`), on which every blocking send also selects. Every step
counts: `WorkLeft` lists what is left, from Run's phase over cancellation, reader and
batcher down to the queued batches and the writers, and each action lowers one part
and raises none before it; for the window loops this needs `CursorInv` (an open
window is not empty, so sending it moves `offset`) and the guard that a single sample
is not halved. And `WorkLeft` is a tuple of naturals (`WorkIsCounted`), whose order
allows no endless descent (`WorkWellFounded`). So no run has infinitely many steps,
and until the end some goroutine is not blocked. What this leaves to TLC is the last
step to `Terminates`: that a goroutine which does not wait has an enabled action, and
that a fair scheduler takes it.

**TaskQueueProofs.** The invariant is `QueueType /\ PostInv /\ DeleteInv /\
HandlerInv /\ SuccessInv /\ BusyInv /\ BlankInv`. Its core is `HandlerInv`, the relation of
handler goroutines to the queue: a supervised handler's task is active and has no
other supervisor, one that is not supervised has its context done, none is
supervised once the TSDB is closed and none exists while the process is down.
`SuccessInv` moves the truth of "completed" back to the handler that is about to
write it: a handler past a successful `Run` works on a delivered task, so it may
crash, be abandoned or be late, and the hash, the history file and the queue entry
it writes are still true. `BusyInv` says of an "active" hash more than
`ActiveIsRunning`: the handler behind it has still to write the final state. `PostInv`
and `DeleteInv` hold the locals of the two requests between their steps; the targets
of a DELETE are tasks of its project even if they changed state after they were listed.
The refinement maps every action to at most one step of `TaskContract` per task.

**WaitLoopProofs.** A tracked task is followed through one listing (`ListingInv`):
still to be read, or counted in a counter that is not 0, or delivered. The contract
keeps "delivered" for ever and allows "completed" only then (`ShownInv`), which is
what makes a listing that is no snapshot good enough.

**RuntimeOverridesProofs.** The invariant claims for every document a caller has read
what it claims for the ConfigMap, since a stale copy is what a later patch writes: it
is the first document, or one that an edit has passed (`Passed`), or one that goes back
to the script's (`LosesForeign`). `EditDoc` shows that both edits take each kind to the
second or the third, through what `extractOverrides` lets them see of an entry
(`ExtractEntry`), and `ReplacedDoc` that the script's document is of the third. `LastCallWinsAlone` needs `AloneInv`: as
long as no calls overlap, the document a caller holds is the one in the ConfigMap. It
also needs `Settled` to say more than the property: after a revert a tenant's entry is
gone or still a non-empty map, because an entry that is neither could be changed by
the next call for another tenant.

**DiskWatchdogProofs.** `ReliefInv` follows the maximum through the poll: a node the
job has passed was low since the pause, could not be read, or keeps the maximum above
the resume threshold. `ClaimInv` adds to `PauseIsClaimed` the resume between its
scale and its annotate.

**TenantScanProofs.** `CoverInv` says that each series that was there when the
directory was read has been counted, has been missed, or is in a block whose turn is
still to come; `CountInv` that a count is no lower than the number of distinct series
counted. It uses that compaction writes and deletes whole blocks (`StoreInv`) and that
a block adds at least its new series to the counts (`UnionBound`).

Only model-checked: the liveness properties `Terminates`, `EveryTaskSettles`,
`SettledTasksGoQuiet`, `FullDiskPauses` and `LowDiskResumes`, since fairness and `ENABLED` are out of the
prover's reach.

## 5. Not modelled

Two things a reader of the code should know that the models leave out: the budget of
a batch adds up `TimeSeries.Size()`, so the encoded request is larger by the framing
of its series (`pipeline.go:123`); and no update clears the `error` field of a hash,
so a completed task can show the error of an earlier attempt (`handler.go:138`).

Also left out: payloads, log texts, JSON and ETA arithmetic; `taskIDFromTask`'s fallback id; the
nil `OpenProvider` and malformed payload paths of `ProcessTask` (the server wires
the former and only `NewMigrateTask` makes the latter); the value kinds of
samples in `Reader.Read`; a patch that the API server applies after its caller
gave up; the `NoopApplier` used without a kubeconfig; the script's argument parsing
and its poll for the reloaded configuration; more than one replica (the watchdog
scales between 0 and 1). The keystone plugins belong to the gateway and share no
state with the migrator; the TSDB provider, the cortex-tenant probe and the
migrator CLI are single calls whose success or failure is an input. Components with status
`not_modelled` are listed with their reasons in `PROJECT.json`.

## 6. Plan

Modelled: the pipeline (the data path), the queue around it and its contract, the
overrides with the operator's script, the wait loop, the disk watchdog and the tenant
scan. Proved: every safety property the runs check, both refinements, and for the
pipeline the argument for termination up to fairness. What is left:

1. `SampleReader`: the value kinds of a series iterator against what `Read` collects
   (`reader.go:153`).
2. `Pipeline`: the order in which a series' samples are flushed, on top of `FrontInv`.
3. `TaskQueue`: the `error` field of a hash (`handler.go:138`), which no update clears,
   and a measure like `WorkLeft` for the attempts of a task.
