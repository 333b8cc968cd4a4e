------------------------------ MODULE TaskQueue ------------------------------
(***************************************************************************)
(* The migrator service around migration.Run: POST /migrate and DELETE     *)
(* /tasks, the asynq queue, MigrationHandler.ProcessTask, the progress     *)
(* hashes in Redis, the history log, and the server's boot, drain, crash   *)
(* and restart.  A task's queue entry and its progress hash are separate   *)
(* Redis keys that three actors write without any common transaction.      *)
(*                                                                         *)
(* asynq is modelled from its use here: at-least-once, one supervising     *)
(* goroutine per task that stops waiting for the handler as soon as the    *)
(* task's context is done or the shutdown timeout has passed.  A handler   *)
(* it no longer waits for keeps running (held = FALSE).                    *)
(***************************************************************************)
EXTENDS Integers, Sequences, FiniteSets, SequencesExt

CONSTANTS
  NTasks,       \* tasks ever created
  ProjectOf,    \* the project a task migrates
  MaxRetry,     \* asynq.MaxRetry(3)
  Concurrency,  \* QUEUE_CONCURRENCY
  PageSize,     \* asynq.Inspector's default page size
  StoreFaults,  \* may other Redis calls and history writes fail?
  OpenMayFail,  \* may OpenProvider fail? (the server's closure never does)
  MayAbort,     \* may the shutdown timeout pass before the drain is complete?
  MaxExecs,     \* bound: handler goroutines alive at once
  MaxCancels,   \* bound: task timeouts
  MaxStops,     \* bound: crashes and shutdowns of the server
  MaxDeletes    \* bound: DELETE requests

Tasks == 1..NTasks
Slots == 1..MaxExecs

ASSUME TaskQueueAssumption ==
  /\ NTasks \in Nat /\ MaxRetry \in Nat /\ Concurrency \in Nat \ {0} /\ PageSize \in Nat \ {0}
  /\ DOMAIN ProjectOf = Tasks
  /\ StoreFaults \in BOOLEAN /\ OpenMayFail \in BOOLEAN /\ MayAbort \in BOOLEAN
  /\ MaxExecs \in Nat \ {0} /\ MaxCancels \in Nat /\ MaxStops \in Nat /\ MaxDeletes \in Nat

All == "all"
Projects == {ProjectOf[t] : t \in Tasks}

VARIABLES
  server,     \* "down", "up", "draining", "closed" (TSDB closed, HTTP still up)
  q, retried, \* asynq: state of each task, and how often it was retried
  cancelReq,  \* asynq: published cancellations not yet delivered
  prog,       \* progress hash: "absent", "blank" (no state field) or its state
  hist,       \* states logged to the history file
  exec,       \* handler goroutines
  delivered,  \* tasks for which migration.Run has returned nil
  mpc, left, created,          \* POST /migrate: control point, tasks to go, tasks made
  dpc, dproj, targets, dactive, di, \* DELETE /tasks: control point and locals
  removed,    \* tasks DeleteTask took out of the queue
  unrecorded, \* history: tasks whose last update of the hash was lost
  cancels, stops, deletes      \* spent bounds

queue == <<q, retried, cancelReq>>
api == <<mpc, left, created>>
delete == <<dpc, dproj, targets, dactive, di, removed, deletes>>
vars == <<server, queue, prog, hist, exec, delivered, api, delete, unrecorded, cancels, stops>>

\* A request's locals are gone with it.
DeleteEnds == dpc' = "idle" /\ dproj' = All /\ targets' = <<>> /\ dactive' = {} /\ di' = 1

NoExec == [task |-> 0, pc |-> "free", cancelled |-> FALSE, held |-> FALSE]
Free(e) == exec[e].task = 0
Held == {e \in Slots : exec[e].held}
Owner(t) == {e \in Held : exec[e].task = t}

Init ==
  /\ server = "down"
  /\ q = [t \in Tasks |-> "none"] /\ retried = [t \in Tasks |-> 0] /\ cancelReq = {}
  /\ prog = [t \in Tasks |-> "absent"]
  /\ hist = [t \in Tasks |-> {}] /\ exec = [e \in Slots |-> NoExec] /\ delivered = {}
  /\ mpc = "idle" /\ left = 0 /\ created = 0
  /\ dpc = "idle" /\ dproj = All /\ targets = <<>> /\ dactive = {} /\ di = 1 /\ removed = {}
  /\ unrecorded = {}
  /\ cancels = 0 /\ stops = 0 /\ deletes = 0

----------------------------------------------------------------------------
(* Server lifecycle.                                                       *)

StaleActive == {t \in Tasks : prog[t] = "active"}

\* ReconcileStaleActive, one update per hash; an error ends it early.
Reconcile ==
  \E S \in SUBSET StaleActive :
    /\ S = StaleActive \/ StoreFaults
    /\ prog' = [t \in Tasks |-> IF t \in S THEN "failed" ELSE prog[t]]
    /\ unrecorded' = (unrecorded \cup StaleActive) \ S

\* main up to the start of the worker and the listener.  It exits before the
\* reconciliation if the probe of CORTEX_URL fails (no step) and after it if
\* the TSDB does not open.
Boot ==
  /\ server = "down" /\ Reconcile
  /\ server' \in {"up", "down"}
  /\ UNCHANGED <<queue, hist, exec, delivered, api, delete, cancels, stops>>

BeginDrain ==
  /\ server = "up" /\ stops < MaxStops
  /\ server' = "draining" /\ stops' = stops + 1
  /\ UNCHANGED <<queue, prog, hist, exec, delivered, api, delete, unrecorded, cancels>>

\* Fault: the TSDB is closed before the workers have drained.
CloseWithoutDrain ==
  /\ server = "draining"
  /\ server' = "closed"
  /\ UNCHANGED <<queue, prog, hist, exec, delivered, api, delete, unrecorded, cancels, stops>>

\* asynqServer.Shutdown() returns when every worker token is back; then
\* dbCloser.Close().
CloseDB ==
  /\ server = "draining" /\ Held = {}
  /\ server' = "closed"
  /\ UNCHANGED <<queue, prog, hist, exec, delivered, api, delete, unrecorded, cancels, stops>>

ProcessGone ==
  /\ server' = "down"
  /\ exec' = [e \in Slots |-> NoExec] /\ cancelReq' = {}
  /\ mpc' = "idle" /\ left' = 0 /\ DeleteEnds
  /\ UNCHANGED <<q, retried, prog, hist, delivered, created, removed, deletes, unrecorded, cancels>>

\* http.Server.Shutdown waits 30 seconds for requests in flight; whatever it
\* returns, the process then exits.
ExitServer ==
  /\ server = "closed"
  /\ ProcessGone /\ UNCHANGED stops

\* OOM kill, eviction, SIGKILL.
Crash ==
  /\ server # "down" /\ stops < MaxStops
  /\ ProcessGone /\ stops' = stops + 1

----------------------------------------------------------------------------
(* POST /migrate, one request at a time.                                   *)

apiFrame ==
  UNCHANGED <<server, retried, cancelReq, hist, exec, delivered, delete, unrecorded, cancels, stops>>

MigrateStart ==
  /\ server # "down" /\ mpc = "idle"
  /\ \E n \in 1..(NTasks - created) : left' = n
  /\ mpc' = "apply"
  /\ UNCHANGED <<q, prog, created>> /\ apiFrame

\* ApplyOverrides fails: 500 and nothing is queued.
MigrateApply ==
  /\ mpc = "apply"
  /\ \/ mpc' = "enqueue" /\ UNCHANGED left
     \/ mpc' = "idle" /\ left' = 0
  /\ UNCHANGED <<q, prog, created>> /\ apiFrame

Enqueued ==
  /\ created' = created + 1
  /\ q' = [q EXCEPT ![created + 1] = "pending"]

\* Enqueue fails: 500, but the tasks queued before it stay queued, and so does
\* the one whose reply from Redis was lost.
MigrateEnqueue ==
  /\ mpc = "enqueue"
  /\ \/ Enqueued /\ left' = left - 1 /\ mpc' = "report"
     \/ mpc' = "idle" /\ left' = 0 /\ UNCHANGED <<q, created>>
     \/ StoreFaults /\ mpc' = "idle" /\ left' = 0 /\ Enqueued
  /\ UNCHANGED prog /\ apiFrame

\* The hash is written after the task is already visible to the workers; the
\* result is ignored, so a client that hung up may leave no hash at all.
MigrateReport ==
  /\ mpc = "report"
  /\ \/ prog' = [prog EXCEPT ![created] = "pending"]
     \/ StoreFaults /\ UNCHANGED prog
  /\ mpc' = IF left > 0 THEN "enqueue" ELSE "idle"
  /\ UNCHANGED <<q, left, created>> /\ apiFrame

----------------------------------------------------------------------------
(* asynq (external): dequeue, retry, archive, lease recovery, cancellation.*)

asynqFrame == UNCHANGED <<server, prog, hist, delivered, api, delete, unrecorded, stops>>

Dequeue(t) ==
  /\ server = "up" /\ q[t] = "pending" /\ Cardinality(Held) < Concurrency
  /\ \E e \in Slots :
       /\ Free(e) /\ \A f \in Slots : f < e => ~Free(f)
       /\ exec' = [exec EXCEPT ![e] = [task |-> t, pc |-> "start", cancelled |-> FALSE, held |-> TRUE]]
  /\ q' = [q EXCEPT ![t] = "active"]
  /\ UNCHANGED <<retried, cancelReq, cancels>> /\ asynqFrame

\* Fault: a failed task is always retried.
FailMessageForever(t) ==
  /\ q' = [q EXCEPT ![t] = "retry"]
  /\ retried' = [retried EXCEPT ![t] = @ + 1]

\* A failed attempt is retried until MaxRetry is used up, then archived.
FailMessage(t) ==
  IF retried[t] >= MaxRetry
  THEN q' = [q EXCEPT ![t] = "archived"] /\ UNCHANGED retried
  ELSE q' = [q EXCEPT ![t] = "retry"] /\ retried' = [retried EXCEPT ![t] = @ + 1]

Forward(t) ==
  /\ server = "up" /\ q[t] = "retry"
  /\ q' = [q EXCEPT ![t] = "pending"]
  /\ UNCHANGED <<retried, cancelReq, exec, cancels>> /\ asynqFrame

\* The lease of a task whose process died has expired.
Recover(t) ==
  /\ server = "up" /\ q[t] = "active" /\ Owner(t) = {}
  /\ FailMessage(t)
  /\ UNCHANGED <<cancelReq, exec, cancels>> /\ asynqFrame

\* asynq.Timeout(6h) of a running task.
TaskTimeout(e) ==
  /\ exec[e].held /\ ~exec[e].cancelled /\ cancels < MaxCancels
  /\ exec' = [exec EXCEPT ![e].cancelled = TRUE] /\ cancels' = cancels + 1
  /\ UNCHANGED queue /\ asynqFrame

DeliverCancel(t) ==
  /\ t \in cancelReq
  /\ cancelReq' = cancelReq \ {t}
  /\ exec' = [e \in Slots |-> IF e \in Owner(t) THEN [exec[e] EXCEPT !.cancelled = TRUE] ELSE exec[e]]
  /\ UNCHANGED <<q, retried, cancels>> /\ asynqFrame

\* The supervisor sees ctx.Done() before the handler's result.
LetGo(e) ==
  /\ exec[e].held /\ exec[e].cancelled
  /\ FailMessage(exec[e].task)
  /\ exec' = [exec EXCEPT ![e].held = FALSE]
  /\ UNCHANGED <<cancelReq, cancels>> /\ asynqFrame

\* The shutdown timeout: the task goes back to the queue, the handler's
\* context is cancelled and nobody waits for it.
Abort(e) ==
  /\ MayAbort /\ server = "draining" /\ exec[e].held
  /\ q' = [q EXCEPT ![exec[e].task] = "pending"]
  /\ exec' = [exec EXCEPT ![e].held = FALSE, ![e].cancelled = TRUE]
  /\ UNCHANGED <<retried, cancelReq, cancels>> /\ asynqFrame

----------------------------------------------------------------------------
(* ProcessTask.                                                            *)

handlerFrame == UNCHANGED <<server, queue, api, delete, cancels, stops>>

Goto(e, l) == exec' = [exec EXCEPT ![e].pc = l]

\* Store.Update on the task's context; its error is only logged.
Update(e, state) ==
  \/ /\ prog' = [prog EXCEPT ![exec[e].task] = state]
     /\ unrecorded' = unrecorded \ {exec[e].task}
  \/ /\ exec[e].cancelled \/ StoreFaults
     /\ unrecorded' = unrecorded \cup {exec[e].task} /\ UNCHANGED prog

\* Fault: the start of an attempt is not recorded.
StartTaskUnrecorded(e) ==
  /\ exec[e].pc = "start" /\ Goto(e, "open")
  /\ UNCHANGED <<prog, hist, delivered, unrecorded>> /\ handlerFrame

StartTask(e) ==
  /\ exec[e].pc = "start"
  /\ Update(e, "active") /\ Goto(e, "open")
  /\ UNCHANGED <<hist, delivered>> /\ handlerFrame

\* Fault: a TSDB-open failure returns without the failure bookkeeping.
OpenTSDBUnrecorded(e) ==
  /\ exec[e].pc = "open"
  /\ Goto(e, "run") \/ (OpenMayFail /\ Goto(e, "returnErr"))
  /\ UNCHANGED <<prog, hist, delivered, unrecorded>> /\ handlerFrame

OpenTSDB(e) ==
  /\ exec[e].pc = "open"
  /\ Goto(e, "run") \/ (OpenMayFail /\ Goto(e, "fail"))
  /\ UNCHANGED <<prog, hist, delivered, unrecorded>> /\ handlerFrame

\* progressFn writes counters only: it creates a hash without a state when
\* the hash has been deleted.
ReportCounters(e) ==
  /\ exec[e].pc = "run" /\ prog[exec[e].task] = "absent"
  /\ prog' = [prog EXCEPT ![exec[e].task] = "blank"]
  /\ UNCHANGED <<exec, hist, delivered, unrecorded>> /\ handlerFrame

RunSucceeds(e) ==
  /\ exec[e].pc = "run"
  /\ delivered' = delivered \cup {exec[e].task} /\ Goto(e, "complete")
  /\ UNCHANGED <<prog, hist, unrecorded>> /\ handlerFrame

\* Fault: the error of migration.Run is dropped.
RunFailsUnnoticed(e) ==
  /\ exec[e].pc = "run" /\ Goto(e, "complete")
  /\ UNCHANGED <<prog, hist, delivered, unrecorded>> /\ handlerFrame

\* Fault: the handler runs a failed migration again by itself.
RunFailsRetrying(e) ==
  /\ exec[e].pc = "run" /\ Goto(e, "open")
  /\ UNCHANGED <<prog, hist, delivered, unrecorded>> /\ handlerFrame

RunFails(e) ==
  /\ exec[e].pc = "run" /\ Goto(e, "fail")
  /\ UNCHANGED <<prog, hist, delivered, unrecorded>> /\ handlerFrame

\* HistoryLogger.Append; an error is only logged, and history may be disabled.
AppendHistory(t, state) ==
  \/ hist' = [hist EXCEPT ![t] = @ \cup {state}]
  \/ StoreFaults /\ UNCHANGED hist

RecordCompleted(e) ==
  /\ exec[e].pc = "complete"
  /\ Update(e, "completed") /\ Goto(e, "logCompleted")
  /\ UNCHANGED <<hist, delivered>> /\ handlerFrame

RecordFailed(e) ==
  /\ exec[e].pc = "fail"
  /\ Update(e, "failed") /\ Goto(e, "logFailed")
  /\ UNCHANGED <<hist, delivered>> /\ handlerFrame

LogCompleted(e) ==
  /\ exec[e].pc = "logCompleted"
  /\ AppendHistory(exec[e].task, "completed") /\ Goto(e, "returnOk")
  /\ UNCHANGED <<prog, delivered, unrecorded>> /\ handlerFrame

\* Fault: a failed migration is reported to asynq as done.
LogFailedReturningNil(e) ==
  /\ exec[e].pc = "logFailed"
  /\ AppendHistory(exec[e].task, "failed") /\ Goto(e, "returnOk")
  /\ UNCHANGED <<prog, delivered, unrecorded>> /\ handlerFrame

\* Fault: HistoryLogger.Append keeps its mutex, so a second append blocks.
LogFailedKeepingMutex(e) ==
  /\ exec[e].pc = "logFailed" /\ \A t \in Tasks : hist[t] = {}
  /\ AppendHistory(exec[e].task, "failed") /\ Goto(e, "returnErr")
  /\ UNCHANGED <<prog, delivered, unrecorded>> /\ handlerFrame

LogFailed(e) ==
  /\ exec[e].pc = "logFailed"
  /\ AppendHistory(exec[e].task, "failed") /\ Goto(e, "returnErr")
  /\ UNCHANGED <<prog, delivered, unrecorded>> /\ handlerFrame

\* Fault: the result of a handler nobody waits for still settles the task.
ReturnLate(e) ==
  /\ exec[e].pc \in {"returnOk", "returnErr"}
  /\ IF exec[e].pc = "returnErr" THEN FailMessage(exec[e].task)
     ELSE q' = [q EXCEPT ![exec[e].task] = "gone"] /\ UNCHANGED retried
  /\ exec' = [exec EXCEPT ![e] = NoExec]
  /\ UNCHANGED <<cancelReq, cancels>> /\ asynqFrame

\* The result reaches the supervisor, or nobody if it has let go.
Return(e) ==
  /\ exec[e].pc \in {"returnOk", "returnErr"}
  /\ IF ~exec[e].held THEN UNCHANGED <<q, retried>>
     ELSE IF exec[e].pc = "returnErr" THEN FailMessage(exec[e].task)
     ELSE q' = [q EXCEPT ![exec[e].task] = "gone"] /\ UNCHANGED retried
  /\ exec' = [exec EXCEPT ![e] = NoExec]
  /\ UNCHANGED <<cancelReq, cancels>> /\ asynqFrame

ProcessTask(e) ==
  \/ StartTask(e) \/ OpenTSDB(e) \/ ReportCounters(e) \/ RunSucceeds(e) \/ RunFails(e)
  \/ RecordCompleted(e) \/ RecordFailed(e) \/ LogCompleted(e) \/ LogFailed(e) \/ Return(e)

----------------------------------------------------------------------------
(* DELETE /tasks.  No task is ever scheduled or retained once completed,   *)
(* so those two of the six listings are always empty.  A listing or the    *)
(* progress deletion may always fail.                                      *)

deleteFrame ==
  UNCHANGED <<server, retried, hist, exec, delivered, api, unrecorded, cancels, stops>>

ListOrder == <<"pending", "active", "retry", "archived">>

DeleteStart ==
  /\ server # "down" /\ dpc = "idle" /\ deletes < MaxDeletes
  /\ dproj' \in Projects \cup {All}
  /\ dpc' = "list" /\ di' = 1 /\ targets' = <<>> /\ dactive' = {} /\ deletes' = deletes + 1
  /\ UNCHANGED <<q, cancelReq, prog, removed>> /\ deleteFrame

\* One page of the tasks in a state, all of them if there are no more.
Pages(state) ==
  LET there == {t \in Tasks : q[t] = state} IN kSubset(Min({PageSize, Cardinality(there)}), there)

\* Fault: the project filter is missing.
ListedUnfiltered(state) == UNION {SetToSeqs(page) : page \in Pages(state)}

\* What a listing may yield: its page in the order asynq keeps (by time of
\* arrival, retry or failure), other projects' tasks skipped.
Listed(state) ==
  UNION {SetToSeqs({t \in page : dproj \in {All, ProjectOf[t]}}) : page \in Pages(state)}

DeleteList ==
  /\ dpc = "list"
  /\ \E found \in Listed(ListOrder[di]) :
       /\ targets' = targets \o found
       /\ dactive' = IF ListOrder[di] = "active" THEN dactive \cup ToSet(found)
                     ELSE dactive \ ToSet(found)
  /\ IF di < Len(ListOrder) THEN di' = di + 1 /\ UNCHANGED dpc ELSE di' = 1 /\ dpc' = "cancel"
  /\ UNCHANGED <<q, cancelReq, prog, dproj, removed, deletes>> /\ deleteFrame

DeleteCancel ==
  /\ dpc = "cancel"
  /\ cancelReq' = cancelReq \cup dactive
  /\ dpc' = "tasks"
  /\ UNCHANGED <<q, prog, dproj, targets, dactive, di, removed, deletes>> /\ deleteFrame

\* Fault: an active task is taken out of the queue under its worker.
DeleteTaskEvenActive ==
  /\ dpc = "tasks" /\ di <= Len(targets)
  /\ LET t == targets[di] IN
     IF q[t] = "gone" THEN UNCHANGED <<q, removed>>
     ELSE q' = [q EXCEPT ![t] = "gone"] /\ removed' = removed \cup {t}
  /\ di' = di + 1
  /\ UNCHANGED <<cancelReq, prog, dpc, dproj, targets, dactive, deletes>> /\ deleteFrame

\* Inspector.DeleteTask refuses an active task and does not find one that is
\* gone; neither that nor a Redis error ends the request.
DeleteTask ==
  /\ dpc = "tasks" /\ di <= Len(targets)
  /\ LET t == targets[di]
         deletable == q[t] \in {"pending", "retry", "archived"}
     IN  \/ /\ deletable
            /\ q' = [q EXCEPT ![t] = "gone"] /\ removed' = removed \cup {t}
         \/ (~deletable \/ StoreFaults) /\ UNCHANGED <<q, removed>>
  /\ di' = di + 1
  /\ UNCHANGED <<cancelReq, prog, dpc, dproj, targets, dactive, deletes>> /\ deleteFrame

\* ProgressStore.DeleteAll, or Delete of the targets, key by key.  An error
\* answers 500 with the rest of the keys still there.
DeleteProgress ==
  /\ dpc = "tasks" /\ di > Len(targets)
  /\ LET doomed == IF dproj = All THEN Tasks ELSE ToSet(targets) IN
     \E gone \in SUBSET doomed :
       /\ prog' = [t \in Tasks |-> IF t \in gone THEN "absent" ELSE prog[t]]
       /\ \/ /\ gone = doomed
             /\ dpc' = "reply" /\ UNCHANGED <<dproj, targets, dactive, di>>
          \/ DeleteEnds
  /\ UNCHANGED <<q, cancelReq, removed, deletes>> /\ deleteFrame

\* A failed listing answers 500 before anything is touched.
DeleteFails ==
  /\ dpc = "list"
  /\ DeleteEnds
  /\ UNCHANGED <<q, cancelReq, prog, removed, deletes>> /\ deleteFrame

DeleteReply ==
  /\ dpc = "reply" /\ DeleteEnds
  /\ UNCHANGED <<q, cancelReq, prog, removed, deletes>> /\ deleteFrame

----------------------------------------------------------------------------
Server == Boot \/ BeginDrain \/ CloseDB \/ ExitServer \/ Crash
Migrate == MigrateStart \/ MigrateApply \/ MigrateEnqueue \/ MigrateReport
Asynq ==
  \/ \E t \in Tasks : Dequeue(t) \/ Forward(t) \/ Recover(t) \/ DeliverCancel(t)
  \/ \E e \in Slots : TaskTimeout(e) \/ LetGo(e) \/ Abort(e)
Delete == DeleteStart \/ DeleteList \/ DeleteCancel \/ DeleteTask \/ DeleteProgress \/ DeleteFails \/ DeleteReply

Next == Server \/ Migrate \/ Asynq \/ (\E e \in Slots : ProcessTask(e)) \/ Delete

Spec == Init /\ [][Next]_vars

\* Kubernetes restarts the pod and the TSDB opens sooner or later; a drain
\* ends because handlers do; asynq's processor, forwarder and recoverer run
\* for ever; a handler's steps terminate because migration.Run does.
Fairness ==
  /\ WF_vars(Boot /\ server' = "up") /\ WF_vars(CloseDB) /\ WF_vars(ExitServer)
  /\ WF_vars(MigrateApply \/ MigrateEnqueue \/ MigrateReport)
  /\ WF_vars(DeleteList \/ DeleteCancel \/ DeleteTask \/ DeleteProgress \/ DeleteReply)
  /\ \A t \in Tasks : WF_vars(Dequeue(t)) /\ WF_vars(Forward(t)) /\ WF_vars(Recover(t))
  /\ \A e \in Slots : WF_vars(ProcessTask(e))

FairSpec == Spec /\ Fairness

----------------------------------------------------------------------------
(* Properties.                                                             *)

\* Types; in particular a task is retried at most MaxRetry times.
TypeOK ==
  /\ server \in {"down", "up", "draining", "closed"}
  /\ q \in [Tasks -> {"none", "pending", "active", "retry", "archived", "gone"}]
  /\ retried \in [Tasks -> 0..MaxRetry] /\ cancelReq \subseteq Tasks
  /\ prog \in [Tasks -> {"absent", "blank", "pending", "active", "failed", "completed"}]
  /\ hist \in [Tasks -> SUBSET {"completed", "failed"}]
  /\ \A e \in Slots :
       /\ exec[e].task \in 0..NTasks
       /\ exec[e].pc \in {"free", "start", "open", "run", "complete", "fail", "logCompleted",
                          "logFailed", "returnOk", "returnErr"}
       /\ exec[e].cancelled \in BOOLEAN /\ exec[e].held \in BOOLEAN
  /\ delivered \subseteq Tasks
  /\ mpc \in {"idle", "apply", "enqueue", "report"} /\ left \in 0..NTasks /\ created \in 0..NTasks
  /\ dpc \in {"idle", "list", "cancel", "tasks", "reply"} /\ dproj \in Projects \cup {All}
  /\ targets \in Seq(Tasks) /\ dactive \subseteq Tasks /\ removed \subseteq Tasks
  /\ unrecorded \subseteq Tasks
  /\ di \in 1..(Len(targets) + Len(ListOrder) + 1)

\* A task leaves the queue for good only because its migration succeeded or
\* because DELETE took it out: no crash, timeout, abort, retry or late result
\* of an abandoned handler loses it.
NoLostTask ==
  \A t \in Tasks :
    q[t] = "gone" => t \in removed \/ t \in delivered

\* "completed", in Redis and in the history file, is said only of tasks for
\* which migration.Run returned nil.
CompletedIsTrue ==
  \A t \in Tasks : prog[t] = "completed" \/ "completed" \in hist[t] => t \in delivered

\* While the server runs, a hash says "active" only if a handler is at work
\* on that task: a restart, an open failure, a retry or a drain never leaves a
\* task looking busy, unless the last update of its hash was itself lost.
ActiveIsRunning ==
  server # "down" =>
    \A t \in Tasks \ unrecorded : prog[t] = "active" => \E e \in Slots : exec[e].task = t

\* dbCloser.Close() follows the drain: a handler that is still in migration.Run
\* once the TSDB is closed is one that asynq gave up on, its context done, so
\* Run is on its way out and no supervised migration reads a closed TSDB.
ReadersAreCancelled ==
  server = "closed" => \A e \in Slots : exec[e].pc = "run" => exec[e].cancelled /\ ~exec[e].held

\* "Drain asynq workers first so no goroutine is mid-Select on the shared DB
\* when it closes": once the TSDB is closed no handler is in migration.Run.
NoReadAfterClose == server = "closed" => \A e \in Slots : exec[e].pc # "run"

\* A hash without a state, which GET /status counts in its total only, has one
\* of two causes: a DELETE wiped it under a running handler, or the update that
\* should have set the state was lost.
BlankIsExplained == \A t \in Tasks : prog[t] = "blank" => deletes > 0 \/ t \in unrecorded

\* DELETE ?project_id=p touches no other project's queue entry or hash, even
\* when tasks move between states while they are being listed.
DeleteSparesOthers ==
  [][\A t \in Tasks :
       \/ prog[t] # "absent" /\ prog'[t] = "absent"
       \/ t \in removed' \ removed
       => dproj \in {All, ProjectOf[t]}]_vars

\* Every queued task ends: done, deleted or archived after its last retry,
\* through crashes, drains, restarts, timeouts and requeues.
EveryTaskSettles ==
  \A t \in Tasks : (q[t] = "pending") ~> (q[t] \in {"gone", "archived"})

\* Once a task is done, deleted or archived, the handlers that asynq no longer
\* waits for end too: none of them, and no retry, is left sending or recording
\* for it, and its hash does not go on saying "active" unless its last update
\* was lost.
SettledTasksGoQuiet ==
  \A t \in Tasks :
    q[t] \in {"gone", "archived"}
      ~> [](/\ \A e \in Slots : exec[e].task # t
            /\ prog[t] = "active" => t \in unrecorded)

\* The final state in Redis is "completed" or "failed": a task that is over,
\* with no request in flight, does not show anything else.
FinalStateIsTerminal ==
  \A t \in Tasks :
    /\ q[t] \in {"gone", "archived"} /\ t \notin removed
    /\ mpc = "idle" /\ \A e \in Slots : exec[e].task # t
    => prog[t] \in {"completed", "failed"}

\* "The progress store is updated first so the failure state is observable":
\* when ProcessTask returns an error, the hash no longer says "active".
FailureIsObservable ==
  \A e \in Slots : exec[e].pc = "returnErr" => prog[exec[e].task] # "active"

\* The service keeps its contract: asynq's state of a task, the migrations that
\* returned nil and the hashes move as TaskContract allows, through every crash,
\* retry, requeue, late result and DELETE.
QueueState(t) ==
  CASE q[t] = "gone" /\ t \in removed -> "removed"
    [] q[t] = "gone" /\ t \notin removed -> "done"
    [] q[t] \in {"pending", "active", "retry"} -> "queued"
    [] OTHER -> q[t]

Contract == INSTANCE TaskContract WITH queue <- [t \in Tasks |-> QueueState(t)], shown <- prog
ImplementsContract == Contract!ContractSpec
============================================================================
