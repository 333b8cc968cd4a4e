--------------------------- MODULE TaskQueueProofs ---------------------------
(***************************************************************************)
(* For any number of tasks, projects, retries, workers, handler goroutines,*)
(* crashes, timeouts and DELETE requests: the safety properties of         *)
(* TaskQueue and its refinement of TaskContract.                           *)
(***************************************************************************)
EXTENDS TaskQueue, FiniteSetTheorems, TLAPS

\* What asynq says of a task, what its hash says, and where its handler is.
QStates == {"none", "pending", "active", "retry", "archived", "gone"}
PStates == {"absent", "blank", "pending", "active", "failed", "completed"}
Labels == {"free", "start", "open", "run", "complete", "fail", "logCompleted", "logFailed",
           "returnOk", "returnErr"}
Execs == [task : 0..NTasks, pc : Labels, cancelled : BOOLEAN, held : BOOLEAN]

\* TypeOK with exec as a function, which a proof needs.
QueueType ==
  /\ server \in {"down", "up", "draining", "closed"}
  /\ q \in [Tasks -> QStates] /\ retried \in [Tasks -> 0..MaxRetry] /\ cancelReq \subseteq Tasks
  /\ prog \in [Tasks -> PStates] /\ hist \in [Tasks -> SUBSET {"completed", "failed"}]
  /\ exec \in [Slots -> Execs]
  /\ delivered \subseteq Tasks /\ removed \subseteq Tasks /\ unrecorded \subseteq Tasks

\* The locals of a POST: the loop has created a task before it reports one,
\* and never asks for more than NTasks.
PostInv ==
  /\ mpc \in {"idle", "apply", "enqueue", "report"}
  /\ left \in Nat /\ created \in Nat /\ left + created <= NTasks
  /\ mpc \in {"apply", "enqueue"} => left >= 1
  /\ mpc = "report" => created >= 1
  /\ \A t \in Tasks : q[t] = "none" <=> t > created

\* The locals of a DELETE; its targets are tasks of the project it names.
DeleteInv ==
  /\ dpc \in {"idle", "list", "cancel", "tasks", "reply"} /\ dproj \in Projects \cup {All}
  /\ targets \in Seq(Tasks) /\ dactive \subseteq Tasks /\ deletes \in Nat
  /\ di \in 1..(Len(targets) + Len(ListOrder) + 1)
  /\ dpc = "list" => di <= Len(ListOrder)
  /\ dpc \in {"cancel", "idle"} => di = 1
  /\ dpc # "idle" => deletes > 0
  /\ \A i \in 1..Len(targets) : dproj \in {All, ProjectOf[targets[i]]}

\* A handler goroutine and the queue: who supervises what, and who is left
\* without a supervisor.
HandlerInv ==
  /\ \A e \in Slots :
       /\ exec[e].task = 0 <=> exec[e].pc = "free"
       /\ exec[e].task = 0 => ~exec[e].held
       /\ exec[e].held => q[exec[e].task] = "active"
       /\ exec[e].task # 0 => q[exec[e].task] # "none"
       /\ exec[e].task # 0 => exec[e].held \/ exec[e].cancelled
       /\ server = "closed" => ~exec[e].held
       /\ server = "down" => exec[e].task = 0
  /\ \A e, f \in Slots : exec[e].held /\ exec[f].held /\ exec[e].task = exec[f].task => e = f

\* Success is known before it is said: by a handler past migration.Run, by a
\* hash, by the history file, by asynq.
SuccessInv ==
  /\ \A e \in Slots : exec[e].pc \in {"complete", "logCompleted", "returnOk"} => exec[e].task \in delivered
  /\ CompletedIsTrue
  /\ \A t \in Tasks : (t \in removed => q[t] = "gone") /\ (t \in delivered => q[t] # "none")
  /\ NoLostTask

\* The handler behind an "active" hash has not yet written its end.
BusyInv ==
  server # "down" =>
    \A t \in Tasks \ unrecorded :
      prog[t] = "active" =>
        \E e \in Slots : exec[e].task = t /\ exec[e].pc \in {"open", "run", "complete", "fail"}

\* A handler that has started has a hash, unless the hash was deleted or its
\* first update lost.
BlankInv ==
  /\ \A e \in Slots :
       exec[e].pc \notin {"free", "start"} =>
         prog[exec[e].task] # "absent" \/ deletes > 0 \/ exec[e].task \in unrecorded
  /\ BlankIsExplained

\* The inductive invariant.
IInv == QueueType /\ PostInv /\ DeleteInv /\ HandlerInv /\ SuccessInv /\ BusyInv /\ BlankInv

----------------------------------------------------------------------------
(* Facts that every part of the proof uses.                                *)

\* The bounds are numbers.
LEMMA Bounds ==
  /\ NTasks \in Nat /\ MaxRetry \in Nat /\ MaxExecs \in Nat
  /\ Tasks = 1..NTasks /\ Slots = 1..MaxExecs /\ 0 \notin Tasks
BY TaskQueueAssumption DEF TaskQueueAssumption, Tasks, Slots

\* Every action, by name.
LEMMA NextCases ==
  ASSUME [Next]_vars
  PROVE  \/ Boot \/ BeginDrain \/ CloseDB \/ ExitServer \/ Crash
         \/ MigrateStart \/ MigrateApply \/ MigrateEnqueue \/ MigrateReport
         \/ \E t \in Tasks : Dequeue(t) \/ Forward(t) \/ Recover(t) \/ DeliverCancel(t)
         \/ \E e \in Slots : TaskTimeout(e) \/ LetGo(e) \/ Abort(e) \/ Return(e)
         \/ \E e \in Slots : StartTask(e) \/ RecordCompleted(e) \/ RecordFailed(e)
         \/ \E e \in Slots : OpenTSDB(e) \/ RunSucceeds(e) \/ RunFails(e) \/ ReportCounters(e)
         \/ \E e \in Slots : LogCompleted(e) \/ LogFailed(e)
         \/ DeleteStart \/ DeleteList \/ DeleteCancel \/ DeleteTask \/ DeleteProgress
         \/ DeleteFails \/ DeleteReply
         \/ UNCHANGED vars
BY Zenon DEF Next, Server, Migrate, Asynq, Delete, ProcessTask

\* A goroutine that moves on changes its label only.
LEMMA GotoEffect ==
  ASSUME QueueType, NEW e \in Slots, NEW l \in Labels, Goto(e, l)
  PROVE  /\ exec' \in [Slots -> Execs] /\ exec'[e].pc = l
         /\ \A f \in Slots : /\ exec'[f].task = exec[f].task /\ (exec'[f].held <=> exec[f].held)
                             /\ (exec'[f].cancelled <=> exec[f].cancelled)
         /\ \A f \in Slots \ {e} : exec'[f].pc = exec[f].pc
BY DEF QueueType, Goto, Execs

\* A slot is given to a task, or freed; the others are left alone.
LEMMA SlotEffect ==
  ASSUME QueueType, NEW e \in Slots, NEW x \in Execs, exec' = [exec EXCEPT ![e] = x]
  PROVE  exec' \in [Slots -> Execs] /\ exec'[e] = x /\ \A f \in Slots \ {e} : exec'[f] = exec[f]
BY DEF QueueType

\* A supervisor stops waiting for its handler, which is cancelled.
LEMMA ReleaseEffect ==
  ASSUME QueueType, NEW e \in Slots, LetGo(e) \/ Abort(e)
  PROVE  /\ exec' \in [Slots -> Execs] /\ ~exec'[e].held /\ exec'[e].cancelled
         /\ \A f \in Slots : exec'[f].task = exec[f].task /\ exec'[f].pc = exec[f].pc
         /\ \A f \in Slots \ {e} : exec'[f] = exec[f]
<1>1. exec' = [exec EXCEPT ![e] = [exec[e] EXCEPT !.held = FALSE, !.cancelled = TRUE]]
  <2>1. CASE LetGo(e)
    <3>1. exec[e] \in Execs /\ exec[e].cancelled = TRUE
      BY <2>1 DEF LetGo, QueueType, Execs
    <3>2. exec' = [exec EXCEPT ![e].held = FALSE]
      BY <2>1 DEF LetGo
    <3> QED
      BY <3>1, <3>2 DEF QueueType, Execs
  <2>2. CASE Abort(e)
    BY <2>2 DEF Abort, QueueType, Execs
  <2> QED
    BY <2>1, <2>2
<1>2. [exec[e] EXCEPT !.held = FALSE, !.cancelled = TRUE] \in Execs
  BY DEF QueueType, Execs
<1> QED
  BY <1>1, <1>2 DEF QueueType, Execs

\* A cancellation reaches some supervised handlers and changes nothing else.
LEMMA CancelEffect ==
  ASSUME QueueType, (\E e \in Slots : TaskTimeout(e)) \/ (\E t \in Tasks : DeliverCancel(t))
  PROVE  /\ exec' \in [Slots -> Execs]
         /\ \A f \in Slots : /\ exec'[f].task = exec[f].task /\ exec'[f].pc = exec[f].pc
                             /\ (exec'[f].held <=> exec[f].held)
                             /\ exec[f].cancelled => exec'[f].cancelled
<1>1. ASSUME NEW e \in Slots, TaskTimeout(e)
      PROVE  exec' = [f \in Slots |-> IF f \in {e} THEN [exec[f] EXCEPT !.cancelled = TRUE] ELSE exec[f]]
  BY <1>1 DEF TaskTimeout, QueueType
<1>2. PICK C \in SUBSET Slots :
        exec' = [f \in Slots |-> IF f \in C THEN [exec[f] EXCEPT !.cancelled = TRUE] ELSE exec[f]]
  <2>1. ASSUME NEW t \in Tasks, DeliverCancel(t)
        PROVE  /\ Owner(t) \in SUBSET Slots
               /\ exec' = [f \in Slots |-> IF f \in Owner(t) THEN [exec[f] EXCEPT !.cancelled = TRUE] ELSE exec[f]]
    BY <2>1 DEF DeliverCancel, Owner, Held
  <2> QED
    BY <1>1, <2>1
<1>3. \A f \in Slots : /\ exec[f] \in Execs /\ [exec[f] EXCEPT !.cancelled = TRUE] \in Execs
                       /\ exec'[f] \in {exec[f], [exec[f] EXCEPT !.cancelled = TRUE]}
  BY <1>2 DEF QueueType, Execs
<1> QED
  BY <1>2, <1>3 DEF Execs

\* A failed attempt puts the task where it will be retried or archived.
LEMMA FailEffect ==
  ASSUME QueueType, NEW t \in Tasks, FailMessage(t)
  PROVE  /\ retried' \in [Tasks -> 0..MaxRetry]
         /\ \E s \in {"retry", "archived"} : q' = [q EXCEPT ![t] = s]
BY Bounds DEF QueueType, FailMessage

\* An update of the hash is made, or is lost and accounted for.
LEMMA UpdateEffect ==
  ASSUME QueueType, NEW e \in Slots, NEW s \in PStates, Update(e, s), exec[e].task \in Tasks
  PROVE  /\ prog' \in [Tasks -> PStates] /\ unrecorded' \subseteq Tasks
         /\ \A t \in Tasks \ {exec[e].task} :
              prog'[t] = prog[t] /\ (t \in unrecorded' <=> t \in unrecorded)
         /\ \/ prog'[exec[e].task] = s
            \/ prog' = prog /\ exec[e].task \in unrecorded'
BY DEF QueueType, Update

\* The orderings of a finite set are sequences of its elements.
LEMMA OrderingsFacts ==
  ASSUME NEW S, IsFiniteSet(S), NEW s \in SetToSeqs(S)
  PROVE  s \in Seq(S)
<1>1. Cardinality(S) \in Nat
  BY FS_CardinalityType
<1>2. s \in [1..Cardinality(S) -> S]
  BY DEF SetToSeqs
<1>3. ASSUME NEW n \in Nat, NEW f \in [1..n -> S] PROVE f \in Seq(S)
  OBVIOUS
<1> QED
  BY <1>1, <1>2, <1>3

\* A listing yields tasks of the requested project only.
LEMMA ListedFacts ==
  ASSUME NEW state, NEW found \in Listed(state)
  PROVE  found \in Seq(Tasks) /\ \A i \in 1..Len(found) : dproj \in {All, ProjectOf[found[i]]}
<1> DEFINE Mine(page) == {t \in page : dproj \in {All, ProjectOf[t]}}
<1>1. PICK page \in Pages(state) : found \in SetToSeqs(Mine(page))
  BY DEF Listed
<1>2. page \subseteq Tasks
  BY <1>1 DEF Pages, kSubset
<1>3. IsFiniteSet(Mine(page))
  <2>1. IsFiniteSet(Tasks)
    BY Bounds, FS_Interval
  <2>2. Mine(page) \subseteq Tasks
    BY <1>2
  <2> QED
    BY <2>1, <2>2, FS_Subset
<1>4. found \in Seq(Mine(page))
  BY <1>1, <1>3, OrderingsFacts
<1> QED
  BY <1>2, <1>4

\* A goroutine at work, or supervised, has a task.
LEMMA BusyTask ==
  ASSUME QueueType, HandlerInv, NEW e \in Slots
  PROVE  /\ exec[e] \in Execs
         /\ exec[e].pc # "free" => exec[e].task \in Tasks
         /\ exec[e].held => exec[e].task \in Tasks
<1>1. exec[e] \in Execs
  BY DEF QueueType
<1> QED
  BY <1>1, Bounds DEF HandlerInv, Execs

----------------------------------------------------------------------------
(* Types.                                                                  *)

\* Every step keeps the types of the queue, the hashes and the handlers.
LEMMA StepQueueType == IInv /\ [Next]_vars => QueueType'
<1> SUFFICES ASSUME IInv, [Next]_vars PROVE QueueType'
  OBVIOUS
<1> USE DEF IInv, queue, api, delete
<1>0. NoExec \in Execs
  BY Bounds DEF NoExec, Execs, Labels
<1>1. CASE Boot
  BY <1>1 DEF Boot, Reconcile, StaleActive, QueueType, PStates
<1>2. CASE BeginDrain \/ CloseDB
  BY <1>2 DEF BeginDrain, CloseDB, QueueType
<1>3. CASE ExitServer \/ Crash
  <2>1. ProcessGone
    BY <1>3 DEF ExitServer, Crash
  <2> QED
    BY <1>0, <2>1 DEF ProcessGone, DeleteEnds, QueueType
<1>4. CASE MigrateStart \/ MigrateApply \/ MigrateReport
  BY <1>4 DEF MigrateStart, MigrateApply, MigrateReport, apiFrame, QueueType, PStates
<1>5. CASE MigrateEnqueue
  BY <1>5 DEF MigrateEnqueue, Enqueued, apiFrame, QueueType, QStates
<1>6. ASSUME NEW t \in Tasks, Dequeue(t) PROVE QueueType'
  <2> DEFINE x == [task |-> t, pc |-> "start", cancelled |-> FALSE, held |-> TRUE]
  <2>1. x \in Execs
    BY Bounds DEF Execs, Labels
  <2>2. PICK e \in Slots : exec' = [exec EXCEPT ![e] = x]
    BY <1>6 DEF Dequeue
  <2>3. exec' \in [Slots -> Execs]
    BY <2>1, <2>2, SlotEffect
  <2> QED
    BY <1>6, <2>3 DEF Dequeue, asynqFrame, QueueType, QStates
<1>7. ASSUME NEW t \in Tasks, Forward(t) PROVE QueueType'
  BY <1>7 DEF Forward, asynqFrame, QueueType, QStates
<1>8. ASSUME NEW t \in Tasks, Recover(t) PROVE QueueType'
  BY <1>8, FailEffect DEF Recover, asynqFrame, QueueType, QStates
<1>9. CASE (\E e \in Slots : TaskTimeout(e)) \/ (\E t \in Tasks : DeliverCancel(t))
  BY <1>9, CancelEffect DEF TaskTimeout, DeliverCancel, asynqFrame, QueueType
<1>10. ASSUME NEW e \in Slots, LetGo(e) \/ Abort(e) PROVE QueueType'
  <2>1. exec[e].task \in Tasks
    BY <1>10, BusyTask DEF LetGo, Abort
  <2>2. exec' \in [Slots -> Execs]
    BY <1>10, ReleaseEffect
  <2>3. q' \in [Tasks -> QStates] /\ retried' \in [Tasks -> 0..MaxRetry]
    BY <1>10, <2>1, FailEffect DEF LetGo, Abort, QueueType, QStates
  <2> QED
    BY <1>10, <2>2, <2>3 DEF LetGo, Abort, asynqFrame, QueueType
<1>11. ASSUME NEW e \in Slots, Return(e) PROVE QueueType'
  <2>1. exec[e].task \in Tasks
    BY <1>11, BusyTask DEF Return
  <2>2. exec' \in [Slots -> Execs]
    BY <1>0, <1>11, SlotEffect DEF Return
  <2>3. q' \in [Tasks -> QStates] /\ retried' \in [Tasks -> 0..MaxRetry]
    BY <1>11, <2>1, FailEffect DEF Return, QueueType, QStates
  <2> QED
    BY <1>11, <2>2, <2>3 DEF Return, asynqFrame, QueueType
<1>12. ASSUME NEW e \in Slots, StartTask(e) \/ RecordCompleted(e) \/ RecordFailed(e) PROVE QueueType'
  <2>1. exec[e].task \in Tasks
    BY <1>12, BusyTask DEF StartTask, RecordCompleted, RecordFailed
  <2>2. exec' \in [Slots -> Execs]
    BY <1>12, GotoEffect DEF StartTask, RecordCompleted, RecordFailed, Labels
  <2>3. prog' \in [Tasks -> PStates] /\ unrecorded' \subseteq Tasks
    BY <1>12, <2>1, UpdateEffect DEF StartTask, RecordCompleted, RecordFailed, PStates
  <2> QED
    BY <1>12, <2>2, <2>3 DEF StartTask, RecordCompleted, RecordFailed, handlerFrame, QueueType
<1>13. ASSUME NEW e \in Slots, OpenTSDB(e) \/ RunSucceeds(e) \/ RunFails(e) PROVE QueueType'
  <2>1. exec[e].task \in Tasks
    BY <1>13, BusyTask DEF OpenTSDB, RunSucceeds, RunFails
  <2>2. exec' \in [Slots -> Execs]
    BY <1>13, GotoEffect DEF OpenTSDB, RunSucceeds, RunFails, Labels
  <2> QED
    BY <1>13, <2>1, <2>2 DEF OpenTSDB, RunSucceeds, RunFails, handlerFrame, QueueType
<1>14. ASSUME NEW e \in Slots, ReportCounters(e) PROVE QueueType'
  BY <1>14 DEF ReportCounters, handlerFrame, QueueType, PStates
<1>15. ASSUME NEW e \in Slots, LogCompleted(e) \/ LogFailed(e) PROVE QueueType'
  <2>1. exec' \in [Slots -> Execs]
    BY <1>15, GotoEffect DEF LogCompleted, LogFailed, Labels
  <2>2. hist' \in [Tasks -> SUBSET {"completed", "failed"}]
    BY <1>15 DEF LogCompleted, LogFailed, AppendHistory, QueueType
  <2> QED
    BY <1>15, <2>1, <2>2 DEF LogCompleted, LogFailed, handlerFrame, QueueType
<1>16. CASE DeleteStart \/ DeleteList \/ DeleteFails \/ DeleteReply
  BY <1>16 DEF DeleteStart, DeleteList, DeleteFails, DeleteReply, deleteFrame, QueueType
<1>17. CASE DeleteCancel
  BY <1>17 DEF DeleteCancel, DeleteInv, deleteFrame, QueueType
<1>18. CASE DeleteTask
  <2>1. targets[di] \in Tasks
    BY <1>18 DEF DeleteTask, DeleteInv
  <2> QED
    BY <1>18, <2>1 DEF DeleteTask, deleteFrame, QueueType, QStates
<1>19. CASE DeleteProgress
  <2>1. prog' \in [Tasks -> PStates]
    BY <1>19 DEF DeleteProgress, QueueType, PStates
  <2> QED
    BY <1>19, <2>1 DEF DeleteProgress, deleteFrame, QueueType
<1>20. CASE UNCHANGED vars
  BY <1>20 DEF vars, QueueType
<1> QED
  BY <1>1, <1>2, <1>3, <1>4, <1>5, <1>6, <1>7, <1>8, <1>9, <1>10, <1>11, <1>12, <1>13, <1>14,
     <1>15, <1>16, <1>17, <1>18, <1>19, <1>20, NextCases

\* Apart from the enqueueing, no step makes a task or unmakes one.
LEMMA QueueMoves ==
  ASSUME IInv, [Next]_vars, ~MigrateEnqueue
  PROVE  \A t \in Tasks : q'[t] = q[t] \/ (q[t] # "none" /\ q'[t] # "none")
<1> USE DEF IInv, queue, api, delete
<1>1. CASE UNCHANGED q
  BY <1>1
<1>2. ASSUME NEW t \in Tasks, Dequeue(t) \/ Forward(t) \/ Recover(t)
      PROVE  q[t] # "none" /\ \E s \in QStates \ {"none"} : q' = [q EXCEPT ![t] = s]
  BY <1>2, FailEffect DEF Dequeue, Forward, Recover, QStates
<1>3. ASSUME NEW e \in Slots, LetGo(e) \/ Abort(e) \/ Return(e)
      PROVE  \/ UNCHANGED q
             \/ /\ exec[e].task \in Tasks /\ q[exec[e].task] # "none"
                /\ \E s \in QStates \ {"none"} : q' = [q EXCEPT ![exec[e].task] = s]
  <2>1. UNCHANGED q \/ exec[e].held
    BY <1>3 DEF LetGo, Abort, Return
  <2>2. CASE exec[e].held
    <3>1. exec[e].task \in Tasks /\ q[exec[e].task] = "active"
      BY <2>2, BusyTask DEF HandlerInv
    <3> QED
      BY <1>3, <2>2, <3>1, FailEffect DEF LetGo, Abort, Return, QStates
  <2> QED
    BY <2>1, <2>2
<1>4. CASE DeleteTask
  BY <1>4 DEF DeleteTask, DeleteInv, QueueType
<1>5. \/ UNCHANGED q \/ DeleteTask
      \/ \E t \in Tasks : Dequeue(t) \/ Forward(t) \/ Recover(t)
      \/ \E e \in Slots : LetGo(e) \/ Abort(e) \/ Return(e)
  <2>1. CASE Server
    BY <2>1 DEF Server, Boot, BeginDrain, CloseDB, ExitServer, Crash, ProcessGone
  <2>2. CASE Migrate
    BY <2>2 DEF Migrate, MigrateStart, MigrateApply, MigrateReport
  <2>3. CASE Asynq
    BY <2>3 DEF Asynq, DeliverCancel, TaskTimeout
  <2>4. ASSUME NEW e \in Slots, ProcessTask(e) PROVE UNCHANGED q \/ Return(e)
    BY <2>4 DEF ProcessTask, StartTask, OpenTSDB, ReportCounters, RunSucceeds, RunFails,
       RecordCompleted, RecordFailed, LogCompleted, LogFailed, handlerFrame
  <2>5. CASE Delete
    BY <2>5 DEF Delete, DeleteStart, DeleteList, DeleteCancel, DeleteProgress, DeleteFails, DeleteReply
  <2>6. CASE UNCHANGED vars
    BY <2>6 DEF vars
  <2> QED
    BY <2>1, <2>2, <2>3, <2>4, <2>5, <2>6 DEF Next
<1>6. ASSUME NEW u \in Tasks, q[u] # "none", \E s \in QStates \ {"none"} : q' = [q EXCEPT ![u] = s]
      PROVE  \A t \in Tasks : q'[t] = q[t] \/ (q[t] # "none" /\ q'[t] # "none")
  BY <1>6 DEF QueueType
<1> QED
  BY <1>1, <1>2, <1>3, <1>4, <1>5, <1>6

----------------------------------------------------------------------------
(* The locals of the two requests.                                         *)

\* Every step, a crash in the middle of the loop too, keeps a POST in bounds.
LEMMA StepPostInv == IInv /\ [Next]_vars => PostInv'
<1> SUFFICES ASSUME IInv, [Next]_vars PROVE PostInv'
  OBVIOUS
<1> USE DEF IInv, queue, api, delete
<1>1. CASE MigrateEnqueue
  <2>1. CASE Enqueued
    <3>1. created + 1 \in Tasks /\ q' = [q EXCEPT ![created + 1] = "pending"] /\ created' = created + 1
      BY <1>1, <2>1, Bounds DEF Enqueued, MigrateEnqueue, PostInv
    <3>2. \A t \in Tasks : q'[t] = "none" <=> t > created'
      BY <3>1, Bounds DEF PostInv, QueueType
    <3>3. /\ left' \in Nat /\ left' + created' <= NTasks /\ created' >= 1
          /\ mpc' \in {"idle", "report"}
      BY <1>1, <3>1, Bounds DEF MigrateEnqueue, Enqueued, PostInv
    <3> QED
      BY <3>1, <3>2, <3>3 DEF PostInv
  <2>2. CASE ~Enqueued
    BY <1>1, <2>2, Bounds DEF MigrateEnqueue, PostInv
  <2> QED
    BY <2>1, <2>2
<1>2. CASE ~MigrateEnqueue
  <2>1. CASE MigrateStart
    BY <2>1, Bounds DEF MigrateStart, PostInv
  <2>2. CASE MigrateApply \/ MigrateReport
    BY <2>2, Bounds DEF MigrateApply, MigrateReport, PostInv
  <2>3. CASE ~(MigrateStart \/ MigrateApply \/ MigrateReport)
    <3>1. created' = created /\ (UNCHANGED <<mpc, left>> \/ (mpc' = "idle" /\ left' = 0))
      <4>1. CASE Server
        BY <4>1 DEF Server, Boot, BeginDrain, CloseDB, ExitServer, Crash, ProcessGone
      <4>2. CASE Asynq \/ \E e \in Slots : Return(e)
        BY <4>2 DEF Asynq, Dequeue, Forward, Recover, DeliverCancel, TaskTimeout, LetGo, Abort,
           Return, asynqFrame
      <4>3. ASSUME NEW e \in Slots, ProcessTask(e), ~Return(e) PROVE UNCHANGED api
        BY <4>3 DEF ProcessTask, StartTask, OpenTSDB, ReportCounters, RunSucceeds, RunFails,
           RecordCompleted, RecordFailed, LogCompleted, LogFailed, handlerFrame
      <4>4. CASE Delete
        BY <4>4 DEF Delete, DeleteStart, DeleteList, DeleteCancel, DeleteTask, DeleteProgress,
           DeleteFails, DeleteReply, deleteFrame
      <4>5. CASE UNCHANGED vars
        BY <4>5 DEF vars
      <4> QED
        BY <1>2, <2>3, <4>1, <4>2, <4>3, <4>4, <4>5 DEF Next, Migrate
    <3>2. \A t \in Tasks : q'[t] = "none" <=> t > created
      BY <1>2, QueueMoves DEF PostInv
    <3> QED
      BY <3>1, <3>2, Bounds DEF PostInv
  <2> QED
    BY <2>1, <2>2, <2>3
<1> QED
  BY <1>1, <1>2

\* Every step keeps a DELETE to the project it was asked for.
LEMMA StepDeleteInv == IInv /\ [Next]_vars => DeleteInv'
<1> SUFFICES ASSUME IInv, [Next]_vars PROVE DeleteInv'
  OBVIOUS
<1> USE DEF IInv, queue, api, delete
<1>1. CASE UNCHANGED delete
  BY <1>1 DEF DeleteInv
<1>2. CASE DeleteEnds /\ UNCHANGED deletes
  BY <1>2 DEF DeleteEnds, DeleteInv, ListOrder
<1>3. CASE DeleteStart
  BY <1>3 DEF DeleteStart, DeleteInv, ListOrder
<1>4. CASE DeleteList
  <2>1. PICK found \in Listed(ListOrder[di]) :
          /\ targets' = targets \o found
          /\ dactive' = IF ListOrder[di] = "active" THEN dactive \cup ToSet(found)
                        ELSE dactive \ ToSet(found)
    BY <1>4 DEF DeleteList
  <2>2. found \in Seq(Tasks) /\ \A i \in 1..Len(found) : dproj \in {All, ProjectOf[found[i]]}
    BY <2>1, ListedFacts
  <2>3. targets' \in Seq(Tasks) /\ \A i \in 1..Len(targets') : dproj \in {All, ProjectOf[targets'[i]]}
    BY <2>1, <2>2 DEF DeleteInv
  <2>4. dactive' \subseteq Tasks
    BY <2>1, <2>2 DEF DeleteInv, ToSet
  <2>5. /\ dpc = "list" /\ dproj' = dproj /\ deletes' = deletes
        /\ \/ di < 4 /\ di' = di + 1 /\ dpc' = dpc
           \/ di' = 1 /\ dpc' = "cancel"
    BY <1>4 DEF DeleteList, ListOrder
  <2> QED
    BY <2>3, <2>4, <2>5 DEF DeleteInv, ListOrder
<1>5. CASE DeleteCancel
  BY <1>5 DEF DeleteCancel, DeleteInv, ListOrder
<1>6. CASE DeleteTask
  BY <1>6 DEF DeleteTask, DeleteInv, ListOrder
<1>7. CASE DeleteProgress
  BY <1>2, <1>7 DEF DeleteProgress, DeleteInv, ListOrder
<1>8. CASE ~Delete
  <2>1. CASE Server
    BY <1>1, <1>2, <2>1 DEF Server, Boot, BeginDrain, CloseDB, ExitServer, Crash, ProcessGone
  <2>2. CASE Migrate
    BY <1>1, <2>2 DEF Migrate, MigrateStart, MigrateApply, MigrateEnqueue, MigrateReport, apiFrame
  <2>3. CASE Asynq \/ \E e \in Slots : Return(e)
    BY <1>1, <2>3 DEF Asynq, Dequeue, Forward, Recover, DeliverCancel, TaskTimeout, LetGo, Abort,
       Return, asynqFrame
  <2>4. ASSUME NEW e \in Slots, ProcessTask(e), ~Return(e) PROVE UNCHANGED delete
    BY <2>4 DEF ProcessTask, StartTask, OpenTSDB, ReportCounters, RunSucceeds, RunFails,
       RecordCompleted, RecordFailed, LogCompleted, LogFailed, handlerFrame
  <2>5. CASE UNCHANGED vars
    BY <1>1, <2>5 DEF vars
  <2> QED
    BY <1>1, <1>8, <2>1, <2>2, <2>3, <2>4, <2>5 DEF Next
<1>9. CASE DeleteFails \/ DeleteReply
  BY <1>2, <1>9 DEF DeleteFails, DeleteReply
<1> QED
  BY <1>3, <1>4, <1>5, <1>6, <1>7, <1>8, <1>9 DEF Delete

----------------------------------------------------------------------------
(* Supervisors and handlers.                                               *)

\* A step of ProcessTask before its return moves one goroutine of a task on
\* and touches neither the queue nor the server.
LEMMA HandlerMoves ==
  ASSUME IInv, NEW e \in Slots, ProcessTask(e), ~Return(e)
  PROVE  /\ exec[e].task \in Tasks /\ exec[e].pc # "free" /\ exec' \in [Slots -> Execs]
         /\ UNCHANGED <<server, q, removed, deletes>>
         /\ \A f \in Slots : /\ exec'[f].task = exec[f].task /\ (exec'[f].held <=> exec[f].held)
                             /\ (exec'[f].cancelled <=> exec[f].cancelled)
                             /\ exec'[f].pc = "free" <=> exec[f].pc = "free"
         /\ \A f \in Slots \ {e} : exec'[f].pc = exec[f].pc
<1> USE DEF IInv
<1>1. exec[e].task \in Tasks /\ exec[e].pc # "free" /\ UNCHANGED <<server, q, removed, deletes>>
  <2>1. exec[e].pc # "free" /\ UNCHANGED <<server, q, removed, deletes>>
    BY DEF ProcessTask, StartTask, OpenTSDB, ReportCounters, RunSucceeds, RunFails,
       RecordCompleted, RecordFailed, LogCompleted, LogFailed, handlerFrame, queue, delete
  <2> QED
    BY <2>1, BusyTask
<1>2. UNCHANGED exec \/ \E l \in Labels \ {"free"} : Goto(e, l)
  BY DEF ProcessTask, StartTask, OpenTSDB, ReportCounters, RunSucceeds, RunFails,
     RecordCompleted, RecordFailed, LogCompleted, LogFailed, Labels
<1>3. CASE UNCHANGED exec
  BY <1>1, <1>3 DEF QueueType
<1>4. ASSUME NEW l \in Labels \ {"free"}, Goto(e, l)
      PROVE  /\ exec' \in [Slots -> Execs] /\ exec'[e].pc = l
             /\ \A f \in Slots : /\ exec'[f].task = exec[f].task /\ (exec'[f].held <=> exec[f].held)
                                 /\ (exec'[f].cancelled <=> exec[f].cancelled)
             /\ \A f \in Slots \ {e} : exec'[f].pc = exec[f].pc
  BY <1>4, GotoEffect
<1> QED
  BY <1>1, <1>2, <1>3, <1>4

\* Every step keeps supervisors apart: whoever takes a task out of "active" is
\* its only supervisor, or finds none.
LEMMA StepHandlerInv == IInv /\ [Next]_vars => HandlerInv'
<1> SUFFICES ASSUME IInv, [Next]_vars PROVE HandlerInv'
  OBVIOUS
<1> USE DEF IInv, queue, api, delete
<1>0. \A e \in Slots : exec[e] \in Execs /\ (exec[e].task # 0 => exec[e].task \in Tasks)
  BY Bounds DEF QueueType, Execs
<1>1. CASE Boot \/ BeginDrain
  BY <1>1 DEF Boot, BeginDrain, HandlerInv
<1>2. CASE CloseDB
  BY <1>2 DEF CloseDB, Held, HandlerInv
<1>3. CASE ExitServer \/ Crash
  <2>1. ProcessGone
    BY <1>3 DEF ExitServer, Crash
  <2>2. \A e \in Slots : exec'[e].task = 0 /\ exec'[e].pc = "free" /\ ~exec'[e].held
    BY <2>1 DEF ProcessGone, NoExec
  <2> QED
    BY <2>1, <2>2 DEF ProcessGone, HandlerInv
<1>4. CASE MigrateStart \/ MigrateApply \/ MigrateReport
  BY <1>4 DEF MigrateStart, MigrateApply, MigrateReport, apiFrame, HandlerInv
<1>5. CASE MigrateEnqueue
  <2>1. UNCHANGED <<server, exec>>
    BY <1>5 DEF MigrateEnqueue, apiFrame
  <2>2. UNCHANGED q \/ (created + 1 \in Tasks /\ q' = [q EXCEPT ![created + 1] = "pending"])
    BY <1>5, Bounds DEF MigrateEnqueue, Enqueued, PostInv
  <2>3. \A t \in Tasks : q[t] # "none" => q'[t] = q[t]
    BY <2>2, Bounds DEF PostInv, QueueType
  <2> QED
    BY <1>0, <2>1, <2>3 DEF HandlerInv
<1>6. ASSUME NEW t \in Tasks, Dequeue(t) PROVE HandlerInv'
  <2> DEFINE x == [task |-> t, pc |-> "start", cancelled |-> FALSE, held |-> TRUE]
  <2>1. PICK e \in Slots : exec[e].task = 0 /\ exec' = [exec EXCEPT ![e] = x]
    BY <1>6 DEF Dequeue, Free
  <2>2. exec'[e] = x /\ \A f \in Slots \ {e} : exec'[f] = exec[f]
    BY <2>1 DEF QueueType
  <2>3. server = "up" /\ server' = "up" /\ q[t] = "pending"
    BY <1>6 DEF Dequeue, asynqFrame
  <2>4. q'[t] = "active" /\ \A u \in Tasks \ {t} : q'[u] = q[u]
    BY <1>6 DEF Dequeue, QueueType
  <2>5. \A f \in Slots : exec[f].held => exec[f].task \in Tasks \ {t}
    BY <1>0, <2>3 DEF HandlerInv
  <2> QED
    BY <1>0, <2>2, <2>3, <2>4, <2>5, Bounds DEF HandlerInv
<1>7. ASSUME NEW t \in Tasks, Forward(t) \/ Recover(t) PROVE HandlerInv'
  <2>1. UNCHANGED <<server, exec>>
    BY <1>7 DEF Forward, Recover, asynqFrame
  <2>2. q[t] # "none" /\ q'[t] # "none" /\ \A u \in Tasks \ {t} : q'[u] = q[u]
    BY <1>7, FailEffect DEF Forward, Recover, QueueType
  <2>3. \A f \in Slots : exec[f].held => exec[f].task \in Tasks \ {t}
    BY <1>0, <1>7 DEF Forward, Recover, Owner, Held, HandlerInv
  <2> QED
    BY <1>0, <2>1, <2>2, <2>3 DEF HandlerInv
<1>8. CASE (\E e \in Slots : TaskTimeout(e)) \/ (\E t \in Tasks : DeliverCancel(t))
  <2>1. UNCHANGED <<server, q>>
    BY <1>8 DEF TaskTimeout, DeliverCancel, asynqFrame
  <2> QED
    BY <1>8, <2>1, CancelEffect DEF HandlerInv
<1>9. ASSUME NEW e \in Slots, LetGo(e) \/ Abort(e) PROVE HandlerInv'
  <2>1. exec[e].held /\ exec[e].task \in Tasks /\ server' = server
    BY <1>9, BusyTask DEF LetGo, Abort, asynqFrame
  <2>2. q'[exec[e].task] # "none" /\ \A u \in Tasks \ {exec[e].task} : q'[u] = q[u]
    BY <1>9, <2>1, FailEffect DEF LetGo, Abort, QueueType
  <2>3. \A f \in Slots \ {e} : exec[f].held => exec[f].task \in Tasks \ {exec[e].task}
    BY <1>0, <2>1 DEF HandlerInv
  <2>4. /\ ~exec'[e].held /\ exec'[e].cancelled
        /\ exec'[e].task = exec[e].task /\ exec'[e].pc = exec[e].pc
        /\ \A f \in Slots \ {e} : exec'[f] = exec[f]
    BY <1>9, ReleaseEffect
  <2> QED
    BY <1>0, <2>1, <2>2, <2>3, <2>4 DEF HandlerInv
<1>10. ASSUME NEW e \in Slots, Return(e) PROVE HandlerInv'
  <2>1. exec[e].task \in Tasks /\ server' = server
    BY <1>10, BusyTask DEF Return, asynqFrame
  <2>2. exec'[e] = NoExec /\ \A f \in Slots \ {e} : exec'[f] = exec[f]
    BY <1>10 DEF Return, QueueType
  <2>3. q'[exec[e].task] # "none" /\ \A u \in Tasks \ {exec[e].task} : q'[u] = q[u]
    BY <1>10, <2>1, FailEffect DEF Return, QueueType, HandlerInv
  <2>4. ~exec[e].held => q' = q
    BY <1>10 DEF Return
  <2>5. exec[e].held => \A f \in Slots \ {e} : exec[f].held => exec[f].task \in Tasks \ {exec[e].task}
    BY <1>0, <2>1 DEF HandlerInv
  <2> QED
    BY <1>0, <2>1, <2>2, <2>3, <2>4, <2>5 DEF HandlerInv, NoExec
<1>11. ASSUME NEW e \in Slots, ProcessTask(e), ~Return(e) PROVE HandlerInv'
  BY <1>11, HandlerMoves DEF HandlerInv
<1>12. CASE DeleteTask
  <2>1. targets[di] \in Tasks /\ UNCHANGED <<server, exec>>
    BY <1>12 DEF DeleteTask, deleteFrame, DeleteInv
  <2>2. \A u \in Tasks : q'[u] = q[u] \/ (q[u] # "active" /\ q'[u] = "gone")
    BY <1>12, <2>1 DEF DeleteTask, QueueType
  <2> QED
    BY <1>0, <2>1, <2>2 DEF HandlerInv
<1>13. CASE DeleteStart \/ DeleteList \/ DeleteCancel \/ DeleteProgress \/ DeleteFails \/ DeleteReply
  <2>1. UNCHANGED <<server, exec, q>>
    BY <1>13 DEF DeleteStart, DeleteList, DeleteCancel, DeleteProgress, DeleteFails, DeleteReply, deleteFrame
  <2> QED
    BY <2>1 DEF HandlerInv
<1>14. CASE UNCHANGED vars
  BY <1>14 DEF vars, HandlerInv
<1> QED
  BY <1>1, <1>2, <1>3, <1>4, <1>5, <1>6, <1>7, <1>8, <1>9, <1>10, <1>11, <1>12, <1>13, <1>14
  DEF Next, Server, Migrate, Asynq, Delete

----------------------------------------------------------------------------
(* Success.                                                                *)

\* A task that has left the queue stays out, and leaves it by DELETE or by a
\* handler that has delivered it.
LEMMA GoneIsFinal ==
  ASSUME IInv, [Next]_vars
  PROVE  /\ removed \subseteq removed'
         /\ \A t \in Tasks :
              /\ q[t] = "gone" => q'[t] = "gone"
              /\ t \in removed' \ removed => q'[t] = "gone"
              /\ q'[t] = "gone" /\ q[t] # "gone" => t \in removed' \/ t \in delivered
<1> USE DEF IInv, queue, api, delete
<1> DEFINE Claim == /\ removed \subseteq removed'
                    /\ \A t \in Tasks :
                         /\ q[t] = "gone" => q'[t] = "gone"
                         /\ t \in removed' \ removed => q'[t] = "gone"
                         /\ q'[t] = "gone" /\ q[t] # "gone" => t \in removed' \/ t \in delivered
<1>1. CASE UNCHANGED <<q, removed>>
  BY <1>1
<1>2. CASE MigrateEnqueue
  <2>1. UNCHANGED q \/ (created + 1 \in Tasks /\ q' = [q EXCEPT ![created + 1] = "pending"])
    BY <1>2, Bounds DEF MigrateEnqueue, Enqueued, PostInv
  <2>2. removed' = removed
    BY <1>2 DEF MigrateEnqueue, apiFrame
  <2> QED
    BY <2>1, <2>2, Bounds DEF PostInv, QueueType
<1>3. ASSUME NEW t \in Tasks, Dequeue(t) \/ Forward(t) \/ Recover(t)
      PROVE  removed' = removed /\ q[t] # "gone" /\ \E s \in QStates \ {"gone"} : q' = [q EXCEPT ![t] = s]
  BY <1>3, FailEffect DEF Dequeue, Forward, Recover, asynqFrame, QStates
<1>4. ASSUME NEW e \in Slots, LetGo(e) \/ Abort(e)
      PROVE  /\ removed' = removed /\ exec[e].task \in Tasks /\ q[exec[e].task] # "gone"
             /\ \E s \in QStates \ {"gone"} : q' = [q EXCEPT ![exec[e].task] = s]
  <2>1. exec[e].task \in Tasks /\ q[exec[e].task] = "active"
    BY <1>4, BusyTask DEF LetGo, Abort, HandlerInv
  <2> QED
    BY <1>4, <2>1, FailEffect DEF LetGo, Abort, asynqFrame, QStates
<1>5. ASSUME NEW t \in Tasks, q[t] # "gone", removed' = removed,
             \E s \in QStates \ {"gone"} : q' = [q EXCEPT ![t] = s]
      PROVE  \A u \in Tasks : q[u] = "gone" <=> q'[u] = "gone"
  BY <1>5 DEF QueueType
<1>6. ASSUME NEW e \in Slots, Return(e)
      PROVE  /\ removed' = removed
             /\ \A u \in Tasks : /\ q[u] = "gone" => q'[u] = "gone"
                                 /\ q'[u] = "gone" /\ q[u] # "gone" => u \in delivered
  <2>1. exec[e].task \in Tasks /\ removed' = removed
    BY <1>6, BusyTask DEF Return, asynqFrame
  <2>2. CASE ~exec[e].held
    BY <1>6, <2>1, <2>2 DEF Return
  <2>3. CASE exec[e].held /\ exec[e].pc = "returnErr"
    <3>1. q[exec[e].task] = "active"
      BY <2>3 DEF HandlerInv
    <3>2. \E s \in {"retry", "archived"} : q' = [q EXCEPT ![exec[e].task] = s]
      BY <1>6, <2>1, <2>3, FailEffect DEF Return
    <3> QED
      BY <2>1, <3>1, <3>2 DEF QueueType
  <2>4. CASE exec[e].held /\ exec[e].pc # "returnErr"
    <3>1. q[exec[e].task] = "active" /\ exec[e].pc = "returnOk" /\ exec[e].task \in delivered
      BY <1>6, <2>4 DEF Return, HandlerInv, SuccessInv
    <3>2. q' = [q EXCEPT ![exec[e].task] = "gone"]
      BY <1>6, <2>4 DEF Return
    <3> QED
      BY <2>1, <3>1, <3>2 DEF QueueType
  <2> QED
    BY <2>2, <2>3, <2>4
<1>7. CASE DeleteTask
  <2>1. targets[di] \in Tasks
    BY <1>7 DEF DeleteTask, DeleteInv
  <2>2. \/ UNCHANGED <<q, removed>>
        \/ q' = [q EXCEPT ![targets[di]] = "gone"] /\ removed' = removed \cup {targets[di]}
    BY <1>7 DEF DeleteTask
  <2> QED
    BY <2>1, <2>2 DEF QueueType
<1>8. \/ UNCHANGED <<q, removed>> \/ MigrateEnqueue \/ DeleteTask
      \/ \E t \in Tasks : Dequeue(t) \/ Forward(t) \/ Recover(t)
      \/ \E e \in Slots : LetGo(e) \/ Abort(e) \/ Return(e)
  <2>1. CASE Server
    BY <2>1 DEF Server, Boot, BeginDrain, CloseDB, ExitServer, Crash, ProcessGone
  <2>2. CASE Migrate
    BY <2>2 DEF Migrate, MigrateStart, MigrateApply, MigrateReport, apiFrame
  <2>3. CASE Asynq
    BY <2>3 DEF Asynq, DeliverCancel, TaskTimeout, asynqFrame
  <2>4. ASSUME NEW e \in Slots, ProcessTask(e) PROVE UNCHANGED <<q, removed>> \/ Return(e)
    BY <2>4, HandlerMoves
  <2>5. CASE Delete
    BY <2>5 DEF Delete, DeleteStart, DeleteList, DeleteCancel, DeleteProgress, DeleteFails, DeleteReply
  <2>6. CASE UNCHANGED vars
    BY <2>6 DEF vars
  <2> QED
    BY <2>1, <2>2, <2>3, <2>4, <2>5, <2>6 DEF Next
<1>9. ASSUME NEW t \in Tasks, Dequeue(t) \/ Forward(t) \/ Recover(t) PROVE Claim
  BY <1>3, <1>5, <1>9
<1>10. ASSUME NEW e \in Slots, LetGo(e) \/ Abort(e) PROVE Claim
  <2>1. /\ removed' = removed
        /\ \E t \in Tasks : q[t] # "gone" /\ \E s \in QStates \ {"gone"} : q' = [q EXCEPT ![t] = s]
    BY <1>4, <1>10
  <2> QED
    BY <1>5, <2>1
<1>11. ASSUME NEW e \in Slots, Return(e) PROVE Claim
  <2>1. /\ removed' = removed
        /\ \A u \in Tasks : /\ q[u] = "gone" => q'[u] = "gone"
                            /\ q'[u] = "gone" /\ q[u] # "gone" => u \in delivered
    BY <1>6, <1>11
  <2> QED
    BY <2>1
<1> QED
  BY <1>1, <1>2, <1>7, <1>8, <1>9, <1>10, <1>11

\* Every step says "done" or "completed" only of delivered tasks.
LEMMA StepSuccessInv == IInv /\ [Next]_vars => SuccessInv'
<1> SUFFICES ASSUME IInv, [Next]_vars PROVE SuccessInv'
  OBVIOUS
<1> USE DEF IInv, queue, api, delete
<1> DEFINE Past == {"complete", "logCompleted", "returnOk"}
           HandlersOK == \A e \in Slots : exec[e].pc \in Past => exec[e].task \in delivered
<1>1. /\ delivered \subseteq delivered' /\ HandlersOK' /\ CompletedIsTrue'
      /\ \A t \in delivered' \ delivered : t \in Tasks /\ q'[t] = q[t] /\ q[t] # "none"
  <2> USE DEF SuccessInv
  <2>1. CASE Boot \/ BeginDrain \/ CloseDB
    BY <2>1 DEF Boot, Reconcile, BeginDrain, CloseDB, CompletedIsTrue
  <2>2. CASE ExitServer \/ Crash
    BY <2>2 DEF ExitServer, Crash, ProcessGone, NoExec, CompletedIsTrue
  <2>3. CASE Migrate
    BY <2>3 DEF Migrate, MigrateStart, MigrateApply, MigrateEnqueue, MigrateReport, apiFrame,
       CompletedIsTrue, QueueType
  <2>4. CASE Asynq
    <3>1. UNCHANGED <<prog, hist, delivered>>
      BY <2>4 DEF Asynq, Dequeue, Forward, Recover, DeliverCancel, TaskTimeout, LetGo, Abort, asynqFrame
    <3>2. CASE \E t \in Tasks : Dequeue(t)
      BY <3>1, <3>2 DEF Dequeue, CompletedIsTrue, QueueType
    <3>3. CASE \E t \in Tasks : Forward(t) \/ Recover(t)
      BY <3>1, <3>3 DEF Forward, Recover, CompletedIsTrue
    <3>4. CASE (\E e \in Slots : TaskTimeout(e)) \/ (\E t \in Tasks : DeliverCancel(t))
      BY <3>1, <3>4, CancelEffect DEF CompletedIsTrue
    <3>5. CASE \E e \in Slots : LetGo(e) \/ Abort(e)
      BY <3>1, <3>5, ReleaseEffect DEF CompletedIsTrue
    <3> QED
      BY <2>4, <3>2, <3>3, <3>4, <3>5 DEF Asynq
  <2>5. ASSUME NEW e \in Slots, Return(e)
        PROVE  delivered' = delivered /\ HandlersOK' /\ CompletedIsTrue'
    BY <2>5 DEF Return, asynqFrame, NoExec, CompletedIsTrue, QueueType
  <2>6. ASSUME NEW e \in Slots, StartTask(e) \/ RecordCompleted(e) \/ RecordFailed(e)
        PROVE  delivered' = delivered /\ HandlersOK' /\ CompletedIsTrue'
    <3>1. ProcessTask(e) /\ ~Return(e) /\ UNCHANGED <<hist, delivered>>
      BY <2>6 DEF ProcessTask, StartTask, RecordCompleted, RecordFailed, Return
    <3>2. /\ exec[e].task \in Tasks /\ \A f \in Slots \ {e} : exec'[f].pc = exec[f].pc
          /\ \A f \in Slots : exec'[f].task = exec[f].task
      BY <3>1, HandlerMoves
    <3>3. exec'[e].pc \in Past => exec[e].pc \in Past
      BY <2>6, GotoEffect DEF StartTask, RecordCompleted, RecordFailed, Labels
    <3>4. /\ \A t \in Tasks \ {exec[e].task} : prog'[t] = prog[t]
          /\ \/ prog'[exec[e].task] = prog[exec[e].task]
             \/ prog'[exec[e].task] \in {"active", "failed"}
             \/ exec[e].pc = "complete"
      BY <2>6, <3>2, UpdateEffect DEF StartTask, RecordCompleted, RecordFailed, PStates
    <3> QED
      BY <3>1, <3>2, <3>3, <3>4 DEF CompletedIsTrue
  <2>7. ASSUME NEW e \in Slots, OpenTSDB(e) \/ RunFails(e) \/ ReportCounters(e)
        PROVE  delivered' = delivered /\ HandlersOK' /\ CompletedIsTrue'
    <3>1. ProcessTask(e) /\ ~Return(e) /\ UNCHANGED <<hist, delivered>>
      BY <2>7 DEF ProcessTask, OpenTSDB, RunFails, ReportCounters, Return
    <3>2. /\ exec[e].task \in Tasks /\ \A f \in Slots \ {e} : exec'[f].pc = exec[f].pc
          /\ \A f \in Slots : exec'[f].task = exec[f].task
      BY <3>1, HandlerMoves
    <3>3. exec'[e].pc \in Past => exec[e].pc \in Past
      BY <2>7, GotoEffect DEF OpenTSDB, RunFails, ReportCounters, Labels
    <3>4. \A t \in Tasks : prog'[t] = prog[t] \/ prog'[t] = "blank"
      BY <2>7 DEF OpenTSDB, RunFails, ReportCounters, QueueType
    <3> QED
      BY <3>1, <3>2, <3>3, <3>4 DEF CompletedIsTrue
  <2>8. ASSUME NEW e \in Slots, RunSucceeds(e)
        PROVE  /\ delivered' = delivered \cup {exec[e].task} /\ HandlersOK' /\ CompletedIsTrue'
               /\ exec[e].task \in Tasks /\ q' = q /\ q[exec[e].task] # "none"
    <3>1. ProcessTask(e) /\ ~Return(e) /\ UNCHANGED <<hist, prog>>
          /\ delivered' = delivered \cup {exec[e].task}
      BY <2>8 DEF ProcessTask, RunSucceeds, Return
    <3>2. /\ exec[e].task \in Tasks /\ \A f \in Slots \ {e} : exec'[f].pc = exec[f].pc
          /\ \A f \in Slots : exec'[f].task = exec[f].task
          /\ q' = q
      BY <3>1, HandlerMoves
    <3>3. q[exec[e].task] # "none"
      BY <3>2, Bounds DEF HandlerInv
    <3> QED
      BY <3>1, <3>2, <3>3 DEF CompletedIsTrue
  <2>9. ASSUME NEW e \in Slots, LogCompleted(e) \/ LogFailed(e)
        PROVE  delivered' = delivered /\ HandlersOK' /\ CompletedIsTrue'
    <3>1. ProcessTask(e) /\ ~Return(e) /\ UNCHANGED <<prog, delivered>>
      BY <2>9 DEF ProcessTask, LogCompleted, LogFailed, Return
    <3>2. /\ exec[e].task \in Tasks /\ \A f \in Slots \ {e} : exec'[f].pc = exec[f].pc
          /\ \A f \in Slots : exec'[f].task = exec[f].task
      BY <3>1, HandlerMoves
    <3>3. exec'[e].pc \in Past => exec[e].pc \in Past
      BY <2>9, GotoEffect DEF LogCompleted, LogFailed, Labels
    <3>4. \A t \in Tasks : "completed" \in hist'[t] =>
            "completed" \in hist[t] \/ (t = exec[e].task /\ exec[e].pc = "logCompleted")
      BY <2>9, <3>2 DEF LogCompleted, LogFailed, AppendHistory, QueueType
    <3> QED
      BY <3>1, <3>2, <3>3, <3>4 DEF CompletedIsTrue
  <2>10. CASE Delete
    <3>1. UNCHANGED <<exec, hist, delivered>>
      BY <2>10 DEF Delete, DeleteStart, DeleteList, DeleteCancel, DeleteTask, DeleteProgress,
         DeleteFails, DeleteReply, deleteFrame
    <3>2. \A t \in Tasks : prog'[t] = prog[t] \/ prog'[t] = "absent"
      BY <2>10 DEF Delete, DeleteStart, DeleteList, DeleteCancel, DeleteTask, DeleteProgress,
         DeleteFails, DeleteReply
    <3> QED
      BY <3>1, <3>2 DEF CompletedIsTrue
  <2>11. CASE UNCHANGED vars
    BY <2>11 DEF vars, CompletedIsTrue
  <2> QED
    BY <2>1, <2>2, <2>3, <2>4, <2>5, <2>6, <2>7, <2>8, <2>9, <2>10, <2>11, NextCases
    DEF Migrate, Asynq, Delete
<1>2. \A t \in Tasks : t \in removed' => q'[t] = "gone"
  BY GoneIsFinal DEF SuccessInv
<1>3. NoLostTask'
  BY <1>1, GoneIsFinal DEF SuccessInv, NoLostTask
<1>4. \A t \in Tasks : t \in delivered' => q'[t] # "none"
  <2>1. \A t \in Tasks : q[t] # "none" => q'[t] # "none"
    <3>1. CASE MigrateEnqueue
      BY <3>1, Bounds DEF MigrateEnqueue, Enqueued, PostInv, QueueType
    <3> QED
      BY <3>1, QueueMoves
  <2> QED
    BY <1>1, <2>1 DEF SuccessInv
<1> QED
  BY <1>1, <1>2, <1>3, <1>4 DEF SuccessInv

----------------------------------------------------------------------------
(* What the hashes show.                                                   *)

\* Every step leaves a handler at work behind an "active" hash.
LEMMA StepBusyInv == IInv /\ [Next]_vars => BusyInv'
<1> SUFFICES ASSUME IInv, [Next]_vars PROVE BusyInv'
  OBVIOUS
<1> USE DEF IInv, queue, api, delete
<1> DEFINE AtWork == {"open", "run", "complete", "fail"}
           Busy(e, t) == exec[e].task = t /\ exec[e].pc \in AtWork
\* A step keeps the invariant if hashes become active only with a handler at
\* work, and handlers at work on an active hash stay so.
<1>0. ASSUME server' # "down" => server # "down",
             \A t \in Tasks \ unrecorded' : prog'[t] = "active" =>
               \/ \E e \in Slots : Busy(e, t)'
               \/ /\ prog[t] = "active" /\ t \notin unrecorded
                  /\ \A e \in Slots : Busy(e, t) => Busy(e, t)'
      PROVE  BusyInv'
  BY <1>0 DEF BusyInv
<1>1. CASE Boot
  <2>1. PICK S \in SUBSET StaleActive :
          /\ prog' = [t \in Tasks |-> IF t \in S THEN "failed" ELSE prog[t]]
          /\ unrecorded' = (unrecorded \cup StaleActive) \ S
    BY <1>1 DEF Boot, Reconcile
  <2>2. \A t \in Tasks \ unrecorded' : prog'[t] # "active"
    BY <2>1 DEF StaleActive
  <2> QED
    BY <2>2 DEF BusyInv
<1>2. CASE BeginDrain \/ CloseDB
  BY <1>0, <1>2 DEF BeginDrain, CloseDB
<1>3. CASE ExitServer \/ Crash
  BY <1>3 DEF ExitServer, Crash, ProcessGone, BusyInv
<1>4. CASE Migrate
  <2>1. UNCHANGED <<server, exec, unrecorded>>
    BY <1>4 DEF Migrate, MigrateStart, MigrateApply, MigrateEnqueue, MigrateReport, apiFrame
  <2>2. \A t \in Tasks : prog'[t] = prog[t] \/ prog'[t] # "active"
    BY <1>4 DEF Migrate, MigrateStart, MigrateApply, MigrateEnqueue, MigrateReport, QueueType
  <2> QED
    BY <1>0, <2>1, <2>2
<1>5. CASE Asynq
  <2>1. UNCHANGED <<server, prog, unrecorded>>
    BY <1>5 DEF Asynq, Dequeue, Forward, Recover, DeliverCancel, TaskTimeout, LetGo, Abort, asynqFrame
  <2>2. \A e \in Slots, t \in Tasks : Busy(e, t) => Busy(e, t)'
    <3>1. ASSUME NEW u \in Tasks, Dequeue(u) PROVE \A f \in Slots : exec[f].task = 0 \/ exec'[f] = exec[f]
      BY <3>1 DEF Dequeue, Free, QueueType
    <3>2. CASE \E u \in Tasks : Dequeue(u)
      BY <3>1, <3>2, Bounds
    <3>3. CASE \E u \in Tasks : Forward(u) \/ Recover(u)
      BY <3>3 DEF Forward, Recover
    <3>4. CASE (\E e \in Slots : TaskTimeout(e)) \/ (\E t \in Tasks : DeliverCancel(t))
      BY <3>4, CancelEffect
    <3>5. CASE \E e \in Slots : LetGo(e) \/ Abort(e)
      BY <3>5, ReleaseEffect
    <3> QED
      BY <1>5, <3>2, <3>3, <3>4, <3>5 DEF Asynq
  <2> QED
    BY <1>0, <2>1, <2>2
<1>6. ASSUME NEW e \in Slots, Return(e) PROVE BusyInv'
  <2>1. UNCHANGED <<server, prog, unrecorded>> /\ exec[e].pc \notin AtWork
    BY <1>6 DEF Return, asynqFrame
  <2>2. \A f \in Slots \ {e} : exec'[f] = exec[f]
    BY <1>6 DEF Return, QueueType
  <2> QED
    BY <1>0, <2>1, <2>2
<1>7. ASSUME NEW e \in Slots, StartTask(e) \/ RecordCompleted(e) \/ RecordFailed(e) PROVE BusyInv'
  <2>1. ProcessTask(e) /\ ~Return(e)
    BY <1>7 DEF ProcessTask, StartTask, RecordCompleted, RecordFailed, Return
  <2>2. /\ exec[e].task \in Tasks /\ \A f \in Slots \ {e} : exec'[f].pc = exec[f].pc
        /\ server' = server /\ \A f \in Slots : exec'[f].task = exec[f].task
    BY <2>1, HandlerMoves
  <2>3. /\ \A t \in Tasks \ {exec[e].task} :
             prog'[t] = prog[t] /\ (t \in unrecorded' <=> t \in unrecorded)
        /\ \/ prog'[exec[e].task] = "active" /\ exec'[e].pc = "open"
           \/ prog'[exec[e].task] # "active"
           \/ exec[e].task \in unrecorded'
    <3>1. CASE StartTask(e)
      BY <2>2, <3>1, UpdateEffect, GotoEffect DEF StartTask, PStates, Labels
    <3>2. CASE RecordCompleted(e) \/ RecordFailed(e)
      BY <2>2, <3>2, UpdateEffect DEF RecordCompleted, RecordFailed, PStates
    <3> QED
      BY <1>7, <3>1, <3>2
  <2> QED
    BY <1>0, <2>2, <2>3
<1>8. ASSUME NEW e \in Slots, OpenTSDB(e) \/ RunSucceeds(e) \/ RunFails(e) \/ ReportCounters(e)
      PROVE  BusyInv'
  <2>1. ProcessTask(e) /\ ~Return(e) /\ unrecorded' = unrecorded
    BY <1>8 DEF ProcessTask, OpenTSDB, RunSucceeds, RunFails, ReportCounters, Return
  <2>2. /\ \A f \in Slots \ {e} : exec'[f].pc = exec[f].pc
        /\ server' = server /\ \A f \in Slots : exec'[f].task = exec[f].task
    BY <2>1, HandlerMoves
  <2>3. exec'[e].pc \in AtWork
    BY <1>8, GotoEffect DEF OpenTSDB, RunSucceeds, RunFails, ReportCounters, Labels
  <2>4. \A t \in Tasks : prog'[t] = prog[t] \/ prog'[t] # "active"
    BY <1>8 DEF OpenTSDB, RunSucceeds, RunFails, ReportCounters, QueueType
  <2> QED
    BY <1>0, <2>1, <2>2, <2>3, <2>4
<1>9. ASSUME NEW e \in Slots, LogCompleted(e) \/ LogFailed(e) PROVE BusyInv'
  <2>1. ProcessTask(e) /\ ~Return(e) /\ UNCHANGED <<prog, unrecorded>> /\ exec[e].pc \notin AtWork
    BY <1>9 DEF ProcessTask, LogCompleted, LogFailed, Return
  <2>2. /\ \A f \in Slots \ {e} : exec'[f].pc = exec[f].pc
        /\ server' = server /\ \A f \in Slots : exec'[f].task = exec[f].task
    BY <2>1, HandlerMoves
  <2> QED
    BY <1>0, <2>1, <2>2
<1>10. CASE Delete
  <2>1. UNCHANGED <<server, exec, unrecorded>>
    BY <1>10 DEF Delete, DeleteStart, DeleteList, DeleteCancel, DeleteTask, DeleteProgress,
       DeleteFails, DeleteReply, deleteFrame
  <2>2. \A t \in Tasks : prog'[t] = prog[t] \/ prog'[t] = "absent"
    BY <1>10 DEF Delete, DeleteStart, DeleteList, DeleteCancel, DeleteTask, DeleteProgress,
       DeleteFails, DeleteReply
  <2> QED
    BY <1>0, <2>1, <2>2
<1>11. CASE UNCHANGED vars
  BY <1>0, <1>11 DEF vars
<1> QED
  BY <1>1, <1>2, <1>3, <1>4, <1>5, <1>6, <1>7, <1>8, <1>9, <1>10, <1>11, NextCases
  DEF Migrate, Asynq, Delete

\* Every step that can leave a started handler without a hash is on record.
LEMMA StepBlankInv == IInv /\ [Next]_vars => BlankInv'
<1> SUFFICES ASSUME IInv, [Next]_vars PROVE BlankInv'
  OBVIOUS
<1> USE DEF IInv, queue, api, delete
<1> DEFINE Early == {"free", "start"}
<1>0. \A e \in Slots : exec[e].pc # "free" => exec[e].task \in Tasks
  BY BusyTask
\* A step keeps the invariant if it blames nothing it should not forget,
\* blanks no hash and takes none away, and starts no handler.
<1>1. ASSUME deletes' >= deletes,
             \A t \in Tasks : /\ prog'[t] = "blank" => prog[t] = "blank"
                              /\ prog'[t] = "absent" => prog[t] = "absent"
                              /\ t \in unrecorded => t \in unrecorded' \/ prog'[t] \notin {"blank", "absent"},
             \A e \in Slots : exec'[e].pc \notin Early => exec[e].pc \notin Early /\ exec'[e].task = exec[e].task
      PROVE  BlankInv'
  <2>1. deletes \in Nat /\ deletes' \in Nat
    BY StepDeleteInv DEF DeleteInv
  <2>2. BlankIsExplained'
    BY <1>1, <2>1 DEF BlankInv, BlankIsExplained
  <2>3. ASSUME NEW e \in Slots, exec'[e].pc \notin Early
        PROVE  prog'[exec'[e].task] # "absent" \/ deletes' > 0 \/ exec'[e].task \in unrecorded'
    BY <1>0, <1>1, <2>1, <2>3 DEF BlankInv
  <2> QED
    BY <2>2, <2>3 DEF BlankInv
<1>2. CASE Boot
  <2>1. PICK S \in SUBSET StaleActive :
          /\ prog' = [t \in Tasks |-> IF t \in S THEN "failed" ELSE prog[t]]
          /\ unrecorded' = (unrecorded \cup StaleActive) \ S
    BY <1>2 DEF Boot, Reconcile
  <2>2. deletes' = deletes /\ exec' = exec /\ deletes \in Nat
    BY <1>2 DEF Boot, DeleteInv
  <2> QED
    BY <1>1, <2>1, <2>2
<1>3. CASE BeginDrain \/ CloseDB
  BY <1>1, <1>3 DEF BeginDrain, CloseDB, DeleteInv
<1>4. CASE ExitServer \/ Crash
  BY <1>1, <1>4 DEF ExitServer, Crash, ProcessGone, NoExec, DeleteInv
<1>5. CASE Migrate
  <2>1. UNCHANGED <<deletes, exec, unrecorded>> /\ deletes \in Nat
    BY <1>5 DEF Migrate, MigrateStart, MigrateApply, MigrateEnqueue, MigrateReport, apiFrame, DeleteInv
  <2>2. \A t \in Tasks : prog'[t] = prog[t] \/ prog'[t] = "pending"
    BY <1>5 DEF Migrate, MigrateStart, MigrateApply, MigrateEnqueue, MigrateReport, QueueType
  <2> QED
    BY <1>1, <2>1, <2>2
<1>6. CASE Asynq
  <2>1. UNCHANGED <<deletes, prog, unrecorded>> /\ deletes \in Nat
    BY <1>6 DEF Asynq, Dequeue, Forward, Recover, DeliverCancel, TaskTimeout, LetGo, Abort,
       asynqFrame, DeleteInv
  <2>2. \A e \in Slots : exec'[e].pc \notin Early => exec[e].pc \notin Early /\ exec'[e].task = exec[e].task
    <3>1. CASE \E u \in Tasks : Dequeue(u)
      BY <3>1 DEF Dequeue, QueueType
    <3>2. CASE \E u \in Tasks : Forward(u) \/ Recover(u)
      BY <3>2 DEF Forward, Recover
    <3>3. CASE (\E e \in Slots : TaskTimeout(e)) \/ (\E t \in Tasks : DeliverCancel(t))
      BY <3>3, CancelEffect
    <3>4. CASE \E e \in Slots : LetGo(e) \/ Abort(e)
      BY <3>4, ReleaseEffect
    <3> QED
      BY <1>6, <3>1, <3>2, <3>3, <3>4 DEF Asynq
  <2> QED
    BY <1>1, <2>1, <2>2
<1>7. ASSUME NEW e \in Slots, Return(e) PROVE BlankInv'
  <2>1. UNCHANGED <<deletes, prog, unrecorded>> /\ deletes \in Nat
    BY <1>7 DEF Return, asynqFrame, DeleteInv
  <2>2. exec'[e] = NoExec /\ \A f \in Slots \ {e} : exec'[f] = exec[f]
    BY <1>7 DEF Return, QueueType
  <2> QED
    BY <1>1, <2>1, <2>2 DEF NoExec
<1>8. ASSUME NEW e \in Slots, StartTask(e) \/ RecordCompleted(e) \/ RecordFailed(e) PROVE BlankInv'
  <2>1. ProcessTask(e) /\ ~Return(e)
    BY <1>8 DEF ProcessTask, StartTask, RecordCompleted, RecordFailed, Return
  <2>2. /\ exec[e].task \in Tasks /\ \A f \in Slots \ {e} : exec'[f].pc = exec[f].pc
        /\ \A f \in Slots : exec'[f].task = exec[f].task
        /\ deletes' = deletes /\ deletes \in Nat
    BY <2>1, HandlerMoves DEF DeleteInv
  <2>3. /\ \A t \in Tasks \ {exec[e].task} :
             prog'[t] = prog[t] /\ (t \in unrecorded' <=> t \in unrecorded)
        /\ prog'[exec[e].task] \in {"active", "completed", "failed"} \/ exec[e].task \in unrecorded'
    BY <1>8, <2>2, UpdateEffect DEF StartTask, RecordCompleted, RecordFailed, PStates
  <2>4. BlankIsExplained'
    BY <2>2, <2>3 DEF BlankInv, BlankIsExplained
  <2>5. ASSUME NEW f \in Slots, exec'[f].pc \notin Early
        PROVE  prog'[exec'[f].task] # "absent" \/ deletes' > 0 \/ exec'[f].task \in unrecorded'
    <3>1. CASE exec[f].task = exec[e].task
      BY <2>2, <2>3, <3>1
    <3>2. CASE exec[f].task # exec[e].task
      <4>1. exec[f].pc \notin Early /\ exec[f].task \in Tasks /\ exec'[f].task = exec[f].task
        BY <1>0, <2>2, <2>5, <3>2
      <4> QED
        BY <2>2, <2>3, <3>2, <4>1 DEF BlankInv
    <3> QED
      BY <3>1, <3>2
  <2> QED
    BY <2>4, <2>5 DEF BlankInv
<1>9. ASSUME NEW e \in Slots,
             OpenTSDB(e) \/ RunSucceeds(e) \/ RunFails(e) \/ LogCompleted(e) \/ LogFailed(e)
      PROVE  BlankInv'
  <2>1. ProcessTask(e) /\ ~Return(e) /\ UNCHANGED <<prog, unrecorded>> /\ exec[e].pc \notin Early
    BY <1>9 DEF ProcessTask, OpenTSDB, RunSucceeds, RunFails, LogCompleted, LogFailed, Return
  <2>2. /\ \A f \in Slots \ {e} : exec'[f].pc = exec[f].pc
        /\ \A f \in Slots : exec'[f].task = exec[f].task
        /\ deletes' = deletes /\ deletes \in Nat
    BY <2>1, HandlerMoves DEF DeleteInv
  <2> QED
    BY <1>1, <2>1, <2>2
<1>10. ASSUME NEW e \in Slots, ReportCounters(e) PROVE BlankInv'
  <2>1. /\ exec[e].pc = "run" /\ prog[exec[e].task] = "absent"
        /\ prog' = [prog EXCEPT ![exec[e].task] = "blank"] /\ UNCHANGED <<exec, unrecorded, deletes>>
    BY <1>10 DEF ReportCounters, handlerFrame
  <2>2. deletes > 0 \/ exec[e].task \in unrecorded
    BY <2>1 DEF BlankInv
  <2>3. \A t \in Tasks : prog'[t] = prog[t] \/ (t = exec[e].task /\ prog'[t] = "blank")
    BY <2>1 DEF QueueType
  <2> QED
    BY <1>0, <2>1, <2>2, <2>3 DEF BlankInv, BlankIsExplained
<1>11. CASE DeleteProgress
  <2>1. deletes > 0 /\ deletes' = deletes
    BY <1>11 DEF DeleteProgress, DeleteInv
  <2> QED
    BY <2>1 DEF BlankInv, BlankIsExplained
<1>12. CASE DeleteStart \/ DeleteList \/ DeleteCancel \/ DeleteTask \/ DeleteFails \/ DeleteReply
  <2>1. UNCHANGED <<exec, prog, unrecorded>> /\ deletes' >= deletes
    BY <1>12 DEF DeleteStart, DeleteList, DeleteCancel, DeleteTask, DeleteFails, DeleteReply,
       deleteFrame, DeleteInv
  <2> QED
    BY <1>1, <2>1
<1>13. CASE UNCHANGED vars
  BY <1>1, <1>13 DEF vars, DeleteInv
<1> QED
  BY <1>2, <1>3, <1>4, <1>5, <1>6, <1>7, <1>8, <1>9, <1>10, <1>11, <1>12, <1>13, NextCases
  DEF Migrate, Asynq

----------------------------------------------------------------------------
(* The theorems.                                                           *)

\* No server, no request and no task at first.
LEMMA InitIInv == Init => IInv
<1> SUFFICES ASSUME Init PROVE IInv
  OBVIOUS
<1>0. \A e \in Slots : exec[e].task = 0 /\ exec[e].pc = "free" /\ ~exec[e].held
  BY DEF Init, NoExec
<1>1. QueueType
  <2>1. NoExec \in Execs
    BY Bounds DEF NoExec, Execs, Labels
  <2> QED
    BY <2>1, Bounds DEF Init, QueueType, QStates, PStates
<1>2. PostInv
  BY Bounds DEF Init, PostInv
<1>3. DeleteInv
  BY DEF Init, DeleteInv, ListOrder
<1>4. HandlerInv
  BY <1>0 DEF Init, HandlerInv
<1>5. SuccessInv
  BY <1>0 DEF Init, SuccessInv, CompletedIsTrue, NoLostTask
<1>6. BusyInv /\ BlankInv
  BY <1>0 DEF Init, BusyInv, BlankInv, BlankIsExplained
<1> QED
  BY <1>1, <1>2, <1>3, <1>4, <1>5, <1>6 DEF IInv

\* The invariant holds in every reachable state.
THEOREM Invariance == Spec => []IInv
<1>1. IInv /\ [Next]_vars => IInv'
  BY StepQueueType, StepPostInv, StepDeleteInv, StepHandlerInv, StepSuccessInv, StepBusyInv, StepBlankInv
  DEF IInv
<1> QED
  BY <1>1, InitIInv, PTL DEF Spec

\* Types: in particular no path through retries, lease recovery, timeouts and
\* aborts retries a task more than MaxRetry times.
THEOREM TypeCorrect == Spec => []TypeOK
<1>1. IInv => TypeOK
  <2> SUFFICES ASSUME IInv PROVE TypeOK
    OBVIOUS
  <2>1. \A e \in Slots : /\ exec[e].task \in 0..NTasks /\ exec[e].pc \in Labels
                        /\ exec[e].cancelled \in BOOLEAN /\ exec[e].held \in BOOLEAN
    BY DEF IInv, QueueType, Execs
  <2>2. left \in 0..NTasks /\ created \in 0..NTasks
    BY Bounds DEF IInv, PostInv
  <2> QED
    BY <2>1, <2>2 DEF IInv, QueueType, PostInv, DeleteInv, TypeOK, QStates, PStates, Labels
<1> QED
  BY <1>1, Invariance, PTL

\* A task leaves the queue only delivered or deleted.
THEOREM NoLostTaskHolds == Spec => []NoLostTask
<1>1. IInv => NoLostTask
  BY DEF IInv, SuccessInv
<1> QED
  BY <1>1, Invariance, PTL

\* "completed" is said of delivered tasks only, in Redis and in the history.
THEOREM CompletedIsTrueHolds == Spec => []CompletedIsTrue
<1>1. IInv => CompletedIsTrue
  BY DEF IInv, SuccessInv
<1> QED
  BY <1>1, Invariance, PTL

\* While the server runs, an "active" hash has a handler behind it unless its
\* last update was lost.
THEOREM ActiveIsRunningHolds == Spec => []ActiveIsRunning
<1>1. IInv => ActiveIsRunning
  BY DEF IInv, BusyInv, ActiveIsRunning
<1> QED
  BY <1>1, Invariance, PTL

\* A handler inside migration.Run when the TSDB is closed has been given up.
THEOREM ReadersAreCancelledHolds == Spec => []ReadersAreCancelled
<1>1. IInv => ReadersAreCancelled
  BY DEF IInv, HandlerInv, ReadersAreCancelled
<1> QED
  BY <1>1, Invariance, PTL

\* A hash without a state comes from a DELETE or from a lost update.
THEOREM BlankIsExplainedHolds == Spec => []BlankIsExplained
<1>1. IInv => BlankIsExplained
  BY DEF IInv, BlankInv
<1> QED
  BY <1>1, Invariance, PTL

\* DELETE ?project_id=p touches no other project's queue entry or hash.
THEOREM DeleteSparesOthersHolds == Spec => DeleteSparesOthers
<1> DEFINE Touched(t) == \/ prog[t] # "absent" /\ prog'[t] = "absent"
                         \/ t \in removed' \ removed
           Spared == \A t \in Tasks : Touched(t) => dproj \in {All, ProjectOf[t]}
<1>1. IInv /\ [Next]_vars => Spared
  <2> SUFFICES ASSUME IInv, [Next]_vars PROVE Spared
    OBVIOUS
  <2> USE DEF IInv, queue, api, delete
  <2>1. CASE Server
    BY <2>1 DEF Server, Boot, Reconcile, BeginDrain, CloseDB, ExitServer, Crash, ProcessGone
  <2>2. CASE Migrate
    BY <2>2 DEF Migrate, MigrateStart, MigrateApply, MigrateEnqueue, MigrateReport, apiFrame, QueueType
  <2>3. CASE Asynq \/ \E e \in Slots : Return(e)
    BY <2>3 DEF Asynq, Dequeue, Forward, Recover, DeliverCancel, TaskTimeout, LetGo, Abort,
       Return, asynqFrame
  <2>4. ASSUME NEW e \in Slots, ProcessTask(e), ~Return(e)
        PROVE  removed' = removed /\ \A t \in Tasks : prog'[t] = "absent" => prog[t] = "absent"
    <3>1. removed' = removed /\ exec[e].task \in Tasks
      BY <2>4, HandlerMoves
    <3> QED
      BY <2>4, <3>1 DEF ProcessTask, StartTask, OpenTSDB, ReportCounters, RunSucceeds, RunFails,
         RecordCompleted, RecordFailed, LogCompleted, LogFailed, Update, QueueType
  <2>5. CASE DeleteTask
    <3>1. prog' = prog /\ removed' \subseteq removed \cup {targets[di]} /\ di \in 1..Len(targets)
      BY <2>5 DEF DeleteTask, DeleteInv
    <3> QED
      BY <3>1 DEF DeleteInv
  <2>6. CASE DeleteProgress
    <3>1. removed' = removed
      BY <2>6 DEF DeleteProgress
    <3>2. PICK gone \in SUBSET (IF dproj = All THEN Tasks ELSE ToSet(targets)) :
            prog' = [t \in Tasks |-> IF t \in gone THEN "absent" ELSE prog[t]]
      BY <2>6 DEF DeleteProgress
    <3>3. \A t \in gone : dproj \in {All, ProjectOf[t]}
      BY <3>2 DEF DeleteInv, ToSet
    <3> QED
      BY <3>1, <3>2, <3>3
  <2>7. CASE DeleteStart \/ DeleteList \/ DeleteCancel \/ DeleteFails \/ DeleteReply
    BY <2>7 DEF DeleteStart, DeleteList, DeleteCancel, DeleteFails, DeleteReply
  <2>8. CASE UNCHANGED vars
    BY <2>8 DEF vars
  <2> QED
    BY <2>1, <2>2, <2>3, <2>4, <2>5, <2>6, <2>7, <2>8 DEF Next, Delete
<1>2. IInv /\ [Next]_vars => [Spared]_vars
  BY <1>1
<1> QED
  BY <1>2, Invariance, PTL DEF Spec, DeleteSparesOthers

----------------------------------------------------------------------------
(* Refinement.                                                             *)

\* The state of a task as the contract sees it, before and after a step.
LEMMA QueueStateValues ==
  ASSUME QueueType, QueueType', NEW t \in Tasks
  PROVE  /\ q[t] = "none" => QueueState(t) = "none"
         /\ q'[t] = "none" => QueueState(t)' = "none"
         /\ q[t] \in {"pending", "active", "retry"} => QueueState(t) = "queued"
         /\ q'[t] \in {"pending", "active", "retry"} => QueueState(t)' = "queued"
         /\ q[t] = "archived" => QueueState(t) = "archived"
         /\ q'[t] = "archived" => QueueState(t)' = "archived"
         /\ q[t] = "gone" => QueueState(t) = IF t \in removed THEN "removed" ELSE "done"
         /\ q'[t] = "gone" => QueueState(t)' = IF t \in removed' THEN "removed" ELSE "done"
BY DEF QueueState

\* One task changes its queue state, or none does.
LEMMA QueueStateMoves ==
  ASSUME QueueType, QueueType', NEW t \in Tasks,
         \A u \in Tasks \ {t} : q'[u] = q[u] /\ (u \in removed' <=> u \in removed)
  PROVE  [u \in Tasks |-> QueueState(u)]' = [[u \in Tasks |-> QueueState(u)] EXCEPT ![t] = QueueState(t)']
<1>1. ASSUME NEW u \in Tasks \ {t} PROVE QueueState(u)' = QueueState(u)
  BY <1>1 DEF QueueState
<1> QED
  BY <1>1

\* The service, with its crashes, retries, requeues, late results and DELETEs,
\* keeps the contract that the operator's script relies on.
THEOREM Refinement == Spec => ImplementsContract
<1> DEFINE qs == [t \in Tasks |-> QueueState(t)]
<1>1. Init => Contract!ContractInit
  <2> SUFFICES ASSUME Init PROVE Contract!ContractInit
    OBVIOUS
  <2>1. \A t \in Tasks : QueueState(t) = "none"
    BY DEF Init, QueueState
  <2> QED
    BY <2>1 DEF Init, Contract!ContractInit
<1>2. IInv /\ IInv' /\ [Next]_vars => [Contract!ContractNext]_(Contract!contractVars)
  <2> SUFFICES ASSUME IInv, IInv', [Next]_vars
               PROVE  Contract!ContractNext \/ (qs' = qs /\ UNCHANGED <<delivered, prog>>)
    BY DEF Contract!contractVars
  <2> USE DEF IInv, queue, api, delete
  <2>t. QueueType /\ QueueType'
    OBVIOUS
  \* A step that moves one task within "queued" is a stutter.
  <2>0. ASSUME UNCHANGED <<q, removed>> PROVE qs' = qs
    BY <2>0 DEF QueueState
  <2>1. ASSUME NEW t \in Tasks, \E s \in {"pending", "active", "retry"} : q' = [q EXCEPT ![t] = s],
               q[t] \in {"pending", "active", "retry"}, removed' = removed
        PROVE  qs' = qs
    <3>1. \A u \in Tasks : QueueState(u)' = QueueState(u)
      BY <2>1, <2>t DEF QueueState, QueueType
    <3> QED
      BY <3>1
  <2>2. ASSUME NEW t \in Tasks, NEW s \in QStates, q' = [q EXCEPT ![t] = s],
               removed' \in {removed, removed \cup {t}}
        PROVE  qs' = [qs EXCEPT ![t] = QueueState(t)'] /\ q'[t] = s
    BY <2>t, <2>2, QueueStateMoves DEF QueueType
  <2>3. ASSUME NEW t \in Tasks, FailMessage(t), q[t] = "active", removed' = removed,
               UNCHANGED <<delivered, prog>>
        PROVE  Contract!ContractNext \/ (qs' = qs /\ UNCHANGED <<delivered, prog>>)
    <3>1. CASE q' = [q EXCEPT ![t] = "retry"]
      BY <2>1, <2>3, <3>1
    <3>2. CASE q' = [q EXCEPT ![t] = "archived"]
      <4>1. qs' = [qs EXCEPT ![t] = QueueState(t)'] /\ q'[t] = "archived"
        BY <2>2, <2>3, <3>2 DEF QStates
      <4>2. QueueState(t)' = "archived" /\ QueueState(t) = "queued"
        BY <2>t, <2>3, <4>1, QueueStateValues
      <4>3. Contract!GiveUp(t)
        BY <2>3, <4>1, <4>2 DEF Contract!GiveUp, Contract!Become
      <4> QED
        BY <4>3 DEF Contract!ContractNext
    <3> QED
      BY <2>3, <2>t, <3>1, <3>2, FailEffect
  <2>4. ASSUME NEW t \in Tasks, q[t] # "none", UNCHANGED <<q, removed, delivered>>,
               NEW s \in {"blank", "pending", "active", "failed", "completed"},
               s = "completed" => t \in delivered, prog' = [prog EXCEPT ![t] = s]
        PROVE  Contract!ContractNext
    <3>1. qs' = qs /\ qs[t] # "none"
      BY <2>0, <2>4 DEF QueueState
    <3>2. Contract!Report(t)
      BY <2>4, <3>1 DEF Contract!Report, Contract!States
    <3> QED
      BY <3>2 DEF Contract!ContractNext
  <2>5. CASE Boot
    <3>1. qs' = qs /\ UNCHANGED delivered
      BY <2>0, <2>5 DEF Boot
    <3>2. Contract!Reconcile
      BY <2>5, <3>1 DEF Boot, Reconcile, StaleActive, Contract!Reconcile
    <3> QED
      BY <3>2 DEF Contract!ContractNext
  <2>6. CASE BeginDrain \/ CloseDB \/ ExitServer \/ Crash
    BY <2>0, <2>6 DEF BeginDrain, CloseDB, ExitServer, Crash, ProcessGone
  <2>7. CASE MigrateStart \/ MigrateApply
    BY <2>0, <2>7 DEF MigrateStart, MigrateApply, apiFrame
  <2>8. CASE MigrateEnqueue
    <3>1. UNCHANGED <<removed, delivered, prog>>
      BY <2>8 DEF MigrateEnqueue, apiFrame
    <3>2. CASE UNCHANGED q
      BY <2>0, <3>1, <3>2
    <3>3. CASE Enqueued
      <4>0. created + 1 \in Tasks /\ q' = [q EXCEPT ![created + 1] = "pending"]
        BY <2>8, <3>3, Bounds DEF MigrateEnqueue, Enqueued, PostInv
      <4>1. PICK t \in Tasks : t = created + 1 /\ q' = [q EXCEPT ![t] = "pending"]
        BY <4>0
      <4>2. q[t] = "none"
        BY <4>1, Bounds DEF PostInv
      <4>3. qs' = [qs EXCEPT ![t] = QueueState(t)'] /\ q'[t] = "pending"
        BY <2>2, <3>1, <4>1 DEF QStates
      <4>4. QueueState(t)' = "queued" /\ QueueState(t) = "none"
        BY <2>t, <4>1, <4>2, <4>3, QueueStateValues
      <4>5. Contract!Submit(t)
        BY <3>1, <4>1, <4>3, <4>4 DEF Contract!Submit, Contract!Become
      <4> QED
        BY <4>1, <4>5 DEF Contract!ContractNext
    <3> QED
      BY <2>8, <3>2, <3>3 DEF MigrateEnqueue
  <2>9. CASE MigrateReport
    <3>1. UNCHANGED <<q, removed, delivered>> /\ created \in Tasks
      BY <2>9, Bounds DEF MigrateReport, apiFrame, PostInv
    <3>2. q[created] # "none"
      BY <3>1, Bounds DEF PostInv
    <3>3. CASE UNCHANGED prog
      BY <2>0, <3>1, <3>3
    <3>4. CASE prog' = [prog EXCEPT ![created] = "pending"]
      BY <2>4, <3>1, <3>2, <3>4
    <3> QED
      BY <2>9, <3>3, <3>4 DEF MigrateReport
  <2>10. ASSUME NEW t \in Tasks, Dequeue(t) \/ Forward(t)
         PROVE  qs' = qs /\ UNCHANGED <<delivered, prog>>
    BY <2>1, <2>10 DEF Dequeue, Forward, asynqFrame
  <2>11. ASSUME NEW t \in Tasks, Recover(t)
         PROVE  Contract!ContractNext \/ (qs' = qs /\ UNCHANGED <<delivered, prog>>)
    BY <2>3, <2>11 DEF Recover, asynqFrame
  <2>12. CASE (\E e \in Slots : TaskTimeout(e)) \/ (\E t \in Tasks : DeliverCancel(t))
    BY <2>0, <2>12 DEF TaskTimeout, DeliverCancel, asynqFrame
  <2>13. ASSUME NEW e \in Slots, LetGo(e) \/ Abort(e)
         PROVE  Contract!ContractNext \/ (qs' = qs /\ UNCHANGED <<delivered, prog>>)
    <3>1. /\ exec[e].task \in Tasks /\ q[exec[e].task] = "active"
          /\ UNCHANGED <<removed, delivered, prog>>
      BY <2>13, BusyTask DEF LetGo, Abort, asynqFrame, HandlerInv
    <3>2. CASE LetGo(e)
      BY <2>3, <3>1, <3>2 DEF LetGo
    <3>3. CASE Abort(e)
      BY <2>1, <3>1, <3>3 DEF Abort
    <3> QED
      BY <2>13, <3>2, <3>3
  <2>14. ASSUME NEW e \in Slots, Return(e)
         PROVE  Contract!ContractNext \/ (qs' = qs /\ UNCHANGED <<delivered, prog>>)
    <3>1. exec[e].task \in Tasks /\ UNCHANGED <<removed, delivered, prog>>
      BY <2>14, BusyTask DEF Return, asynqFrame
    <3>2. CASE ~exec[e].held
      BY <2>0, <2>14, <3>1, <3>2 DEF Return
    <3>3. CASE exec[e].held /\ exec[e].pc = "returnErr"
      BY <2>3, <2>14, <3>1, <3>3 DEF Return, HandlerInv
    <3>4. CASE exec[e].held /\ exec[e].pc # "returnErr"
      <4>1. PICK t \in Tasks : q[t] = "active" /\ t \in delivered /\ q' = [q EXCEPT ![t] = "gone"]
        BY <2>14, <3>1, <3>4 DEF Return, HandlerInv, SuccessInv
      <4>2. t \notin removed'
        BY <3>1, <4>1 DEF SuccessInv
      <4>3. qs' = [qs EXCEPT ![t] = QueueState(t)'] /\ q'[t] = "gone"
        BY <2>2, <3>1, <4>1 DEF QStates
      <4>4. QueueState(t)' = "done" /\ QueueState(t) = "queued"
        BY <2>t, <4>1, <4>2, <4>3, QueueStateValues
      <4>5. Contract!Finish(t)
        BY <3>1, <4>1, <4>3, <4>4 DEF Contract!Finish, Contract!Become
      <4> QED
        BY <4>1, <4>5 DEF Contract!ContractNext
    <3> QED
      BY <3>2, <3>3, <3>4
  <2>15. ASSUME NEW e \in Slots,
                StartTask(e) \/ RecordCompleted(e) \/ RecordFailed(e) \/ ReportCounters(e)
         PROVE  Contract!ContractNext \/ (qs' = qs /\ UNCHANGED <<delivered, prog>>)
    <3>1. ProcessTask(e) /\ ~Return(e) /\ UNCHANGED delivered
      BY <2>15 DEF ProcessTask, StartTask, RecordCompleted, RecordFailed, ReportCounters, Return
    <3>2. exec[e].task \in Tasks /\ UNCHANGED <<q, removed>>
      BY <3>1, HandlerMoves
    <3>3. q[exec[e].task] # "none"
      BY <3>2, Bounds DEF HandlerInv
    <3>4. \/ UNCHANGED prog
          \/ \E s \in {"blank", "pending", "active", "failed", "completed"} :
               /\ s = "completed" => exec[e].task \in delivered
               /\ prog' = [prog EXCEPT ![exec[e].task] = s]
      BY <2>15 DEF StartTask, RecordCompleted, RecordFailed, ReportCounters, Update, SuccessInv
    <3> QED
      BY <2>0, <2>4, <3>1, <3>2, <3>3, <3>4
  <2>16. ASSUME NEW e \in Slots, OpenTSDB(e) \/ RunFails(e) \/ LogCompleted(e) \/ LogFailed(e)
         PROVE  qs' = qs /\ UNCHANGED <<delivered, prog>>
    BY <2>0, <2>16 DEF OpenTSDB, RunFails, LogCompleted, LogFailed, handlerFrame
  <2>17. ASSUME NEW e \in Slots, RunSucceeds(e)
         PROVE  Contract!ContractNext \/ (qs' = qs /\ UNCHANGED <<delivered, prog>>)
    <3>1. /\ delivered' = delivered \cup {exec[e].task} /\ UNCHANGED <<q, removed, prog>>
          /\ exec[e].pc = "run"
      BY <2>17 DEF RunSucceeds, handlerFrame
    <3>2. exec[e].task \in Tasks
      BY <3>1, BusyTask
    <3>3. qs' = qs /\ qs[exec[e].task] # "none"
      BY <2>0, <3>1, <3>2, Bounds DEF HandlerInv, QueueState
    <3>4. CASE exec[e].task \in delivered
      BY <3>1, <3>3, <3>4
    <3>5. CASE exec[e].task \notin delivered
      <4>1. Contract!Deliver(exec[e].task)
        BY <3>1, <3>3, <3>5 DEF Contract!Deliver
      <4> QED
        BY <3>2, <4>1 DEF Contract!ContractNext
    <3> QED
      BY <3>4, <3>5
  <2>18. CASE DeleteTask
    <3>1. PICK t \in Tasks : t = targets[di] /\ UNCHANGED <<delivered, prog>>
      BY <2>18 DEF DeleteTask, deleteFrame, DeleteInv
    <3>2. \/ UNCHANGED <<q, removed>>
          \/ /\ q[t] \in {"pending", "retry", "archived"} /\ q' = [q EXCEPT ![t] = "gone"]
             /\ removed' = removed \cup {t}
      BY <2>18, <3>1 DEF DeleteTask
    <3>3. CASE UNCHANGED <<q, removed>>
      BY <2>0, <3>1, <3>3
    <3>4. CASE ~UNCHANGED <<q, removed>>
      <4>1. qs' = [qs EXCEPT ![t] = QueueState(t)'] /\ q'[t] = "gone"
        BY <2>2, <3>1, <3>2, <3>4 DEF QStates
      <4>2. QueueState(t)' = "removed" /\ QueueState(t) \in {"queued", "archived"}
        BY <2>t, <3>1, <3>2, <3>4, <4>1, QueueStateValues
      <4>3. Contract!Remove(t)
        BY <3>1, <4>1, <4>2 DEF Contract!Remove, Contract!Become
      <4> QED
        BY <3>1, <4>3 DEF Contract!ContractNext
    <3> QED
      BY <3>3, <3>4
  <2>19. CASE DeleteProgress
    <3>1. qs' = qs /\ UNCHANGED delivered
      BY <2>0, <2>19 DEF DeleteProgress, deleteFrame
    <3>2. PICK gone \in SUBSET (IF dproj = All THEN Tasks ELSE ToSet(targets)) :
            prog' = [t \in Tasks |-> IF t \in gone THEN "absent" ELSE prog[t]]
      BY <2>19 DEF DeleteProgress
    <3>3. gone \in SUBSET Tasks
      BY <3>2 DEF DeleteInv, ToSet
    <3>4. Contract!Forget
      BY <3>1, <3>2, <3>3 DEF Contract!Forget
    <3> QED
      BY <3>4 DEF Contract!ContractNext
  <2>20. CASE DeleteStart \/ DeleteList \/ DeleteCancel \/ DeleteFails \/ DeleteReply
    BY <2>0, <2>20 DEF DeleteStart, DeleteList, DeleteCancel, DeleteFails, DeleteReply, deleteFrame
  <2>21. CASE UNCHANGED vars
    BY <2>0, <2>21 DEF vars
  <2> QED
    BY <2>5, <2>6, <2>7, <2>8, <2>9, <2>10, <2>11, <2>12, <2>13, <2>14, <2>15, <2>16, <2>17,
       <2>18, <2>19, <2>20, <2>21, NextCases
<1> QED
  BY <1>1, <1>2, Invariance, PTL DEF Spec, ImplementsContract, Contract!ContractSpec
=============================================================================
