---------------------------- MODULE TaskContract ----------------------------
(***************************************************************************)
(* What the migrator service promises about its tasks, whatever crashes,   *)
(* retries, cancels or deletes them: a task that was submitted stays       *)
(* queued until its migration succeeded, its retries are used up or DELETE *)
(* removed it, none of which is ever taken back; and the progress hashes   *)
(* speak only of submitted tasks and say "completed" only of delivered     *)
(* ones.  TaskQueue implements this specification; WaitLoop composes it    *)
(* with the script that polls the hashes.                                  *)
(***************************************************************************)
CONSTANT Tasks

VARIABLES
  queue,      \* "none", "queued", "done", "archived" or "removed"
  delivered,  \* tasks whose samples have all been acknowledged
  shown       \* "absent", "blank" (a hash without a state) or the state in the hash

contractVars == <<queue, delivered, shown>>

States == {"pending", "active", "failed", "completed"}

ContractInit ==
  /\ queue = [t \in Tasks |-> "none"] /\ delivered = {}
  /\ shown = [t \in Tasks |-> "absent"]

Become(t, from, to) ==
  /\ queue[t] \in from
  /\ queue' = [queue EXCEPT ![t] = to]
  /\ UNCHANGED <<delivered, shown>>

Submit(t) == Become(t, {"none"}, "queued")

\* A handler that asynq abandoned may still deliver, even a removed task.
Deliver(t) ==
  /\ queue[t] # "none" /\ t \notin delivered
  /\ delivered' = delivered \cup {t}
  /\ UNCHANGED <<queue, shown>>

Finish(t) == t \in delivered /\ Become(t, {"queued"}, "done")
GiveUp(t) == Become(t, {"queued"}, "archived")
Remove(t) == Become(t, {"queued", "archived"}, "removed")

\* A hash is written, by the request that made the task or by a handler.
Report(t) ==
  /\ queue[t] # "none"
  /\ \E state \in States \cup {"blank"} :
       /\ state = "completed" => t \in delivered
       /\ shown' = [shown EXCEPT ![t] = state]
  /\ UNCHANGED <<queue, delivered>>

\* A restart finds tasks whose process died.
Reconcile ==
  /\ \E S \in SUBSET {t \in Tasks : shown[t] = "active"} :
       shown' = [t \in Tasks |-> IF t \in S THEN "failed" ELSE shown[t]]
  /\ UNCHANGED <<queue, delivered>>

\* DELETE /tasks forgets the hashes of some tasks, whatever became of the tasks.
Forget ==
  /\ \E S \in SUBSET Tasks :
       shown' = [t \in Tasks |-> IF t \in S THEN "absent" ELSE shown[t]]
  /\ UNCHANGED <<queue, delivered>>

ContractNext ==
  \/ \E t \in Tasks :
       Submit(t) \/ Deliver(t) \/ Finish(t) \/ GiveUp(t) \/ Remove(t) \/ Report(t)
  \/ Reconcile \/ Forget

ContractSpec == ContractInit /\ [][ContractNext]_contractVars
============================================================================
