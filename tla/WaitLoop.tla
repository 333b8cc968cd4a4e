------------------------------ MODULE WaitLoop ------------------------------
(***************************************************************************)
(* run-migration.sh wait, composed with the service it polls: the script   *)
(* with its port-forward, GET /status and GET /status/{id} with the Redis  *)
(* reads behind them, the pod that may restart, and the tasks, which move  *)
(* as TaskContract allows.  Listing the hashes is not atomic: while the    *)
(* server walks the keys, tasks change state and hashes come and go.       *)
(***************************************************************************)
EXTENDS TaskContract, Naturals

CONSTANTS
  All,          \* what "wait --all" waits for
  MaxPolls,     \* max_polls
  MaxOutages    \* bound: pod restarts

ASSUME WaitLoopAssumption == All \notin Tasks /\ MaxPolls \in Nat \ {0} /\ MaxOutages \in Nat

VARIABLES
  up, tunnel, outages, \* pod ready, port-forward alive, spent bound
  target,     \* the task waited for, or All
  wpc,        \* "connect", "poll", "scan" (a request is being served), "end"
  polls, failures,  \* loop counter, consecutive_failures
  unread,     \* keys there since the scan began and not yet read
  seen,       \* which of the active, pending and failed counters are not 0
  tracked,    \* history: tasks that had a state since the scan began
  verdict     \* how the script ended: "none" yet, "ok", "failed", "timeout", "aborted"

pod == <<up, tunnel, outages>>
scan == <<unread, seen, tracked>>
script == <<target, wpc, polls, failures, verdict>>
vars == <<contractVars, pod, scan, script>>

Init ==
  /\ ContractInit
  /\ up = TRUE /\ tunnel = FALSE /\ outages = 0
  /\ target \in Tasks \cup {All}
  /\ wpc = "connect" /\ polls = 0 /\ failures = 0 /\ verdict = "none"
  /\ unread = {} /\ seen = {} /\ tracked = {}

End(v) == wpc' = "end" /\ verdict' = v

----------------------------------------------------------------------------
(* The tasks and the pod.                                                  *)

\* What happens once the script has ended is not followed any further.
\* SCAN returns every key that is there from its beginning to its end.
ServiceStep ==
  /\ wpc # "end" /\ ContractNext
  /\ IF wpc = "scan"
     THEN /\ unread' = {t \in unread : shown'[t] # "absent"}
          /\ tracked' = {t \in tracked : shown'[t] \in States}
     ELSE UNCHANGED <<unread, tracked>>
  /\ UNCHANGED <<seen, pod, script>>

\* The pod restarts: its port-forward and the request being served are gone.
PodLost ==
  /\ up /\ outages < MaxOutages /\ wpc # "end"
  /\ up' = FALSE /\ tunnel' = FALSE /\ outages' = outages + 1
  /\ UNCHANGED <<contractVars, scan, script>>

PodReady ==
  /\ ~up /\ up' = TRUE /\ wpc # "end"
  /\ UNCHANGED <<contractVars, scan, script, tunnel, outages>>

----------------------------------------------------------------------------
(* The script.                                                             *)

\* start_port_forward.  It gives up with "exit 1" when /healthz does not
\* answer in time, which the "|| true" behind restart_port_forward does not
\* catch.
Connect ==
  /\ wpc = "connect"
  /\ \/ up /\ tunnel' = TRUE /\ wpc' = "poll" /\ UNCHANGED verdict
     \/ tunnel' = FALSE /\ End("aborted")
  /\ UNCHANGED <<contractVars, up, outages, scan, target, polls, failures>>

\* The for loop is over after max_polls rounds.
OutOfPolls ==
  /\ wpc = "poll" /\ polls = MaxPolls
  /\ End("timeout")
  /\ UNCHANGED <<contractVars, pod, scan, target, polls, failures>>

ScanIdle == unread' = {} /\ seen' = {} /\ tracked' = {}

\* Fault: the counter is not reset when the port-forward is restarted.
FetchFailsCountingOn ==
  /\ wpc = "scan" \/ (wpc = "poll" /\ polls < MaxPolls)
  /\ polls' = polls + 1 /\ failures' = failures + 1
  /\ wpc' = IF failures < 2 THEN "poll" ELSE "connect"
  /\ ScanIdle
  /\ UNCHANGED <<contractVars, pod, target, verdict>>

\* curl gives no body: no tunnel, a 404 or 500, or five seconds passed.  The
\* third failure in a row restarts the port-forward before the next round.
FetchFails ==
  /\ wpc = "scan" \/ (wpc = "poll" /\ polls < MaxPolls)
  /\ polls' = polls + 1
  /\ IF failures < 2 THEN failures' = failures + 1 /\ wpc' = "poll"
     ELSE failures' = 0 /\ wpc' = "connect"
  /\ ScanIdle
  /\ UNCHANGED <<contractVars, pod, target, verdict>>

\* ProgressStore.List begins.
ListStart ==
  /\ wpc = "poll" /\ polls < MaxPolls /\ tunnel /\ target = All
  /\ wpc' = "scan"
  /\ unread' = {t \in Tasks : shown[t] # "absent"}
  /\ tracked' = {t \in Tasks : shown[t] \in States} /\ seen' = {}
  /\ UNCHANGED <<contractVars, pod, target, polls, failures, verdict>>

\* ProgressStore.Get of one key SCAN returned, counted by handleStatus; a hash
\* without a state and one wiped since count in no counter that is looked at.
ListRead(t) ==
  /\ wpc = "scan" /\ tunnel
  /\ t \in unread \/ shown[t] # "absent"
  /\ unread' = unread \ {t}
  /\ seen' = seen \cup ({shown[t]} \ {"absent", "blank", "completed"})
  /\ UNCHANGED <<contractVars, pod, tracked, script>>

\* Fault: the wait is over once nothing is active.
AnswerIgnoringPending ==
  /\ wpc = "scan" /\ tunnel /\ unread = {}
  /\ polls' = polls + 1 /\ failures' = 0
  /\ IF "active" \in seen THEN wpc' = "poll" /\ ScanIdle /\ UNCHANGED verdict
     ELSE End(IF "failed" \in seen THEN "failed" ELSE "ok") /\ UNCHANGED scan
  /\ UNCHANGED <<contractVars, pod, target>>

\* The answer of GET /status: over when no task is active or pending.
Answer ==
  /\ wpc = "scan" /\ tunnel /\ unread = {}
  /\ polls' = polls + 1 /\ failures' = 0
  /\ IF {"active", "pending"} \cap seen # {} THEN wpc' = "poll" /\ ScanIdle /\ UNCHANGED verdict
     ELSE End(IF "failed" \in seen THEN "failed" ELSE "ok") /\ UNCHANGED scan
  /\ UNCHANGED <<contractVars, pod, target>>

\* GET /status/{id}: one hash read, 404 (FetchFails) if it has no state.
AnswerOne ==
  /\ wpc = "poll" /\ polls < MaxPolls /\ tunnel /\ target # All
  /\ shown[target] \in States
  /\ polls' = polls + 1 /\ failures' = 0
  /\ CASE shown[target] = "completed" -> End("ok") /\ tracked' = {target}
       [] shown[target] = "failed" -> End("failed") /\ UNCHANGED tracked
       [] OTHER -> UNCHANGED <<wpc, verdict, tracked>>
  /\ UNCHANGED <<contractVars, pod, target, unread, seen>>

Wait ==
  \/ Connect \/ OutOfPolls \/ FetchFails \/ ListStart \/ Answer \/ AnswerOne
  \/ \E t \in Tasks : ListRead(t)

Next == ServiceStep \/ PodLost \/ PodReady \/ Wait

Spec == Init /\ [][Next]_vars

----------------------------------------------------------------------------
(* Properties.                                                             *)

TypeOK ==
  /\ queue \in [Tasks -> {"none", "queued", "done", "archived", "removed"}]
  /\ shown \in [Tasks -> States \cup {"absent", "blank"}] /\ delivered \subseteq Tasks
  /\ up \in BOOLEAN /\ tunnel \in BOOLEAN /\ outages \in 0..MaxOutages
  /\ target \in Tasks \cup {All} /\ wpc \in {"connect", "poll", "scan", "end"}
  /\ polls \in 0..MaxPolls /\ failures \in 0..2
  /\ unread \subseteq Tasks /\ seen \subseteq {"active", "pending", "failed"} /\ tracked \subseteq Tasks
  /\ verdict \in {"none", "ok", "failed", "timeout", "aborted"}

\* When the script exits with 0, every task that had a state throughout the
\* poll that decided it has been migrated, however the tasks moved while the
\* server walked their hashes.
OkMeansDelivered == verdict = "ok" => tracked \subseteq delivered
============================================================================
