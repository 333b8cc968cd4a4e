--------------------------- MODULE WaitLoopProofs ---------------------------
(***************************************************************************)
(* For any number of tasks, polls and pod restarts, and any service that   *)
(* keeps TaskContract: exit code 0 of the waiting script covers only       *)
(* migrated tasks.  The proof follows a tracked task through one listing:  *)
(* it is still to be read, or it was counted in a counter that is not 0,   *)
(* or it was read as completed, which the contract makes true.             *)
(***************************************************************************)
EXTENDS WaitLoop, TLAPS

\* A round in progress is within the script's max_polls, and there is a
\* verdict only at the end.
ControlInv ==
  /\ wpc = "scan" => polls < MaxPolls
  /\ verdict # "none" => wpc = "end"

\* What the contract says of the hashes.
ShownInv == \A t \in Tasks : shown[t] = "completed" => t \in delivered

\* Where a tracked task stands in the listing that is being made.
ListingInv ==
  wpc = "scan" => \A t \in tracked :
                    shown[t] \in States /\ (t \in unread \/ t \in delivered \/ seen # {})

\* The inductive invariant.
IInv == TypeOK /\ ControlInv /\ ShownInv /\ ListingInv /\ OkMeansDelivered

\* Queue, hashes and deliveries have their types.
ContractType ==
  /\ queue \in [Tasks -> {"none", "queued", "done", "archived", "removed"}]
  /\ shown \in [Tasks -> States \cup {"absent", "blank"}] /\ delivered \subseteq Tasks

\* A step of the service keeps its types, takes no delivery back and calls
\* only delivered tasks completed.
LEMMA ContractStep ==
  ASSUME ContractType, ShownInv, ContractNext
  PROVE  ContractType' /\ ShownInv' /\ delivered \subseteq delivered'
<1> USE DEF ContractType, ShownInv
<1>1. ASSUME NEW t \in Tasks, Submit(t) \/ Finish(t) \/ GiveUp(t) \/ Remove(t)
      PROVE  ContractType' /\ ShownInv' /\ delivered \subseteq delivered'
  BY <1>1 DEF Submit, Finish, GiveUp, Remove, Become
<1>2. ASSUME NEW t \in Tasks, Deliver(t)
      PROVE  ContractType' /\ ShownInv' /\ delivered \subseteq delivered'
  BY <1>2 DEF Deliver
<1>3. ASSUME NEW t \in Tasks, Report(t)
      PROVE  ContractType' /\ ShownInv' /\ delivered \subseteq delivered'
  BY <1>3 DEF Report, States
<1>4. CASE Reconcile
  BY <1>4 DEF Reconcile, States
<1>5. CASE Forget
  BY <1>5 DEF Forget, States
<1> QED
  BY <1>1, <1>2, <1>3, <1>4, <1>5 DEF ContractNext

\* Nothing is submitted, shown or polled at first.
LEMMA InitIInv == Init => IInv
<1> SUFFICES ASSUME Init PROVE IInv
  OBVIOUS
<1>1. TypeOK
  <2>1. /\ polls \in 0..MaxPolls /\ failures \in 0..2 /\ outages \in 0..MaxOutages
        /\ queue \in [Tasks -> {"none", "queued", "done", "archived", "removed"}]
        /\ shown \in [Tasks -> States \cup {"absent", "blank"}]
    BY WaitLoopAssumption DEF WaitLoopAssumption, Init, ContractInit
  <2> QED
    BY <2>1, Zenon DEF Init, ContractInit, TypeOK
<1>2. ControlInv /\ ShownInv /\ ListingInv /\ OkMeansDelivered
  BY DEF Init, ContractInit, ControlInv, ShownInv, ListingInv, OkMeansDelivered
<1> QED
  BY <1>1, <1>2 DEF IInv

\* Every step of the service, the pod and the script preserves the invariant.
LEMMA StepIInv == IInv /\ [Next]_vars => IInv'
<1> SUFFICES ASSUME IInv, [Next]_vars PROVE IInv'
  OBVIOUS
<1> USE DEF IInv
<1>a. MaxPolls \in Nat /\ MaxOutages \in Nat /\ polls \in 0..MaxPolls /\ failures \in 0..2
  BY WaitLoopAssumption DEF WaitLoopAssumption, TypeOK
<1>1. CASE ServiceStep
  <2>1. ContractType' /\ ShownInv' /\ delivered \subseteq delivered'
    BY <1>1, ContractStep DEF ServiceStep, ContractType, TypeOK
  <2>2. UNCHANGED <<seen, up, tunnel, outages, target, wpc, polls, failures, verdict>> /\ wpc # "end"
    BY <1>1 DEF ServiceStep, pod, script
  <2>3. /\ unread' \subseteq Tasks /\ tracked' \subseteq Tasks
        /\ wpc = "scan" => /\ tracked' = {t \in tracked : shown'[t] \in States}
                           /\ unread' = {t \in unread : shown'[t] # "absent"}
    BY <1>1 DEF ServiceStep, TypeOK
  <2>4. TypeOK'
    BY <2>1, <2>2, <2>3 DEF TypeOK, ContractType
  <2>5. ListingInv'
    BY <2>1, <2>2, <2>3 DEF ListingInv, States
  <2> QED
    BY <2>1, <2>2, <2>4, <2>5 DEF ControlInv, OkMeansDelivered
<1>2. CASE PodLost \/ PodReady
  <2>1. UNCHANGED <<contractVars, scan, script>>
    BY <1>2 DEF PodLost, PodReady
  <2>2. up' \in BOOLEAN /\ tunnel' \in BOOLEAN
    BY <1>2, Zenon DEF PodLost, PodReady, TypeOK
  <2>3. outages' \in 0..MaxOutages
    BY <1>a, <1>2 DEF PodLost, PodReady, TypeOK
  <2> QED
    BY <2>1, <2>2, <2>3 DEF contractVars, scan, script, TypeOK, ControlInv, ShownInv, ListingInv, OkMeansDelivered
<1> USE DEF contractVars, pod, scan, script, ControlInv, ShownInv, ListingInv, OkMeansDelivered, End
<1>3. CASE Connect
  <2>1. tunnel' \in BOOLEAN
    BY <1>3, Zenon DEF Connect
  <2>2. \/ wpc' = "poll" /\ verdict' = verdict
        \/ wpc' = "end" /\ verdict' = "aborted"
    BY <1>3 DEF Connect
  <2>3. wpc = "connect" /\ UNCHANGED <<contractVars, up, outages, scan, target, polls, failures>>
    BY <1>3 DEF Connect
  <2> QED
    BY <2>1, <2>2, <2>3 DEF TypeOK
<1>4. CASE OutOfPolls
  BY <1>4 DEF OutOfPolls, TypeOK
<1>5. CASE FetchFails
  BY <1>a, <1>5 DEF FetchFails, ScanIdle, TypeOK
<1>6. CASE ListStart
  <2>1. /\ wpc = "poll" /\ wpc' = "scan" /\ polls < MaxPolls /\ seen' = {}
        /\ UNCHANGED <<contractVars, pod, target, polls, failures, verdict>>
    BY <1>6 DEF ListStart
  <2>2. /\ tracked' = {t \in Tasks : shown[t] \in States}
        /\ unread' = {t \in Tasks : shown[t] # "absent"}
    BY <1>6 DEF ListStart
  <2>3. \A t \in tracked' : shown'[t] \in States /\ t \in unread'
    BY <2>1, <2>2 DEF States
  <2>4. TypeOK'
    BY <2>1, <2>2 DEF TypeOK
  <2> QED
    BY <2>1, <2>3, <2>4
<1>7. ASSUME NEW t \in Tasks, ListRead(t) PROVE IInv'
  <2>1. /\ wpc = "scan" /\ unread' = unread \ {t} /\ UNCHANGED <<contractVars, pod, tracked, script>>
        /\ seen' = seen \cup ({shown[t]} \ {"absent", "blank", "completed"})
    BY <1>7 DEF ListRead
  <2>2. shown[t] \in {"pending", "active", "failed", "completed", "absent", "blank"}
    BY DEF TypeOK, States
  <2>3. TypeOK'
    BY <2>1, <2>2 DEF TypeOK
  <2>4. ASSUME NEW u \in tracked
        PROVE  u \in unread' \/ u \in delivered \/ seen' # {}
    <3>1. CASE u = t
      BY <2>1, <3>1 DEF States, TypeOK
    <3>2. CASE u # t
      BY <2>1, <3>2
    <3> QED
      BY <3>1, <3>2
  <2> QED
    BY <2>1, <2>3, <2>4
<1>8. CASE Answer
  <2>1. /\ wpc = "scan" /\ unread = {} /\ polls' = polls + 1 /\ failures' = 0
        /\ UNCHANGED <<contractVars, pod, target>>
    BY <1>8 DEF Answer
  <2>2. CASE {"active", "pending"} \cap seen # {}
    BY <1>a, <1>8, <2>1, <2>2 DEF Answer, ScanIdle, TypeOK
  <2>3. CASE {"active", "pending"} \cap seen = {}
    <3>1. wpc' = "end" /\ UNCHANGED scan /\ verdict' = IF "failed" \in seen THEN "failed" ELSE "ok"
      BY <1>8, <2>3 DEF Answer
    <3>2. TypeOK'
      BY <1>a, <2>1, <3>1 DEF TypeOK
    <3>3. verdict' = "ok" => seen = {}
      BY <2>3, <3>1 DEF TypeOK
    <3> QED
      BY <2>1, <3>1, <3>2, <3>3
  <2> QED
    BY <2>2, <2>3
<1>9. CASE AnswerOne
  <2>1. /\ wpc = "poll" /\ polls < MaxPolls /\ target \in Tasks /\ shown[target] \in States
        /\ polls' = polls + 1 /\ failures' = 0
        /\ UNCHANGED <<contractVars, pod, target, unread, seen>>
    BY <1>9 DEF AnswerOne, TypeOK
  <2>2. CASE shown[target] = "completed"
    BY <1>a, <1>9, <2>1, <2>2 DEF AnswerOne, TypeOK
  <2>3. CASE shown[target] = "failed"
    BY <1>a, <1>9, <2>1, <2>3 DEF AnswerOne, TypeOK
  <2>4. CASE shown[target] \in {"pending", "active"}
    BY <1>a, <1>9, <2>1, <2>4 DEF AnswerOne, TypeOK
  <2> QED
    BY <2>1, <2>2, <2>3, <2>4 DEF States
<1>10. CASE UNCHANGED vars
  BY <1>10 DEF vars, TypeOK
<1> QED
  BY <1>1, <1>2, <1>3, <1>4, <1>5, <1>6, <1>7, <1>8, <1>9, <1>10 DEF Next, Wait

\* The invariant holds in every reachable state.
THEOREM Invariance == Spec => []IInv
BY InitIInv, StepIInv, PTL DEF Spec

\* The script's counters stay within their bounds: no more rounds than
\* max_polls, and the port-forward is restarted at the third failure in a row.
THEOREM TypeCorrect == Spec => []TypeOK
<1>1. IInv => TypeOK
  BY DEF IInv
<1> QED
  BY <1>1, Invariance, PTL

\* Exit code 0 means that every task that had a state throughout the deciding
\* poll was migrated, although the listing is no snapshot.
THEOREM OkMeansDeliveredHolds == Spec => []OkMeansDelivered
<1>1. IInv => OkMeansDelivered
  BY DEF IInv
<1> QED
  BY <1>1, Invariance, PTL
============================================================================
