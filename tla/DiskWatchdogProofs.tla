------------------------- MODULE DiskWatchdogProofs -------------------------
(***************************************************************************)
(* For any set of nodes, any usages and thresholds, and any number of      *)
(* failed calls, dead jobs and interventions: the watchdog resumes only    *)
(* after relief, and a pause that was not left half done is claimed.       *)
(***************************************************************************)
EXTENDS DiskWatchdog, TLAPS

\* What a resume that removes the annotation relies on: the migrator is not
\* down by the watchdog's doing, unless the scale before it failed.
ClaimInv ==
  /\ PauseIsClaimed
  /\ jpc = "annotate" /\ goal = 1 /\ replicas = 0 /\ ~strayed => stopper # "watchdog"

\* A node that this job has polled was low at some time since the last pause,
\* could not be read, or keeps the highest usage above the resume threshold.
ReliefInv ==
  /\ Low \subseteq dipped
  /\ jpc \in {"poll", "annotation"} =>
       \A n \in Nodes \ unpolled : n \in dipped \cup blind \/ max > ResumePct
  /\ jpc = "annotation" => unpolled = {}
  /\ jpc = "scale" /\ goal = 1 => Nodes \subseteq dipped \cup blind

\* The inductive invariant.
IInv == TypeOK /\ ClaimInv /\ ReliefInv

\* Usages and thresholds are percentages, so they can be compared.
LEMMA Percentages ==
  /\ \A u \in Usages \cup {0} : u \in Nat
  /\ PausePct \in Nat /\ ResumePct \in Nat /\ ResumePct < PausePct
BY DiskWatchdogAssumption DEF DiskWatchdogAssumption

\* The migrator runs, no job does, and the low nodes are those low now.
LEMMA InitIInv == Init => IInv
<1> SUFFICES ASSUME Init PROVE IInv
  OBVIOUS
<1>1. TypeOK
  <2>1. dipped \subseteq Nodes /\ faults \in 0..MaxFaults /\ ops \in 0..MaxOps
    BY DiskWatchdogAssumption DEF Init, Low, DiskWatchdogAssumption
  <2>2. replicas \in 0..1 /\ cur \in 0..1 /\ goal \in 0..1
    BY DEF Init
  <2> QED
    BY <2>1, <2>2, Zenon DEF Init, TypeOK
<1>2. ClaimInv
  BY DEF Init, ClaimInv, PauseIsClaimed
<1>3. ReliefInv
  BY DEF Init, ReliefInv
<1> QED
  BY <1>1, <1>2, <1>3 DEF IInv

\* Every step keeps the types; max is always one of the usages read.
LEMMA StepTypeOK == TypeOK /\ [Next]_vars => TypeOK'
<1> SUFFICES ASSUME TypeOK, [Next]_vars PROVE TypeOK'
  OBVIOUS
<1> USE DiskWatchdogAssumption DEF DiskWatchdogAssumption, TypeOK, deployment, locals, history, Fault
<1>1. ASSUME NEW n \in Nodes, DiskMoves(n) PROVE TypeOK'
  BY <1>1 DEF DiskMoves
<1>2. CASE OperatorScales
  BY <1>2 DEF OperatorScales
<1>3. CASE JobDies
  BY <1>3 DEF JobDies, JobEnds
<1>4. CASE JobStarts
  BY <1>4 DEF JobStarts
<1>5. ASSUME NEW n \in Nodes, Poll(n) PROVE TypeOK'
  BY <1>5 DEF Poll
<1>6. CASE GetReplicas
  BY <1>6 DEF GetReplicas
<1>7. CASE Decide
  BY <1>7 DEF Decide, JobEnds
<1>8. CASE Scale
  <2>1. /\ replicas' \in 0..1 /\ faults' \in 0..MaxFaults /\ dipped' \subseteq Nodes
        /\ stopper' \in {"nobody", "watchdog", "operator"}
    BY <1>8 DEF Scale, Low
  <2>2. strayed' \in BOOLEAN /\ jpc' = "annotate"
    BY <1>8 DEF Scale
  <2>3. UNCHANGED <<disk, annotated, unpolled, max, cur, goal, blind, ops>>
    BY <1>8 DEF Scale
  <2> QED
    BY <2>1, <2>2, <2>3
<1>9. CASE Annotate
  <2>1. annotated' \in BOOLEAN /\ strayed' \in BOOLEAN
    BY <1>9, Zenon DEF Annotate
  <2>2. JobEnds /\ faults' \in 0..MaxFaults /\ UNCHANGED <<disk, replicas, dipped, stopper, ops>>
    BY <1>9 DEF Annotate
  <2> QED
    BY <2>1, <2>2 DEF JobEnds
<1>10. CASE UNCHANGED vars
  BY <1>10 DEF vars
<1> QED
  BY <1>1, <1>2, <1>3, <1>4, <1>5, <1>6, <1>7, <1>8, <1>9, <1>10 DEF Next, Job, Environment

\* A step leaves the migrator down and unclaimed only by leaving a pause or a
\* resume half done.
LEMMA StepClaim == TypeOK /\ ClaimInv /\ [Next]_vars => ClaimInv'
<1> SUFFICES ASSUME TypeOK, ClaimInv, [Next]_vars PROVE ClaimInv'
  OBVIOUS
<1> USE DEF TypeOK, ClaimInv, PauseIsClaimed, deployment, locals, history
<1>1. ASSUME NEW n \in Nodes, DiskMoves(n) PROVE ClaimInv'
  BY <1>1 DEF DiskMoves
<1>2. CASE OperatorScales
  BY <1>2 DEF OperatorScales
<1>3. CASE JobDies
  BY <1>3 DEF JobDies, JobEnds
<1>4. CASE JobStarts
  BY <1>4 DEF JobStarts
<1>5. ASSUME NEW n \in Nodes, Poll(n) PROVE ClaimInv'
  BY <1>5 DEF Poll
<1>6. CASE GetReplicas
  BY <1>6 DEF GetReplicas
<1>7. CASE Decide
  BY <1>7 DEF Decide, JobEnds
<1>8. CASE Scale
  BY <1>8 DEF Scale
<1>9. CASE Annotate
  <2>1. jpc = "annotate" /\ jpc' = "idle" /\ UNCHANGED <<replicas, stopper>>
    BY <1>9 DEF Annotate, JobEnds
  <2>2. CASE goal = 0
    <3>1. annotated' \/ strayed'
      BY <1>9, <2>2, Zenon DEF Annotate
    <3> QED
      BY <2>1, <3>1
  <2>3. CASE goal = 1
    <3>1. strayed => strayed'
      BY <1>9, <2>3, Zenon DEF Annotate
    <3> QED
      BY <2>1, <2>3, <3>1
  <2> QED
    BY <2>2, <2>3
<1>10. CASE UNCHANGED vars
  BY <1>10 DEF vars
<1> QED
  BY <1>1, <1>2, <1>3, <1>4, <1>5, <1>6, <1>7, <1>8, <1>9, <1>10 DEF Next, Job, Environment

\* Polling adds a node that was low, unreadable or too full; only a pause
\* forgets which nodes were low, and no job resumes after its own pause.
LEMMA StepRelief == TypeOK /\ ReliefInv /\ [Next]_vars => ReliefInv'
<1> SUFFICES ASSUME TypeOK, ReliefInv, [Next]_vars PROVE ReliefInv'
  OBVIOUS
<1> USE DEF ReliefInv, deployment, locals, history
<1>1. ASSUME NEW n \in Nodes, DiskMoves(n) PROVE ReliefInv'
  BY <1>1 DEF DiskMoves, Low
<1>2. CASE OperatorScales
  BY <1>2 DEF OperatorScales, Low
<1>3. CASE JobDies
  BY <1>3 DEF JobDies, JobEnds, Low
<1>4. CASE JobStarts
  BY <1>4 DEF JobStarts, Low
<1>5. ASSUME NEW n \in Nodes, Poll(n) PROVE ReliefInv'
  <2>1. /\ jpc = "poll" /\ jpc' = "poll" /\ unpolled' = unpolled \ {n}
        /\ UNCHANGED <<disk, dipped, goal>>
    BY <1>5 DEF Poll
  <2>2. disk[n] \in Nat /\ max \in Nat /\ ResumePct \in Nat
    BY Percentages DEF TypeOK
  <2>3. \/ blind' = blind /\ max' = (IF disk[n] > max THEN disk[n] ELSE max)
        \/ blind' = blind \cup {n} /\ max' = max
    BY <1>5 DEF Poll
  <2>4. \A m \in Nodes \ unpolled' : m \in dipped \cup blind' \/ max' > ResumePct
    <3> SUFFICES ASSUME NEW m \in Nodes, m \notin unpolled', ~(m \in dipped \cup blind')
                 PROVE  max' > ResumePct
      OBVIOUS
    <3>1. CASE m = n
      <4>1. blind' = blind /\ max' = (IF disk[n] > max THEN disk[n] ELSE max)
        BY <2>3, <3>1
      <4>2. n \notin Low
        BY <3>1
      <4>3. disk[n] > ResumePct
        BY <2>2, <4>2 DEF Low
      <4> QED
        BY <2>2, <4>1, <4>3
    <3>2. CASE m # n
      <4>1. m \notin unpolled /\ m \notin dipped \cup blind
        BY <2>1, <2>3, <3>2
      <4>2. max > ResumePct
        BY <2>1, <4>1
      <4> QED
        BY <2>2, <2>3, <4>2
    <3> QED
      BY <3>1, <3>2
  <2>5. Low' = Low
    BY <2>1 DEF Low
  <2> QED
    BY <2>1, <2>4, <2>5
<1>6. CASE GetReplicas
  BY <1>6 DEF GetReplicas, Low
<1>7. CASE Decide
  <2>1. UNCHANGED <<disk, dipped>> /\ jpc = "annotation" /\ unpolled = {}
    BY <1>7 DEF Decide
  <2>2. jpc' \in {"idle", "scale"}
    BY <1>7 DEF Decide, JobEnds
  <2>3. jpc' = "scale" /\ goal' = 1 => max <= ResumePct /\ blind' = blind
    BY <1>7 DEF Decide, JobEnds, MayResume
  <2>4. max \in Nat /\ ResumePct \in Nat
    BY Percentages DEF TypeOK
  <2>5. Low' = Low
    BY <2>1 DEF Low
  <2> QED
    BY <2>1, <2>2, <2>3, <2>4, <2>5
<1>8. CASE Scale
  BY <1>8 DEF Scale, Low
<1>9. CASE Annotate
  BY <1>9 DEF Annotate, JobEnds, Low
<1>10. CASE UNCHANGED vars
  BY <1>10 DEF vars, Low
<1> QED
  BY <1>1, <1>2, <1>3, <1>4, <1>5, <1>6, <1>7, <1>8, <1>9, <1>10 DEF Next, Job, Environment

\* The invariant holds in every reachable state.
THEOREM Invariance == Spec => []IInv
<1>1. IInv /\ [Next]_vars => IInv'
  BY StepTypeOK, StepClaim, StepRelief DEF IInv
<1> QED
  BY InitIInv, <1>1, PTL DEF Spec

\* The job's locals keep their types; the usage it compares is one it has read.
THEOREM TypeCorrect == Spec => []TypeOK
<1>1. IInv => TypeOK
  BY DEF IInv
<1> QED
  BY <1>1, Invariance, PTL

\* However many calls fail, jobs die and operators interfere: a migrator the
\* watchdog stopped carries the annotation that lets a later job start it,
\* unless a pause or a resume was left half done.
THEOREM PauseIsClaimedHolds == Spec => []PauseIsClaimed
<1>1. IInv => PauseIsClaimed
  BY DEF IInv, ClaimInv
<1> QED
  BY <1>1, Invariance, PTL

\* The watchdog scales up only if every node it could read has been at or
\* below the resume threshold since it last paused the migrator.
THEOREM ResumeAfterReliefHolds == Spec => ResumeAfterRelief
<1> DEFINE Resume == jpc = "scale" /\ jpc' = "annotate" /\ replicas < replicas'
<1>1. IInv /\ [Next]_vars => [Resume => Nodes \subseteq dipped \cup blind]_vars
  <2> SUFFICES ASSUME IInv, [Next]_vars, Resume PROVE Nodes \subseteq dipped \cup blind
    OBVIOUS
  <2>1. Scale
    BY DEF Next, Job, Environment, vars, DiskMoves, OperatorScales, JobDies, JobEnds, JobStarts, Poll,
       GetReplicas, Decide, Annotate
  <2>2. replicas \in 0..1 /\ goal \in 0..1
    BY DEF IInv, TypeOK
  <2>3. replicas' = goal
    BY <2>1, <2>2 DEF Scale
  <2>4. goal = 1
    BY <2>2, <2>3
  <2> QED
    BY <2>4 DEF IInv, ReliefInv
<1> QED
  BY <1>1, Invariance, PTL DEF Spec, ResumeAfterRelief
============================================================================
