---------------------------- MODULE DiskWatchdog ----------------------------
(***************************************************************************)
(* The disk-watchdog CronJob: every minute a job polls the nodes' disks,   *)
(* reads the migrator deployment's replicas and its paused-at annotation,  *)
(* and pauses or resumes the migrator by two separate kubectl calls, scale *)
(* and annotate.  The shell runs with -u but without -e: a call that fails *)
(* does not keep the next one from being made.  concurrencyPolicy Forbid   *)
(* leaves at most one job at a time, and activeDeadlineSeconds, with no    *)
(* retry, may end it anywhere.  Disks and an operator move meanwhile.      *)
(***************************************************************************)
EXTENDS Naturals

CONSTANTS
  Nodes,
  Usages,     \* disk usage in percent
  PausePct, ResumePct,
  MaxFaults,  \* bound: failed kubectl calls and jobs that die
  MaxOps      \* bound: interventions of the operator

ASSUME DiskWatchdogAssumption ==
  /\ Usages \subseteq 0..100 /\ PausePct \in 0..100 /\ ResumePct \in 0..100
  /\ ResumePct < PausePct /\ MaxFaults \in Nat /\ MaxOps \in Nat

VARIABLES
  disk,                \* usage of each node
  replicas, annotated, \* the deployment: spec.replicas, and is paused-at set?
  jpc,                 \* the job: "idle", "poll", "annotation", "scale", "annotate"
  unpolled, max, cur,  \* its locals: nodes to go, highest usage, replicas read
  goal,                \* the replicas it is about to set
  dipped,     \* history: nodes at or below ResumePct at some time since the last pause
  blind,      \* history: nodes this job has no reading of
  stopper,    \* history: who last scaled to 0
  strayed,    \* history: a half-done pause or resume has happened since the last whole one
  faults, ops \* spent bounds

deployment == <<replicas, annotated>>
locals == <<unpolled, max, cur, goal>>
history == <<dipped, blind, stopper, strayed>>
vars == <<disk, deployment, jpc, locals, history, faults, ops>>

Low == {n \in Nodes : disk[n] <= ResumePct}

Init ==
  /\ disk \in [Nodes -> Usages] /\ replicas = 1 /\ annotated = FALSE
  /\ jpc = "idle" /\ unpolled = {} /\ max = 0 /\ cur = 0 /\ goal = 0
  /\ dipped = Low /\ blind = {} /\ stopper = "nobody" /\ strayed = FALSE
  /\ faults = 0 /\ ops = 0

Fault == faults < MaxFaults /\ faults' = faults + 1
JobEnds == jpc' = "idle" /\ unpolled' = {} /\ max' = 0 /\ cur' = 0 /\ goal' = 0 /\ blind' = {}

----------------------------------------------------------------------------
(* The environment.                                                        *)

DiskMoves(n) ==
  /\ \E u \in Usages \ {disk[n]} : disk' = [disk EXCEPT ![n] = u]
  /\ dipped' = dipped \cup {m \in Nodes : disk'[m] <= ResumePct}
  /\ UNCHANGED <<deployment, jpc, locals, blind, stopper, strayed, faults, ops>>

\* kubectl scale by hand; the annotation stays as it is.
OperatorScales ==
  /\ ops < MaxOps /\ ops' = ops + 1
  /\ replicas' = 1 - replicas
  /\ stopper' = IF replicas = 1 THEN "operator" ELSE stopper
  /\ UNCHANGED <<disk, annotated, jpc, locals, dipped, blind, strayed, faults>>

\* The deadline passes, or the pod is evicted.
JobDies ==
  /\ jpc # "idle" /\ Fault /\ JobEnds
  /\ strayed' = (strayed \/ jpc = "annotate")
  /\ UNCHANGED <<disk, deployment, dipped, stopper, ops>>

----------------------------------------------------------------------------
(* The job.                                                                *)

\* A failed "get nodes" is an empty list: the loop runs for no node.
JobStarts ==
  /\ jpc = "idle" /\ jpc' = "poll"
  /\ \/ unpolled' = Nodes /\ UNCHANGED <<blind, faults>>
     \/ unpolled' = {} /\ blind' = Nodes /\ Fault
  /\ UNCHANGED <<disk, deployment, max, cur, goal, dipped, stopper, strayed, ops>>

\* Fault: usages are added up.
PollSumming(n) ==
  /\ jpc = "poll" /\ n \in unpolled
  /\ unpolled' = unpolled \ {n} /\ max' = max + disk[n]
  /\ UNCHANGED <<disk, deployment, jpc, cur, goal, history, faults, ops>>

\* Fault: the last node polled decides.
PollKeepingLast(n) ==
  /\ jpc = "poll" /\ n \in unpolled
  /\ unpolled' = unpolled \ {n} /\ max' = disk[n]
  /\ UNCHANGED <<disk, deployment, jpc, cur, goal, history, faults, ops>>

\* A node whose stats cannot be read counts as 0%.
Poll(n) ==
  /\ jpc = "poll" /\ n \in unpolled
  /\ unpolled' = unpolled \ {n}
  /\ \/ max' = (IF disk[n] > max THEN disk[n] ELSE max) /\ UNCHANGED <<blind, faults>>
     \/ blind' = blind \cup {n} /\ Fault /\ UNCHANGED max
  /\ UNCHANGED <<disk, deployment, jpc, cur, goal, dipped, stopper, strayed, ops>>

\* An unreadable replica count is 0.
GetReplicas ==
  /\ jpc = "poll" /\ unpolled = {} /\ jpc' = "annotation"
  /\ \/ cur' = replicas /\ UNCHANGED faults
     \/ cur' = 0 /\ Fault
  /\ UNCHANGED <<disk, deployment, unpolled, max, goal, history, ops>>

\* Fault: strictly above the pause threshold.
MustPauseAbove == max > PausePct /\ cur > 0

MustPause == max >= PausePct /\ cur > 0

\* Fault: strictly below the resume threshold.
MayResumeBelow(pausedBy) == max < ResumePct /\ cur = 0 /\ pausedBy

MayResume(pausedBy) == max <= ResumePct /\ cur = 0 /\ pausedBy

\* paused_by is read, then the job decides.
Decide ==
  /\ jpc = "annotation"
  /\ \E pausedBy \in {annotated, FALSE} :
       /\ IF pausedBy = annotated THEN UNCHANGED faults ELSE Fault
       /\ IF MustPause THEN jpc' = "scale" /\ goal' = 0 /\ UNCHANGED <<unpolled, max, cur, blind>>
          ELSE IF MayResume(pausedBy)
          THEN jpc' = "scale" /\ goal' = 1 /\ UNCHANGED <<unpolled, max, cur, blind>>
          ELSE JobEnds
  /\ UNCHANGED <<disk, deployment, dipped, stopper, strayed, ops>>

\* A failed scale is followed by the annotate all the same.
Scale ==
  /\ jpc = "scale" /\ jpc' = "annotate"
  /\ \/ /\ replicas' = goal /\ UNCHANGED <<strayed, faults>>
        /\ IF goal = 0 THEN stopper' = "watchdog" /\ dipped' = Low ELSE UNCHANGED <<stopper, dipped>>
     \/ Fault /\ strayed' = TRUE /\ UNCHANGED <<replicas, stopper, dipped>>
  /\ UNCHANGED <<disk, annotated, locals, blind, ops>>

\* Fault: the pause is not annotated.
AnnotateResumeOnly ==
  /\ jpc = "annotate" /\ annotated' = (annotated /\ goal = 0)
  /\ JobEnds /\ UNCHANGED <<disk, replicas, dipped, stopper, strayed, faults, ops>>

\* A pause sets paused-at, a resume removes it.
Annotate ==
  /\ jpc = "annotate"
  /\ \/ /\ annotated' = (goal = 0) /\ strayed' = (strayed /\ goal = 1) /\ UNCHANGED faults
     \/ Fault /\ strayed' = TRUE /\ UNCHANGED annotated
  /\ JobEnds
  /\ UNCHANGED <<disk, replicas, dipped, stopper, ops>>

Job == JobStarts \/ (\E n \in Nodes : Poll(n)) \/ GetReplicas \/ Decide \/ Scale \/ Annotate
Environment == (\E n \in Nodes : DiskMoves(n)) \/ OperatorScales \/ JobDies

Next == Job \/ Environment

Spec == Init /\ [][Next]_vars

\* The CronJob controller starts a job every minute and a job's calls return.
FairSpec == Spec /\ WF_vars(Job)

----------------------------------------------------------------------------
(* Properties.                                                             *)

TypeOK ==
  /\ disk \in [Nodes -> Usages] /\ replicas \in 0..1 /\ annotated \in BOOLEAN
  /\ jpc \in {"idle", "poll", "annotation", "scale", "annotate"}
  /\ unpolled \subseteq Nodes /\ max \in Usages \cup {0} /\ cur \in 0..1 /\ goal \in 0..1
  /\ dipped \subseteq Nodes /\ blind \subseteq Nodes
  /\ stopper \in {"nobody", "watchdog", "operator"} /\ strayed \in BOOLEAN
  /\ faults \in 0..MaxFaults /\ ops \in 0..MaxOps

\* Hysteresis: the watchdog scales the migrator up only if, since it last
\* paused it, every node has been at or below the resume threshold at some
\* moment, or this job could not read the node.
ResumeAfterRelief ==
  [][jpc = "scale" /\ jpc' = "annotate" /\ replicas < replicas'
     => Nodes \subseteq dipped \cup blind]_vars

\* A migrator the watchdog has stopped carries the annotation the next job
\* needs to start it again, unless a pause or a resume was left half done: by
\* a job that died between its two calls or by one call failing.
PauseIsClaimed ==
  replicas = 0 /\ stopper = "watchdog" /\ jpc # "annotate" /\ ~strayed => annotated

\* A node that stays full stops the migrator for good, whatever calls failed
\* before and whatever the operator did meanwhile.
FullDiskPauses == \A n \in Nodes : <>[](disk[n] >= PausePct) => <>[](replicas = 0)

\* A pause ends by itself: once all disks stay low, the migrator runs for good
\* unless the operator was the one who stopped it or a pause or resume was left
\* half done.  The script resumes although the comment at the head of the
\* CronJob says "Operator resumes manually".
LowDiskResumes ==
  <>[](Low = Nodes) => <>[](replicas = 1 \/ stopper = "operator" \/ strayed)
============================================================================
