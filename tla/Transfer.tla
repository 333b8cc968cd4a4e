------------------------------ MODULE Transfer ------------------------------
(***************************************************************************)
(* What migration.Run promises, without goroutines, channels or batches:   *)
(* samples reach the endpoint in some order, none of them is ever taken    *)
(* back, success is reported only when all of them have arrived, and an    *)
(* outcome is final.                                                       *)
(***************************************************************************)
CONSTANT Samples

VARIABLES delivered, outcome

tvars == <<delivered, outcome>>

TransferInit == delivered = {} /\ outcome = "running"

Deliver ==
  /\ outcome = "running"
  /\ delivered \subseteq delivered' /\ delivered' \subseteq Samples
  /\ UNCHANGED outcome

Succeed ==
  /\ outcome = "running" /\ delivered = Samples
  /\ outcome' = "ok" /\ UNCHANGED delivered

\* A failed run may have delivered any part of the samples.
Fail ==
  /\ outcome = "running"
  /\ outcome' = "failed" /\ UNCHANGED delivered

TransferNext == Deliver \/ Succeed \/ Fail

TransferSpec == TransferInit /\ [][TransferNext]_tvars
============================================================================
