----------------------------- MODULE MCWaitLoop -----------------------------
(* An instance of WaitLoop for TLC; tasks are interchangeable.             *)
EXTENDS WaitLoop, TLC

TaskSymmetry == Permutations(Tasks)
============================================================================
