---------------------------- MODULE MCTaskQueue ----------------------------
(* Instances of TaskQueue for TLC: two tasks of two projects.              *)
EXTENDS TaskQueue

MCProjectOf == <<"p1", "p2">>
MCOneProject == <<"p1">>
============================================================================
