---------------------------- MODULE MCTenantScan ----------------------------
(* An instance of TenantScan for TLC: series of project p2 are spread over *)
(* two blocks, p1's is in both, and one block is p3's only one.            *)
EXTENDS TenantScan, TLC

MCProjectOf == "a" :> "p1" @@ "b" :> "p2" @@ "c" :> "p2" @@ "d" :> "p3"
MCBlocks == <<{"a", "b"}, {"a", "c"}, {"d"}>>
============================================================================
