----------------------------- MODULE MCPipeline -----------------------------
(***************************************************************************)
(* Instances of Pipeline for TLC.  With a budget of 10 bytes the five      *)
(* series exercise every path of the batcher: one that fits, one with no   *)
(* samples, one that is split (average 4, windows of two; the second one,  *)
(* 1 + 2 + 12 bytes, is halved, and the 12-byte sample alone is oversize)  *)
(* and two small ones of which the second forces a flush.                  *)
(***************************************************************************)
EXTENDS Pipeline, TLC

MCSamples    == <<2, 0, 4, 1, 1>>
MCLabelBytes == <<2, 1, 1, 3, 3>>
MCCumBytes   == <<(0 :> 0 @@ 1 :> 2 @@ 2 :> 4),
                  (0 :> 0),
                  (0 :> 0 @@ 1 :> 2 @@ 2 :> 4 @@ 3 :> 6 @@ 4 :> 18),
                  (0 :> 0 @@ 1 :> 3),
                  (0 :> 0 @@ 1 :> 3)>>
============================================================================
