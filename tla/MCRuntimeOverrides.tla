------------------------- MODULE MCRuntimeOverrides -------------------------
(* Instances of RuntimeOverrides for TLC: two tenants, one foreign key, and *)
(* documents whose entries are missing, null, a scalar, empty, foreign or   *)
(* mixed, in overrides with string keys and in malformed ones.              *)
EXTENDS RuntimeOverrides

MCTheirs == {"theirs"}
MCRest == {"multi_kv_config", NoRest}

Filled(ks) == [form |-> "map", map |-> [k \in Keys |-> IF k \in ks THEN "theirs" ELSE None]]
MCEntries ==
  {[form |-> f, map |-> EmptyMap] : f \in {"absent", "null", "scalar", "map"}} \cup
  {Filled(ks) : ks \in {OtherKeys, OtherKeys \cup {"ingestion_rate"}}}

MCInitialDocs ==
  {[kind |-> k, overrides |-> o, rest |-> "multi_kv_config"] :
     k \in {"map", "malformed"}, o \in [Tenants -> MCEntries]}
  \cup {[kind |-> k, overrides |-> [t \in Tenants |-> Absent], rest |-> "multi_kv_config"] :
          k \in {"absent", "unparsable"}}
============================================================================
