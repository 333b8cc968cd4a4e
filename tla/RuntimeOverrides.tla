-------------------------- MODULE RuntimeOverrides --------------------------
(***************************************************************************)
(* mimirconfig.Client: ApplyOverrides (every POST /migrate) and            *)
(* RevertOverrides (the revert-overrides CLI) on data["runtime.yaml"] of   *)
(* the mimir-runtime ConfigMap.  A call reads the ConfigMap, edits the     *)
(* parsed document and writes the whole document back with a merge patch   *)
(* that carries no resourceVersion, so calls interleave freely.  The       *)
(* operator's run-migration.sh patches the same ConfigMap, but without     *)
(* reading it: its document replaces the whole of runtime.yaml.            *)
(*                                                                         *)
(* A YAML map is a total function on Keys in which None marks a missing    *)
(* key; the values an operator may have put there are Theirs, and Ours is  *)
(* what ApplyOverrides writes.                                             *)
(***************************************************************************)
EXTENDS Integers, FiniteSets

CONSTANTS
  Clients,     \* concurrent callers: API requests, CLI processes, operators' scripts
  Tenants,
  OtherKeys,   \* per-tenant keys the package does not own
  Theirs,      \* values found in the document
  Rest,        \* contents the document may have besides "overrides"
  InitialDocs, \* documents the ConfigMap may hold at first
  MaxCalls     \* bound: calls made

None == "none"
NoRest == "nothing"
Ours == "ours"
Managed == {"out_of_order_time_window", "ingestion_rate", "ingestion_burst_size"}
Keys == Managed \cup OtherKeys

Maps == [Keys -> Theirs \cup {Ours, None}]
EmptyMap == [k \in Keys |-> None]

\* A tenant's entry: missing, null, a map, or a value that is no map ("scalar").
Entries == [form : {"absent", "null", "scalar", "map"}, map : Maps]
Absent == [form |-> "absent", map |-> EmptyMap]

\* "overrides" may be missing or null ("absent"), a map with string keys, or
\* "malformed": above all a map in which some tenant's number is not quoted, so
\* that yaml.v3 makes it no map[string]interface{}.  An "unparsable" document is
\* no YAML map at all.
Docs == [kind : {"absent", "malformed", "map", "unparsable"},
         overrides : [Tenants -> Entries], rest : Rest]

\* How the fields represent a document: only a map has keys, and only an
\* overrides value that is there has entries.
WellFormed(d) ==
  /\ d \in Docs
  /\ \A t \in Tenants : d.overrides[t].form # "map" => d.overrides[t].map = EmptyMap
  /\ d.kind \in {"absent", "unparsable"} => \A t \in Tenants : d.overrides[t] = Absent

ASSUME RuntimeOverridesAssumption ==
  /\ OtherKeys \cap Managed = {}
  /\ None \notin Theirs /\ NoRest \in Rest
  /\ \A d \in InitialDocs : WellFormed(d)
  /\ MaxCalls \in Nat

VARIABLES
  cm,     \* the document in the ConfigMap
  cm0,    \* history: the document at first
  call,   \* each client's call: control point, operation, tenants, document read
  last,   \* history: per tenant, what its last call did
  replaced,   \* history: has a script replaced the document?
  overlapped, \* history: have two calls ever been in flight at once?
  calls   \* spent bound

vars == <<cm, cm0, call, last, replaced, overlapped, calls>>

----------------------------------------------------------------------------
\* An entry that is not a map becomes an empty one, and overrides that are no
\* map with string keys become empty: what was there is gone.
extractOverrides(d) ==
  [t \in Tenants |->
     IF d.kind # "map" THEN Absent
     ELSE IF d.overrides[t].form \in {"null", "scalar"} THEN [form |-> "map", map |-> EmptyMap]
     ELSE d.overrides[t]]

\* Fault: the burst size is forgotten.
SetWithoutBurst(e) ==
  [form |-> "map",
   map  |-> [k \in Keys |-> IF k \in Managed \ {"ingestion_burst_size"} THEN Ours ELSE e.map[k]]]

\* The three managed keys are set, in a new map if there was none.
SetManaged(e) ==
  [form |-> "map", map |-> [k \in Keys |-> IF k \in Managed THEN Ours ELSE e.map[k]]]

\* Fault: the entry is deleted with whatever else it holds.
DropEntry(e) == Absent

\* The managed keys are deleted, and the entry with them if nothing is left.
UnsetManaged(e) ==
  LET m == [k \in Keys |-> IF k \in Managed THEN None ELSE e.map[k]]
  IN  IF e.form = "absent" \/ m = EmptyMap THEN Absent ELSE [form |-> "map", map |-> m]

\* Fault: tenants without an entry are skipped, as RevertOverrides does.
ApplyToExisting(d, ts) ==
  LET o == extractOverrides(d)
  IN  [d EXCEPT !.kind = "map",
                !.overrides = [t \in Tenants |-> IF t \in ts /\ o[t].form # "absent"
                                                 THEN SetManaged(o[t]) ELSE o[t]]]

ApplyDoc(d, ts) ==
  LET o == extractOverrides(d)
  IN  [d EXCEPT !.kind = "map",
                !.overrides = [t \in Tenants |-> IF t \in ts THEN SetManaged(o[t]) ELSE o[t]]]

\* Fault: overrides is deleted as soon as the tenants of this call are gone.
RevertDocHasty(d, ts) ==
  LET o == extractOverrides(d)
      r == [t \in Tenants |-> IF t \in ts THEN UnsetManaged(o[t]) ELSE o[t]]
  IN  [d EXCEPT !.kind = IF \A t \in ts : r[t].form = "absent" THEN "absent" ELSE "map",
                !.overrides = r]

\* An overrides map left empty is deleted from the document.
RevertDoc(d, ts) ==
  LET o == extractOverrides(d)
      r == [t \in Tenants |-> IF t \in ts THEN UnsetManaged(o[t]) ELSE o[t]]
  IN  [d EXCEPT !.kind = IF \A t \in Tenants : r[t].form = "absent" THEN "absent" ELSE "map",
                !.overrides = r]

\* patch_runtime_config: an entry with the managed keys for each tenant given,
\* and nothing else.
ReplaceDoc(ts) ==
  [kind |-> "map", rest |-> NoRest,
   overrides |-> [t \in Tenants |->
     IF t \in ts
     THEN [form |-> "map", map |-> [k \in Keys |-> IF k \in Managed THEN Ours ELSE None]]
     ELSE Absent]]

Edit(op, d, ts) ==
  CASE op = "apply" -> ApplyDoc(d, ts)
    [] op = "revert" -> RevertDoc(d, ts)
    [] op = "replace" -> ReplaceDoc(ts)

----------------------------------------------------------------------------
Ops == {"apply", "revert", "replace"}

Idle(d) == [pc |-> "idle", op |-> "apply", ts |-> {}, doc |-> d]

\* A call is about its tenants, except that a replacement is about all.
Concerns(op, ts, t) == t \in ts \/ op = "replace"

\* What a call does to a tenant it concerns: replacing the document takes back
\* the overrides of the tenants it was not given.
Effect(op, ts, t) == IF op = "revert" \/ t \notin ts THEN "revert" ELSE "apply"

Init ==
  /\ cm \in InitialDocs /\ cm0 = cm
  /\ call = [c \in Clients |-> Idle(cm)]
  /\ last = [t \in Tenants |-> "never"] /\ replaced = FALSE /\ overlapped = FALSE /\ calls = 0

\* All callers refuse an empty list of tenants; the script goes straight to
\* its patch.
Begin(c) ==
  /\ call[c].pc = "idle" /\ calls < MaxCalls
  /\ \E op \in Ops, ts \in (SUBSET Tenants) \ {{}} :
       /\ call' = [call EXCEPT ![c] = [pc |-> IF op = "replace" THEN "patch" ELSE "get",
                                      op |-> op, ts |-> ts, doc |-> cm0]]
       /\ last' = [t \in Tenants |-> IF Concerns(op, ts, t) THEN "unknown" ELSE last[t]]
  /\ overlapped' = (overlapped \/ \E b \in Clients : call[b].pc # "idle")
  /\ calls' = calls + 1
  /\ UNCHANGED <<cm, cm0, replaced>>

Get(c) ==
  /\ call[c].pc = "get" /\ cm.kind # "unparsable"
  /\ call' = [call EXCEPT ![c].pc = "patch", ![c].doc = cm]
  /\ UNCHANGED <<cm, cm0, last, replaced, overlapped, calls>>

\* The call returns an error: the Get failed, the document does not parse, or
\* the patch failed.
Fail(c) ==
  /\ call[c].pc \in {"get", "patch"}
  /\ call' = [call EXCEPT ![c] = Idle(cm0)]
  /\ UNCHANGED <<cm, cm0, last, replaced, overlapped, calls>>

Contested(c, t) ==
  \E b \in Clients \ {c} : call[b].pc # "idle" /\ Concerns(call[b].op, call[b].ts, t)

\* The patch is applied; its answer reaches the caller, or is lost.
Patch(c) ==
  /\ call[c].pc = "patch"
  /\ cm' = Edit(call[c].op, call[c].doc, call[c].ts)
  /\ \/ last' = [t \in Tenants |->
                   IF Concerns(call[c].op, call[c].ts, t) /\ ~Contested(c, t)
                   THEN Effect(call[c].op, call[c].ts, t) ELSE last[t]]
     \/ UNCHANGED last
  /\ replaced' = (replaced \/ call[c].op = "replace")
  /\ call' = [call EXCEPT ![c] = Idle(cm0)]
  /\ UNCHANGED <<cm0, overlapped, calls>>

Next == \E c \in Clients : Begin(c) \/ Get(c) \/ Fail(c) \/ Patch(c)

Spec == Init /\ [][Next]_vars

----------------------------------------------------------------------------
(* Properties.                                                             *)

\* Types; in every document written or held by a call only maps have keys, and
\* overrides are missing only if no tenant has an entry.
TypeOK ==
  /\ WellFormed(cm) /\ cm0 \in InitialDocs
  /\ call \in [Clients -> [pc : {"idle", "get", "patch"}, op : Ops,
                           ts : SUBSET Tenants, doc : Docs]]
  /\ \A c \in Clients : WellFormed(call[c].doc)
  /\ last \in [Tenants -> {"never", "unknown", "apply", "revert"}]
  /\ replaced \in BOOLEAN /\ overlapped \in BOOLEAN /\ calls \in 0..MaxCalls

Foreign(d, t) == [k \in OtherKeys |-> d.overrides[t].map[k]]
ManagedOf(d, t) == [k \in Managed |-> d.overrides[t].map[k]]
AllOurs == [k \in Managed |-> Ours]
NoneSet == [k \in Managed |-> None]

NoForeign == [k \in OtherKeys |-> None]
Scalars(d) == {t \in Tenants : d.overrides[t].form = "scalar"}

\* What the edits let through of the document found at first: all of it, except
\* entries that are no maps and whatever malformed overrides held.
Passed(d) ==
  /\ d.rest = cm0.rest /\ Scalars(d) = {}
  /\ \A t \in Tenants :
       Foreign(d, t) = IF cm0.kind = "malformed" THEN NoForeign ELSE Foreign(cm0, t)
LosesForeign(d) ==
  d.rest = NoRest /\ Scalars(d) = {} /\ \A t \in Tenants : Foreign(d, t) = NoForeign
Whole(d) == \A t \in Tenants : ManagedOf(d, t) \in {ManagedOf(cm0, t), AllOurs, NoneSet}

\* Whatever calls interleave, fail or lose their answers, the keys of tenants'
\* maps that the package does not own are kept and so is the rest of the
\* document.  Two things lose data, each a whole kind of it and never a part:
\* any call drops what extractOverrides does not take for a map of maps, and
\* run-migration.sh drops everything.  A stale copy written back later brings
\* back one of the three documents, never a mixture.
UnmanagedPreserved == cm = cm0 \/ Passed(cm) \/ (replaced /\ LosesForeign(cm))

\* "preserving all other existing data", "as are entries for tenants not in the
\* provided list": a tenant no call was ever about has the entry it had.
UnlistedPreserved ==
  \A t \in Tenants :
    last[t] = "never" => /\ t \in Scalars(cm0) => t \in Scalars(cm)
                         /\ cm.overrides[t].map = cm0.overrides[t].map

\* A tenant is never left half relaxed: its three managed keys are all as they
\* were found, all set, or all gone, whatever calls interleave or fail.
ManagedWhole == Whole(cm)

\* "without touching other tenants": the last call for a tenant decides.  After
\* a successful ApplyOverrides its managed keys are set, after a successful
\* RevertOverrides they are gone and no empty entry is left behind, a script's
\* patch does the one to its tenants and the other to the rest, and a tenant no
\* call was about has the managed keys it had (or none, if the overrides found
\* at first were malformed: UnlistedPreserved is about those).
LastCallWins ==
  \A t \in Tenants :
    /\ last[t] = "apply"  => ManagedOf(cm, t) = AllOurs
    /\ last[t] = "revert" => ManagedOf(cm, t) = NoneSet
                             /\ (cm.overrides[t].form = "map" => cm.overrides[t].map # EmptyMap)
    /\ last[t] = "never"  => \/ ManagedOf(cm, t) = ManagedOf(cm0, t)
                             \/ cm0.kind = "malformed" /\ ManagedOf(cm, t) = NoneSet

\* As long as calls do not overlap, the last call for a tenant decides, also
\* when calls fail half way or lose their answer.
LastCallWinsAlone == ~overlapped => LastCallWins
============================================================================
