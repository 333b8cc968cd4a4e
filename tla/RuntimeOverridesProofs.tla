----------------------- MODULE RuntimeOverridesProofs -----------------------
(***************************************************************************)
(* For any number of concurrent callers and tenants: the edits of the      *)
(* runtime document lose no foreign key of a tenant's map, what they do    *)
(* lose is a whole kind of data, the operator's script loses all or none,  *)
(* and nothing leaves a tenant half relaxed.  The invariant speaks of the  *)
(* ConfigMap and of every document a call has read, because a stale copy   *)
(* is what the next patch writes.                                          *)
(***************************************************************************)
EXTENDS RuntimeOverrides, TLAPS

\* An entry f written for a tenant whose keys were taken to be m.
EntryOK(m, f) ==
  /\ f \in Entries /\ f.form # "scalar"
  /\ f.form # "map" => f.map = EmptyMap
  /\ [k \in OtherKeys |-> f.map[k]] = [k \in OtherKeys |-> m[k]]
  /\ [k \in Managed |-> f.map[k]] \in {[k \in Managed |-> m[k]], AllOurs, NoneSet}

\* The keys of a tenant that extractOverrides gets to see.
Visible(d, t) == IF d.kind = "malformed" THEN EmptyMap ELSE d.overrides[t].map

EntryWellFormed(e) == e \in Entries /\ (e.form # "map" => e.map = EmptyMap)

\* The empty map and the missing entry have the types of maps and entries.
LEMMA EmptyTyped == EmptyMap \in Maps /\ Absent \in Entries
BY DEF EmptyMap, Maps, Absent, Entries

\* SetManaged keeps the foreign keys of an entry and sets the managed ones.
LEMMA SetEntry ==
  ASSUME NEW e, EntryWellFormed(e)
  PROVE  EntryOK(e.map, SetManaged(e))
<1> DEFINE m == [k \in Keys |-> IF k \in Managed THEN Ours ELSE e.map[k]]
<1>1. e.map \in Maps
  BY DEF EntryWellFormed, Entries
<1>2. m \in Maps
  BY <1>1 DEF Maps
<1>3. SetManaged(e) = [form |-> "map", map |-> m]
  BY DEF SetManaged
<1>4. SetManaged(e) \in Entries
  BY <1>2, <1>3 DEF Entries
<1>5. [k \in OtherKeys |-> m[k]] = [k \in OtherKeys |-> e.map[k]]
  BY RuntimeOverridesAssumption DEF Keys
<1>6. [k \in Managed |-> m[k]] = AllOurs
  BY DEF Keys, AllOurs
<1> QED
  BY <1>3, <1>4, <1>5, <1>6 DEF EntryOK

\* UnsetManaged keeps the foreign keys of an entry and clears the managed
\* ones, also when it deletes the entry.
LEMMA UnsetEntry ==
  ASSUME NEW e, EntryWellFormed(e)
  PROVE  EntryOK(e.map, UnsetManaged(e))
<1> DEFINE m == [k \in Keys |-> IF k \in Managed THEN None ELSE e.map[k]]
<1>1. e.map \in Maps
  BY DEF EntryWellFormed, Entries
<1>2. m \in Maps
  BY <1>1 DEF Maps
<1>3. [k \in OtherKeys |-> m[k]] = [k \in OtherKeys |-> e.map[k]]
  BY RuntimeOverridesAssumption DEF Keys
<1>4. [k \in Managed |-> m[k]] = NoneSet
  BY DEF Keys, NoneSet
<1>5. CASE e.form = "absent" \/ m = EmptyMap
  <2>1. UnsetManaged(e) = Absent
    BY <1>5 DEF UnsetManaged
  <2>2. [k \in OtherKeys |-> EmptyMap[k]] = [k \in OtherKeys |-> e.map[k]]
    BY <1>3, <1>5 DEF EntryWellFormed
  <2>3. [k \in Managed |-> EmptyMap[k]] = NoneSet
    BY DEF EmptyMap, NoneSet, Keys
  <2> QED
    BY <2>1, <2>2, <2>3, EmptyTyped DEF EntryOK, Absent
<1>6. CASE ~(e.form = "absent" \/ m = EmptyMap)
  <2>1. UnsetManaged(e) = [form |-> "map", map |-> m]
    BY <1>6 DEF UnsetManaged
  <2>2. UnsetManaged(e) \in Entries
    BY <1>2, <2>1 DEF Entries
  <2> QED
    BY <2>1, <2>2, <1>3, <1>4 DEF EntryOK
<1> QED
  BY <1>5, <1>6

\* Converting the generic YAML map changes no key of an entry it can see, and
\* leaves no entry that is not a map.
LEMMA ExtractEntry ==
  ASSUME NEW d, WellFormed(d), NEW t \in Tenants
  PROVE  /\ EntryWellFormed(extractOverrides(d)[t])
         /\ extractOverrides(d)[t].map = Visible(d, t)
         /\ extractOverrides(d)[t].form # "scalar"
<1>1. d.overrides[t] \in Entries /\ d.kind \in {"absent", "malformed", "map", "unparsable"}
  BY DEF WellFormed, Docs
<1>2. extractOverrides(d)[t] =
        IF d.kind # "map" THEN Absent
        ELSE IF d.overrides[t].form \in {"null", "scalar"} THEN [form |-> "map", map |-> EmptyMap]
        ELSE d.overrides[t]
  BY DEF extractOverrides
<1>3. CASE d.kind # "map"
  BY <1>1, <1>2, <1>3, EmptyTyped DEF WellFormed, EntryWellFormed, Absent, Visible
<1>4. CASE d.kind = "map" /\ d.overrides[t].form \in {"null", "scalar"}
  BY <1>1, <1>2, <1>4, EmptyTyped DEF WellFormed, EntryWellFormed, Entries, Visible
<1>5. CASE d.kind = "map" /\ d.overrides[t].form \notin {"null", "scalar"}
  BY <1>1, <1>2, <1>5 DEF WellFormed, EntryWellFormed, Entries, Visible
<1> QED
  BY <1>3, <1>4, <1>5

\* Nothing is foreign, and nothing managed, in a document's hidden part.
LEMMA VisibleKeys ==
  ASSUME NEW d, NEW t
  PROVE  /\ [k \in OtherKeys |-> Visible(d, t)[k]]
              = IF d.kind = "malformed" THEN NoForeign ELSE Foreign(d, t)
         /\ [k \in Managed |-> Visible(d, t)[k]] \in {ManagedOf(d, t), NoneSet}
<1>1. /\ [k \in OtherKeys |-> EmptyMap[k]] = NoForeign
      /\ [k \in Managed |-> EmptyMap[k]] = NoneSet
  BY DEF EmptyMap, Keys, NoForeign, NoneSet
<1> QED
  BY <1>1 DEF Visible, Foreign, ManagedOf

\* What every edit guarantees of the document it writes.
EditOK(d, f) ==
  /\ WellFormed(f) /\ f.rest = d.rest /\ f.kind # "malformed" /\ Scalars(f) = {}
  /\ \A t \in Tenants : Foreign(f, t) = IF d.kind = "malformed" THEN NoForeign ELSE Foreign(d, t)
  /\ \A t \in Tenants : ManagedOf(f, t) \in {ManagedOf(d, t), AllOurs, NoneSet}

\* ApplyOverrides and RevertOverrides, as functions on documents, keep the
\* foreign data they can see and treat the managed keys of a tenant as one.
LEMMA EditDoc ==
  ASSUME NEW d, WellFormed(d), NEW ts, NEW op \in {"apply", "revert"}
  PROVE  EditOK(d, Edit(op, d, ts))
<1> DEFINE o == extractOverrides(d)
           f == Edit(op, d, ts)
           a == [t \in Tenants |-> IF t \in ts THEN SetManaged(o[t]) ELSE o[t]]
           r == [t \in Tenants |-> IF t \in ts THEN UnsetManaged(o[t]) ELSE o[t]]
           rk == IF \A t \in Tenants : r[t].form = "absent" THEN "absent" ELSE "map"
<1>0. d \in Docs
  BY DEF WellFormed
<1>1. \A t \in Tenants : EntryOK(Visible(d, t), a[t])
  <2> TAKE t \in Tenants
  <2>1. EntryWellFormed(o[t]) /\ o[t].map = Visible(d, t) /\ o[t].form # "scalar"
    BY ExtractEntry
  <2>2. EntryOK(o[t].map, o[t])
    BY <2>1 DEF EntryOK, EntryWellFormed
  <2>3. EntryOK(o[t].map, SetManaged(o[t]))
    BY <2>1, SetEntry
  <2> HIDE DEF o
  <2>4. EntryOK(o[t].map, a[t])
    BY <2>2, <2>3
  <2> QED
    BY <2>1, <2>4 DEF EntryOK
<1>2. \A t \in Tenants : EntryOK(Visible(d, t), r[t])
  <2> TAKE t \in Tenants
  <2>1. EntryWellFormed(o[t]) /\ o[t].map = Visible(d, t) /\ o[t].form # "scalar"
    BY ExtractEntry
  <2>2. EntryOK(o[t].map, o[t])
    BY <2>1 DEF EntryOK, EntryWellFormed
  <2>3. EntryOK(o[t].map, UnsetManaged(o[t]))
    BY <2>1, UnsetEntry
  <2> HIDE DEF o
  <2>4. EntryOK(o[t].map, r[t])
    BY <2>2, <2>3
  <2> QED
    BY <2>1, <2>4 DEF EntryOK
<1>3. CASE op = "apply"
  <2>1. f = [d EXCEPT !.kind = "map", !.overrides = a]
    BY <1>3 DEF Edit, ApplyDoc
  <2> HIDE DEF f, a
  <2>2. f.kind = "map" /\ f.overrides = a /\ f.rest = d.rest
    BY <2>1, <1>0 DEF Docs
  <2>3. a \in [Tenants -> Entries]
    BY <1>1 DEF EntryOK, a
  <2>4. f \in Docs
    BY <2>1, <2>3, <1>0 DEF Docs
  <2>5. WellFormed(f)
    BY <2>2, <2>4, <1>1 DEF WellFormed, EntryOK
  <2>6. EditOK(d, f)
    <3>1. Scalars(f) = {}
      BY <2>2, <1>1 DEF Scalars, EntryOK
    <3>2. ASSUME NEW t \in Tenants
          PROVE  /\ Foreign(f, t) = [k \in OtherKeys |-> Visible(d, t)[k]]
                 /\ ManagedOf(f, t) \in {[k \in Managed |-> Visible(d, t)[k]], AllOurs, NoneSet}
      BY <2>2, <1>1 DEF EntryOK, Foreign, ManagedOf
    <3> QED
      BY <2>2, <2>5, <3>1, <3>2, VisibleKeys DEF EditOK
  <2> QED
    BY <2>6 DEF f
<1>4. CASE op = "revert"
  <2>1. f = [d EXCEPT !.kind = rk, !.overrides = r]
    BY <1>4 DEF Edit, RevertDoc
  <2>2. rk \in {"absent", "map"} /\ (rk # "map" => \A t \in Tenants : r[t].form = "absent")
    OBVIOUS
  <2> HIDE DEF f, r, rk
  <2>3. f.kind = rk /\ f.overrides = r /\ f.rest = d.rest
    BY <2>1, <1>0 DEF Docs
  <2>4. r \in [Tenants -> Entries]
    BY <1>2 DEF EntryOK, r
  <2>5. f \in Docs
    BY <2>1, <2>2, <2>4, <1>0 DEF Docs
  <2>6. rk # "map" => \A t \in Tenants : r[t] = Absent
    <3> SUFFICES ASSUME rk # "map", NEW t \in Tenants PROVE r[t] = Absent
      OBVIOUS
    <3>1. r[t] \in Entries /\ r[t].form = "absent" /\ r[t].map = EmptyMap
      BY <1>2, <2>2 DEF EntryOK
    <3> QED
      BY <3>1 DEF Entries, Absent
  <2>7. WellFormed(f)
    BY <2>3, <2>5, <2>6, <1>2 DEF WellFormed, EntryOK
  <2>8. EditOK(d, f)
    <3>1. Scalars(f) = {}
      BY <2>3, <1>2 DEF Scalars, EntryOK
    <3>2. ASSUME NEW t \in Tenants
          PROVE  /\ Foreign(f, t) = [k \in OtherKeys |-> Visible(d, t)[k]]
                 /\ ManagedOf(f, t) \in {[k \in Managed |-> Visible(d, t)[k]], AllOurs, NoneSet}
      BY <2>3, <1>2 DEF EntryOK, Foreign, ManagedOf
    <3> QED
      BY <2>2, <2>3, <2>7, <3>1, <3>2, VisibleKeys DEF EditOK
  <2> QED
    BY <2>8 DEF f
<1> QED
  BY <1>3, <1>4

\* The script's document is well formed, holds nothing foreign, and sets all
\* managed keys of a tenant or none.
LEMMA ReplacedDoc ==
  ASSUME NEW ts
  PROVE  /\ WellFormed(ReplaceDoc(ts)) /\ LosesForeign(ReplaceDoc(ts))
         /\ Whole(ReplaceDoc(ts)) /\ ReplaceDoc(ts).kind = "map"
<1> DEFINE m == [k \in Keys |-> IF k \in Managed THEN Ours ELSE None]
           e == [form |-> "map", map |-> m]
           o == [t \in Tenants |-> IF t \in ts THEN e ELSE Absent]
           f == ReplaceDoc(ts)
<1>1. f.kind = "map" /\ f.rest = NoRest /\ f.overrides = o
  BY DEF ReplaceDoc
<1>2. m \in Maps /\ e \in Entries
  BY DEF Maps, Entries
<1>3. o \in [Tenants -> Entries]
  BY <1>2, EmptyTyped
<1>4. f \in Docs
  BY <1>3, RuntimeOverridesAssumption DEF ReplaceDoc, Docs
<1>5. \A t \in Tenants : o[t] \in {e, Absent}
  OBVIOUS
<1>6. WellFormed(f)
  BY <1>1, <1>4, <1>5 DEF WellFormed, Absent
<1>7. /\ [k \in OtherKeys |-> m[k]] = [k \in OtherKeys |-> None]
      /\ [k \in OtherKeys |-> EmptyMap[k]] = [k \in OtherKeys |-> None]
  BY RuntimeOverridesAssumption DEF Keys, EmptyMap
<1>8. [k \in Managed |-> m[k]] = AllOurs /\ [k \in Managed |-> EmptyMap[k]] = NoneSet
  BY DEF Keys, EmptyMap, AllOurs, NoneSet
<1> HIDE DEF f, m, o
<1>9. \A t \in Tenants : f.overrides[t].map \in {m, EmptyMap}
  BY <1>1, <1>5 DEF Absent
<1>10. LosesForeign(f)
  <2>1. Scalars(f) = {}
    BY <1>1, <1>5 DEF Scalars, Absent
  <2> QED
    BY <1>1, <1>7, <1>9, <2>1 DEF LosesForeign, Foreign, NoForeign
<1>11. Whole(f)
  BY <1>8, <1>9 DEF Whole, ManagedOf
<1> QED
  BY <1>1, <1>6, <1>10, <1>11 DEF f

----------------------------------------------------------------------------
\* What there is of the first document in d.
Origin(d) == d = cm0 \/ (d.kind # "malformed" /\ (Passed(d) \/ (replaced /\ LosesForeign(d))))

\* A document some call may still write back.
Good(d) == WellFormed(d) /\ Whole(d) /\ Origin(d)

CallType == [pc : {"idle", "get", "patch"}, op : Ops,
             ts : SUBSET Tenants, doc : Docs]

\* The inductive invariant.
IInv ==
  /\ TypeOK
  /\ Good(cm)
  /\ \A c \in Clients : Good(call[c].doc)

\* The document at first keeps its own keys.
LEMMA InitialGood == ASSUME cm0 \in InitialDocs PROVE Good(cm0)
BY RuntimeOverridesAssumption DEF Good, Origin, Whole

\* The invariant holds at first.
LEMMA InitIInv == Init => IInv
<1> SUFFICES ASSUME Init PROVE IInv
  OBVIOUS
<1>1. cm0 \in InitialDocs /\ cm = cm0
  BY DEF Init
<1>2. Good(cm) /\ WellFormed(cm) /\ cm \in Docs
  BY <1>1, InitialGood DEF Good, WellFormed
<1>3. call \in [Clients -> CallType] /\ \A c \in Clients : call[c].doc = cm
  BY <1>2 DEF Init, Idle, CallType, Ops
<1>4. /\ last \in [Tenants -> {"never", "unknown", "apply", "revert"}]
      /\ replaced \in BOOLEAN /\ overlapped \in BOOLEAN
  BY DEF Init
<1>5. calls \in 0..MaxCalls
  BY RuntimeOverridesAssumption DEF Init
<1> QED
  BY <1>1, <1>2, <1>3, <1>4, <1>5 DEF IInv, TypeOK, CallType

\* Every step of every client preserves the invariant; only Patch writes the
\* document, and it writes an edit of a good one.
LEMMA StepIInv == IInv /\ [Next]_vars => IInv'
<1> SUFFICES ASSUME IInv, [Next]_vars PROVE IInv'
  OBVIOUS
<1> USE DEF CallType
<1>0. call \in [Clients -> CallType] /\ Good(cm0) /\ cm0 \in Docs
  BY InitialGood DEF IInv, TypeOK, Good, WellFormed
<1>1. ASSUME NEW c \in Clients, Begin(c) PROVE IInv'
  <2>1. PICK op \in Ops, ts \in (SUBSET Tenants) \ {{}} :
          /\ call' = [call EXCEPT ![c] = [pc |-> IF op = "replace" THEN "patch" ELSE "get",
                                         op |-> op, ts |-> ts, doc |-> cm0]]
          /\ last' = [t \in Tenants |-> IF Concerns(op, ts, t) THEN "unknown" ELSE last[t]]
    BY <1>1 DEF Begin
  <2>2. call' \in [Clients -> CallType]
    BY <2>1, <1>0
  <2>3. \A b \in Clients : Good(call'[b].doc)
    BY <2>1, <1>0 DEF IInv
  <2>4. cm' = cm /\ cm0' = cm0 /\ replaced' = replaced
        /\ calls' \in 0..MaxCalls /\ overlapped' \in BOOLEAN
    BY <1>1, RuntimeOverridesAssumption DEF Begin, IInv, TypeOK
  <2>5. last' \in [Tenants -> {"never", "unknown", "apply", "revert"}]
    BY <2>1 DEF IInv, TypeOK
  <2>6. TypeOK'
    BY <2>2, <2>3, <2>4, <2>5 DEF IInv, TypeOK, Good
  <2>7. Good(cm)'
    BY <2>4 DEF IInv, Good, Origin, Passed, LosesForeign, Whole, Scalars, Foreign, ManagedOf
  <2>8. \A b \in Clients : Good(call[b].doc)'
    BY <2>3, <2>4 DEF Good, Origin, Passed, LosesForeign, Whole, Scalars, Foreign, ManagedOf
  <2> QED
    BY <2>6, <2>7, <2>8 DEF IInv
<1>2. ASSUME NEW c \in Clients, Get(c) PROVE IInv'
  <2>1. call' \in [Clients -> CallType] /\ \A b \in Clients : call'[b].doc \in {call[b].doc, cm}
    <3>1. call' = [call EXCEPT ![c].pc = "patch", ![c].doc = cm]
      BY <1>2 DEF Get
    <3>2. cm \in Docs
      BY DEF IInv, TypeOK, WellFormed
    <3> QED
      BY <1>0, <3>1, <3>2
  <2>2. \A b \in Clients : Good(call'[b].doc)
    BY <2>1 DEF IInv
  <2>3. cm' = cm /\ cm0' = cm0 /\ calls' = calls /\ last' = last
        /\ replaced' = replaced /\ overlapped' = overlapped
    BY <1>2 DEF Get
  <2>4. TypeOK'
    BY <2>1, <2>2, <2>3 DEF IInv, TypeOK, Good
  <2>5. Good(cm)'
    BY <2>3 DEF IInv, Good, Origin, Passed, LosesForeign, Whole, Scalars, Foreign, ManagedOf
  <2>6. \A b \in Clients : Good(call[b].doc)'
    BY <2>2, <2>3 DEF Good, Origin, Passed, LosesForeign, Whole, Scalars, Foreign, ManagedOf
  <2> QED
    BY <2>4, <2>5, <2>6 DEF IInv
<1>3. ASSUME NEW c \in Clients, Fail(c) PROVE IInv'
  <2>1. call' \in [Clients -> CallType] /\ \A b \in Clients : call'[b].doc \in {call[b].doc, cm0}
    BY <1>3, <1>0 DEF Fail, Idle, Ops
  <2>2. \A b \in Clients : Good(call'[b].doc)
    BY <2>1, <1>0 DEF IInv
  <2>3. cm' = cm /\ cm0' = cm0 /\ calls' = calls /\ last' = last
        /\ replaced' = replaced /\ overlapped' = overlapped
    BY <1>3 DEF Fail
  <2>4. TypeOK'
    BY <2>1, <2>2, <2>3 DEF IInv, TypeOK, Good
  <2>5. Good(cm)'
    BY <2>3 DEF IInv, Good, Origin, Passed, LosesForeign, Whole, Scalars, Foreign, ManagedOf
  <2>6. \A b \in Clients : Good(call[b].doc)'
    BY <2>2, <2>3 DEF Good, Origin, Passed, LosesForeign, Whole, Scalars, Foreign, ManagedOf
  <2> QED
    BY <2>4, <2>5, <2>6 DEF IInv
<1>4. ASSUME NEW c \in Clients, Patch(c) PROVE IInv'
  <2>1. call' \in [Clients -> CallType] /\ \A b \in Clients : call'[b].doc \in {call[b].doc, cm0}
    BY <1>4, <1>0 DEF Patch, Idle, Ops
  <2>2. \A b \in Clients : Good(call'[b].doc)
    BY <2>1, <1>0 DEF IInv
  <2>3. /\ cm0' = cm0 /\ calls' = calls /\ overlapped' = overlapped
        /\ replaced' = (replaced \/ call[c].op = "replace") /\ replaced' \in BOOLEAN
    BY <1>4 DEF Patch
  <2>4. last' \in [Tenants -> {"never", "unknown", "apply", "revert"}]
    BY <1>4 DEF Patch, Effect, IInv, TypeOK
  <2>5. /\ WellFormed(cm') /\ Whole(cm')
        /\ cm'.kind # "malformed" /\ (Passed(cm') \/ (replaced' /\ LosesForeign(cm')))
    <3>1. Good(call[c].doc)
      BY DEF IInv
    <3>2. cm' = Edit(call[c].op, call[c].doc, call[c].ts) /\ call[c].op \in Ops
      BY <1>4, <1>0 DEF Patch
    <3>3. CASE call[c].op = "replace"
      <4>1. cm' = ReplaceDoc(call[c].ts)
        BY <3>2, <3>3 DEF Edit
      <4> QED
        BY <4>1, <3>3, <2>3, ReplacedDoc
    <3>4. CASE call[c].op \in {"apply", "revert"}
      <4>1. EditOK(call[c].doc, cm')
        BY <3>1, <3>2, <3>4, EditDoc DEF Good
      <4>2. WellFormed(cm') /\ Whole(cm')
        BY <4>1, <3>1 DEF EditOK, Good, Whole
      <4>3. call[c].doc = cm0 => Passed(cm')
        BY <4>1 DEF EditOK, Passed
      <4>4. call[c].doc.kind # "malformed" /\ Passed(call[c].doc) => Passed(cm')
        BY <4>1 DEF EditOK, Passed
      <4>5. LosesForeign(call[c].doc) => LosesForeign(cm')
        BY <4>1 DEF EditOK, LosesForeign
      <4> QED
        BY <4>1, <4>2, <4>3, <4>4, <4>5, <3>1, <2>3 DEF Good, Origin, EditOK
    <3> QED
      BY <3>2, <3>3, <3>4 DEF Ops
  <2>6. TypeOK'
    BY <2>1, <2>2, <2>3, <2>4, <2>5 DEF IInv, TypeOK, Good
  <2>7. Good(cm)'
    BY <2>3, <2>5 DEF Good, Origin, Passed, LosesForeign, Whole, Scalars, Foreign, ManagedOf
  <2>8. ASSUME NEW b \in Clients PROVE Good(call[b].doc)'
    <3>1. Good(call'[b].doc)
      BY <2>2
    <3>2. replaced => replaced'
      BY <2>3
    <3>3. Whole(call'[b].doc) <=> Whole(call[b].doc)'
      BY <2>3 DEF Whole, ManagedOf
    <3>4. Passed(call'[b].doc) <=> Passed(call[b].doc)'
      BY <2>3 DEF Passed, Foreign, Scalars
    <3>5. LosesForeign(call'[b].doc) <=> LosesForeign(call[b].doc)'
      BY DEF LosesForeign, Foreign, Scalars
    <3> QED
      BY <2>3, <3>1, <3>2, <3>3, <3>4, <3>5 DEF Good, Origin
  <2> QED
    BY <2>6, <2>7, <2>8 DEF IInv
<1>5. CASE UNCHANGED vars
  BY <1>5 DEF vars, IInv, TypeOK, Good, Origin, Passed, LosesForeign, Whole, Scalars, Foreign, ManagedOf
<1> QED
  BY <1>1, <1>2, <1>3, <1>4, <1>5 DEF Next

\* The invariant holds in every reachable state.
THEOREM Invariance == Spec => []IInv
BY InitIInv, StepIInv, PTL DEF Spec

\* Every document written to the ConfigMap or held by a call is well formed.
THEOREM TypeCorrect == Spec => []TypeOK
<1>1. IInv => TypeOK
  BY DEF IInv
<1> QED
  BY <1>1, Invariance, PTL

\* However many calls interleave, fail or lose their answers, the foreign keys
\* of tenants' maps and the rest of runtime.yaml are lost only if the operator's
\* script replaced the document, and then altogether; entries that are no maps,
\* and malformed overrides, are all there or all gone.
THEOREM UnmanagedPreservedHolds == Spec => []UnmanagedPreserved
<1>1. IInv => UnmanagedPreserved
  BY DEF IInv, Good, Origin, UnmanagedPreserved
<1> QED
  BY <1>1, Invariance, PTL

\* However many calls interleave, no tenant is left with some of the three
\* managed keys set and the others not.
THEOREM ManagedWholeHolds == Spec => []ManagedWhole
<1>1. IInv => ManagedWhole
  BY DEF IInv, Good, ManagedWhole
<1> QED
  BY <1>1, Invariance, PTL

----------------------------------------------------------------------------
(* Calls that do not overlap.                                              *)

\* How tenant t stands in document d if its last call did l.  After a revert
\* the entry is gone or still holds something; in particular it is no scalar,
\* which the next call for another tenant would turn into an empty map.  Once a
\* call has succeeded the overrides are not malformed.
Settled(d, l, t) ==
  /\ l = "apply" => ManagedOf(d, t) = AllOurs
  /\ l = "revert" => /\ ManagedOf(d, t) = NoneSet
                     /\ \/ d.overrides[t].form = "absent"
                        \/ d.overrides[t].form = "map" /\ d.overrides[t].map # EmptyMap
  /\ l = "never" => \/ ManagedOf(d, t) = ManagedOf(cm0, t)
                    \/ cm0.kind = "malformed" /\ ManagedOf(d, t) = NoneSet
  /\ l \in {"apply", "revert"} => d.kind # "malformed"

\* Without overlap one call at most is in flight, the document it has read is
\* the one in the ConfigMap, and nothing is claimed of the tenants it concerns.
AloneInv ==
  ~overlapped =>
    /\ \A b, c \in Clients : call[b].pc # "idle" /\ call[c].pc # "idle" => b = c
    /\ \A c \in Clients, t \in Tenants :
         call[c].pc # "idle" /\ Concerns(call[c].op, call[c].ts, t) => last[t] = "unknown"
    /\ \A c \in Clients : call[c].pc = "patch" /\ call[c].op # "replace" => call[c].doc = cm
    /\ \A t \in Tenants : Settled(cm, last[t], t)

\* SetManaged sets the three managed keys.
LEMMA SetEffect ==
  ASSUME NEW e
  PROVE  [k \in Managed |-> SetManaged(e).map[k]] = AllOurs
<1> DEFINE m == [k \in Keys |-> IF k \in Managed THEN Ours ELSE e.map[k]]
<1>1. SetManaged(e).map = m
  BY DEF SetManaged
<1>2. [k \in Managed |-> m[k]] = AllOurs
  BY DEF Keys, AllOurs
<1> QED
  BY <1>1, <1>2

\* UnsetManaged clears them and leaves no empty entry behind.
LEMMA UnsetEffect ==
  ASSUME NEW e
  PROVE  /\ [k \in Managed |-> UnsetManaged(e).map[k]] = NoneSet
         /\ \/ UnsetManaged(e).form = "absent"
            \/ UnsetManaged(e).form = "map" /\ UnsetManaged(e).map # EmptyMap
<1> DEFINE m == [k \in Keys |-> IF k \in Managed THEN None ELSE e.map[k]]
<1>1. [k \in Managed |-> m[k]] = NoneSet
  BY DEF Keys, NoneSet
<1>2. [k \in Managed |-> EmptyMap[k]] = NoneSet
  BY DEF EmptyMap, Keys, NoneSet
<1>3. CASE e.form = "absent" \/ m = EmptyMap
  <2>1. UnsetManaged(e) = Absent
    BY <1>3 DEF UnsetManaged
  <2> QED
    BY <2>1, <1>2 DEF Absent
<1>4. CASE ~(e.form = "absent" \/ m = EmptyMap)
  <2>1. UnsetManaged(e) = [form |-> "map", map |-> m]
    BY <1>4 DEF UnsetManaged
  <2> HIDE DEF m
  <2> QED
    BY <2>1, <1>1, <1>4
<1> QED
  BY <1>3, <1>4

\* What a call does to a tenant it concerns, and that it leaves the others
\* settled as they were.
LEMMA EditEffect ==
  ASSUME NEW d, WellFormed(d), d.kind = "malformed" => cm0.kind = "malformed",
         NEW ts, NEW op \in Ops, NEW t \in Tenants
  PROVE  /\ Concerns(op, ts, t) => Settled(Edit(op, d, ts), Effect(op, ts, t), t)
         /\ \A l \in {"never", "unknown", "apply", "revert"} :
              ~Concerns(op, ts, t) /\ Settled(d, l, t) => Settled(Edit(op, d, ts), l, t)
<1> DEFINE o == extractOverrides(d)
           f == Edit(op, d, ts)
           a == [u \in Tenants |-> IF u \in ts THEN SetManaged(o[u]) ELSE o[u]]
           r == [u \in Tenants |-> IF u \in ts THEN UnsetManaged(o[u]) ELSE o[u]]
           rk == IF \A u \in Tenants : r[u].form = "absent" THEN "absent" ELSE "map"
<1>0. d \in Docs
  BY DEF WellFormed
<1>1. ASSUME op # "replace", t \notin ts
      PROVE  f.overrides[t] = o[t] /\ f.kind # "malformed"
  <2>1. CASE op = "apply"
    <3>1. f = [d EXCEPT !.kind = "map", !.overrides = a]
      BY <2>1 DEF Edit, ApplyDoc
    <3>2. a[t] = o[t]
      BY <1>1
    <3> HIDE DEF f, a
    <3> QED
      BY <1>0, <3>1, <3>2 DEF Docs
  <2>2. CASE op = "revert"
    <3>1. f = [d EXCEPT !.kind = rk, !.overrides = r]
      BY <2>2 DEF Edit, RevertDoc
    <3>2. r[t] = o[t] /\ rk # "malformed"
      BY <1>1
    <3> HIDE DEF f, r, rk
    <3> QED
      BY <1>0, <3>1, <3>2 DEF Docs
  <2> QED
    BY <1>1, <2>1, <2>2 DEF Ops
<1>2. ASSUME op = "apply", t \in ts
      PROVE  f.overrides[t] = SetManaged(o[t]) /\ f.kind # "malformed"
  <2>1. f = [d EXCEPT !.kind = "map", !.overrides = a]
    BY <1>2 DEF Edit, ApplyDoc
  <2>2. a[t] = SetManaged(o[t])
    BY <1>2
  <2> HIDE DEF f, a
  <2> QED
    BY <1>0, <2>1, <2>2 DEF Docs
<1>3. ASSUME op = "revert", t \in ts
      PROVE  f.overrides[t] = UnsetManaged(o[t]) /\ f.kind # "malformed"
  <2>1. f = [d EXCEPT !.kind = rk, !.overrides = r]
    BY <1>3 DEF Edit, RevertDoc
  <2>2. r[t] = UnsetManaged(o[t]) /\ rk # "malformed"
    BY <1>3
  <2> HIDE DEF f, r, rk
  <2> QED
    BY <1>0, <2>1, <2>2 DEF Docs
<1>4. ASSUME op = "replace"
      PROVE  Settled(f, Effect(op, ts, t), t)
  <2> DEFINE m == [k \in Keys |-> IF k \in Managed THEN Ours ELSE None]
  <2>1. /\ f.overrides[t] = IF t \in ts THEN [form |-> "map", map |-> m] ELSE Absent
        /\ f.kind = "map"
    BY <1>4 DEF Edit, ReplaceDoc
  <2>2. [k \in Managed |-> m[k]] = AllOurs /\ [k \in Managed |-> EmptyMap[k]] = NoneSet
    BY DEF Keys, EmptyMap, AllOurs, NoneSet
  <2> HIDE DEF f, m
  <2>3. CASE t \in ts
    BY <1>4, <2>1, <2>2, <2>3 DEF Settled, Effect, ManagedOf
  <2>4. CASE t \notin ts
    BY <1>4, <2>1, <2>2, <2>4 DEF Settled, Effect, ManagedOf, Absent
  <2> QED
    BY <2>3, <2>4
<1>5. /\ d.kind # "malformed" =>
           /\ o[t].map = d.overrides[t].map
           /\ d.overrides[t].form \in {"absent", "map"} => o[t].form = d.overrides[t].form
      /\ d.kind = "malformed" => [k \in Managed |-> o[t].map[k]] = NoneSet
  <2>1. o[t].map = Visible(d, t)
    BY ExtractEntry
  <2>2. d.kind # "malformed" /\ d.overrides[t].form \in {"absent", "map"}
          => o[t].form = d.overrides[t].form
    BY <1>0 DEF extractOverrides, WellFormed, Docs
  <2>3. [k \in Managed |-> EmptyMap[k]] = NoneSet
    BY DEF EmptyMap, Keys, NoneSet
  <2> HIDE DEF o
  <2> QED
    BY <2>1, <2>2, <2>3 DEF Visible
<1> HIDE DEF f, o, a, r, rk
<1>6. Concerns(op, ts, t) => Settled(f, Effect(op, ts, t), t)
  <2>1. CASE op = "apply"
    BY <1>2, <2>1, SetEffect DEF Concerns, Settled, Effect, ManagedOf
  <2>2. CASE op = "revert"
    BY <1>3, <2>2, UnsetEffect DEF Concerns, Settled, Effect, ManagedOf
  <2> QED
    BY <1>4, <2>1, <2>2 DEF Ops
<1>7. ASSUME NEW l \in {"never", "unknown", "apply", "revert"},
             ~Concerns(op, ts, t), Settled(d, l, t)
      PROVE  Settled(f, l, t)
  <2>1. f.overrides[t] = o[t] /\ f.kind # "malformed"
    BY <1>1, <1>7 DEF Concerns
  <2>2. CASE d.kind # "malformed"
    <3>1. ManagedOf(f, t) = ManagedOf(d, t)
      BY <1>5, <2>1, <2>2 DEF ManagedOf
    <3> QED
      BY <1>5, <1>7, <2>1, <2>2, <3>1 DEF Settled
  <2>3. CASE d.kind = "malformed"
    <3>1. ManagedOf(f, t) = NoneSet
      BY <1>5, <2>1, <2>3 DEF ManagedOf
    <3> QED
      BY <1>7, <2>1, <2>3, <3>1 DEF Settled
  <2> QED
    BY <2>2, <2>3
<1> QED
  BY <1>6, <1>7 DEF f

\* Nothing has been called at first.
LEMMA InitAlone == Init => AloneInv
BY DEF Init, AloneInv, Settled, Idle

\* Every step of every client keeps the invariant as long as none overlaps.
LEMMA StepAlone == IInv /\ AloneInv /\ [Next]_vars => AloneInv'
<1> SUFFICES ASSUME IInv, AloneInv, [Next]_vars, ~overlapped' PROVE AloneInv'
  BY DEF AloneInv
<1>0. /\ call \in [Clients -> CallType] /\ WellFormed(cm)
      /\ last \in [Tenants -> {"never", "unknown", "apply", "revert"}]
  BY DEF IInv, TypeOK, CallType
<1>a. ~overlapped /\ cm0' = cm0
  <2>1. ASSUME NEW c \in Clients, Begin(c) PROVE ~overlapped /\ cm0' = cm0
    BY <2>1, Zenon DEF Begin
  <2>2. ASSUME NEW c \in Clients, Get(c) \/ Fail(c) \/ Patch(c) PROVE ~overlapped /\ cm0' = cm0
    BY <2>2 DEF Get, Fail, Patch
  <2> QED
    BY <2>1, <2>2 DEF Next, vars
<1>s. ASSUME cm' = cm, NEW t \in Tenants, last'[t] = last[t] \/ last'[t] = "unknown"
      PROVE  Settled(cm, last[t], t)'
  BY <1>a, <1>s DEF AloneInv, Settled, ManagedOf
<1>1. ASSUME NEW c \in Clients, Begin(c) PROVE AloneInv'
  <2>1. PICK op \in Ops, ts \in (SUBSET Tenants) \ {{}} :
          /\ call' = [call EXCEPT ![c] = [pc |-> IF op = "replace" THEN "patch" ELSE "get",
                                         op |-> op, ts |-> ts, doc |-> cm0]]
          /\ last' = [t \in Tenants |-> IF Concerns(op, ts, t) THEN "unknown" ELSE last[t]]
    BY <1>1 DEF Begin
  <2>2. cm' = cm /\ \A b \in Clients : call[b].pc = "idle"
    BY <1>1 DEF Begin
  <2>3. /\ \A b \in Clients \ {c} : call'[b].pc = "idle"
        /\ call'[c].op = op /\ call'[c].ts = ts
        /\ call'[c].pc = "patch" => call'[c].op = "replace"
    BY <2>1, <2>2, <1>0
  <2>4. \A t \in Tenants : Settled(cm, last[t], t)'
    BY <2>1, <2>2, <1>s
  <2>5. \A t \in Tenants : Concerns(op, ts, t) => last'[t] = "unknown"
    BY <2>1
  <2> QED
    BY <2>3, <2>4, <2>5 DEF AloneInv
<1>2. ASSUME NEW c \in Clients, Get(c) PROVE AloneInv'
  <2>1. call' = [call EXCEPT ![c].pc = "patch", ![c].doc = cm] /\ call[c].pc = "get"
        /\ UNCHANGED <<cm, last>>
    BY <1>2 DEF Get
  <2>2. /\ \A b \in Clients \ {c} : call'[b] = call[b]
        /\ call'[c].op = call[c].op /\ call'[c].ts = call[c].ts /\ call'[c].doc = cm'
        /\ call'[c].pc = "patch"
    BY <2>1, <1>0 DEF CallType
  <2>3. \A t \in Tenants : Settled(cm, last[t], t)'
    BY <2>1, <1>s
  <2>4. \A b \in Clients \ {c} : call[b].pc = "idle"
    BY <2>1, <1>a DEF AloneInv
  <2>5. \A b, e \in Clients : call'[b].pc # "idle" /\ call'[e].pc # "idle" => b = e
    BY <2>2, <2>4
  <2>6. \A b \in Clients, t \in Tenants :
          call'[b].pc # "idle" /\ Concerns(call'[b].op, call'[b].ts, t) => last'[t] = "unknown"
    <3>1. \A t \in Tenants : Concerns(call[c].op, call[c].ts, t) => last[t] = "unknown"
      BY <1>a, <2>1 DEF AloneInv
    <3> SUFFICES ASSUME NEW b \in Clients, NEW t \in Tenants, call'[b].pc # "idle",
                        Concerns(call'[b].op, call'[b].ts, t)
                 PROVE  last[t] = "unknown"
      BY <2>1
    <3>2. b = c
      BY <2>2, <2>4
    <3>3. Concerns(call[c].op, call[c].ts, t)
      BY <2>2, <3>2
    <3> QED
      BY <3>1, <3>3
  <2>7. \A b \in Clients : call'[b].pc = "patch" /\ call'[b].op # "replace" => call'[b].doc = cm'
    BY <2>2, <2>4
  <2> QED
    BY <2>3, <2>5, <2>6, <2>7 DEF AloneInv, Concerns
<1>3. ASSUME NEW c \in Clients, Fail(c) PROVE AloneInv'
  <2>1. call' = [call EXCEPT ![c] = Idle(cm0)] /\ call[c].pc # "idle" /\ UNCHANGED <<cm, last>>
    BY <1>3 DEF Fail
  <2>2. \A b \in Clients : call'[b].pc = "idle"
    BY <2>1, <1>0, <1>a DEF AloneInv, Idle
  <2>3. \A t \in Tenants : Settled(cm, last[t], t)'
    BY <2>1, <1>s
  <2> QED
    BY <2>2, <2>3 DEF AloneInv
<1>4. ASSUME NEW c \in Clients, Patch(c) PROVE AloneInv'
  <2> DEFINE op == call[c].op
             ts == call[c].ts
             d == call[c].doc
  <2>1. /\ call' = [call EXCEPT ![c] = Idle(cm0)] /\ call[c].pc = "patch"
        /\ cm' = Edit(op, d, ts)
    BY <1>4 DEF Patch
  <2>2. /\ op \in Ops /\ WellFormed(d) /\ (op # "replace" => d = cm)
        /\ d.kind = "malformed" => cm0.kind = "malformed"
    BY <2>1, <1>0, <1>a DEF CallType, AloneInv, IInv, TypeOK, Good, Origin
  <2>3. \A b \in Clients : call'[b].pc = "idle"
    BY <2>1, <1>0, <1>a DEF AloneInv, Idle
  <2>4. ASSUME NEW t \in Tenants PROVE Settled(cm, last[t], t)'
    <3>1. CASE Concerns(op, ts, t)
      <4>1. Settled(cm', Effect(op, ts, t), t)
        BY <2>1, <2>2, <3>1, EditEffect
      <4>2. last[t] = "unknown"
        BY <2>1, <3>1, <1>a DEF AloneInv
      <4>3. last'[t] \in {"unknown", Effect(op, ts, t)}
        BY <1>4, <1>0, <4>2 DEF Patch
      <4> QED
        BY <1>a, <4>1, <4>3 DEF Settled, ManagedOf
    <3>2. CASE ~Concerns(op, ts, t)
      <4>1. d = cm
        BY <2>2, <3>2 DEF Concerns
      <4>2. last'[t] = last[t]
        BY <1>4, <1>0, <3>2 DEF Patch
      <4>3. Settled(cm, last[t], t) /\ last[t] \in {"never", "unknown", "apply", "revert"}
        BY <1>a, <1>0 DEF AloneInv
      <4>4. Settled(cm', last[t], t)
        BY <2>1, <2>2, <3>2, <4>1, <4>3, EditEffect
      <4> QED
        BY <1>a, <4>2, <4>4 DEF Settled, ManagedOf
    <3> QED
      BY <3>1, <3>2
  <2> QED
    BY <2>3, <2>4 DEF AloneInv
<1>5. CASE UNCHANGED vars
  BY <1>5 DEF vars, AloneInv, Settled, ManagedOf, Concerns
<1> QED
  BY <1>1, <1>2, <1>3, <1>4, <1>5 DEF Next

\* As long as no two calls were ever in flight at once, each tenant is as the
\* last call about it left it, although calls may fail half way, lose their
\* answers or replace the whole document.
THEOREM LastCallWinsAloneHolds == Spec => []LastCallWinsAlone
<1>1. AloneInv => LastCallWinsAlone
  BY DEF AloneInv, LastCallWinsAlone, LastCallWins, Settled
<1> QED
  BY <1>1, InitAlone, StepAlone, Invariance, PTL DEF Spec
============================================================================
