------------------------------ MODULE AccessProofs ------------------------------
(* Theorems about Query() from the names of a URL to the operation: the      *)
(* object the plan calls for, the loop that binds the parts of the key and   *)
(* what can end the child there.                                             *)
EXTENDS AccessPlan, LookupProofs

-----------------------------------------------------------------------------
(* The invariant                                                             *)

\* The section, as its directives leave it
ConfigInv ==
    /\ scan \in {"no", "table", "index"} /\ constants \subseteq Indexes
    /\ default_key # None => /\ default_key \in DOMAIN indexes
                             /\ indexes[default_key].name \in constants

\* The variables of Query() before it begins and after an error
Idle ==
    /\ \/ pc = "config" /\ answer = "none"
       \/ pc = "answered" /\ answer \in {"refused", "404", "500"}
    /\ fault = "none"
    /\ req = NoRequest /\ q = NoQuery /\ idxobj = NoObject /\ col = None /\ bound = << >>

\* No part of a key is bound.
NothingBound ==
    idxobj.key_part = 0 /\ idxobj.parts_used = 0 /\ bound = << >> /\ col = None

Running == answer = "none" /\ fault = "none"

DiedOf(cause) == pc = "answered" /\ answer = "died" /\ fault = cause

AtPlan ==
    /\ pc = "plan" /\ Running
    /\ q = Planned(req) /\ idxobj = NoObject /\ NothingBound

\* an object that the query items call for
ObjectOK(o, kind) ==
    /\ o \in [kind : {"pk", "unique", "ordered", "table"}, n_parts : 0..MaxParts,
              key_part : Nat, parts_used : Nat]
    /\ o.kind = kind

AtOperation ==
    /\ (pc = "operation" /\ Running) \/ DiedOf("operation")
    /\ q = Planned(req) /\ ObjectOK(idxobj, ObjectKind) /\ NothingBound

\* The chain of the index in use
KeyChain == Chain(keys, indexes[q.active_index])

\* After k parts of the key, b has the values of the first k columns on the
\* chain, and the loop is at the next column; k names of the request are used.
KeyTaken(k, b) ==
    /\ usesKey
    /\ k \in 0..idxobj.n_parts /\ k <= Len(KeyChain)
    /\ idxobj.kind = "ordered" => idxobj.parts_used = k
    /\ q.used \in Nat /\ q.used + k = Planned(req).used
    /\ b = [p \in 1..k |-> <<p - 1, q.value[KeyChain[p]]>>]
    /\ col = IF k < Len(KeyChain) THEN KeyChain[k + 1] ELSE None

\* The loop ends with the chain, with the names or with the index.
LoopIsOver == col = None \/ q.used = 0 \/ idxobj.key_part >= idxobj.n_parts

\* The items are those of the request, but for the names used.
Serving ==
    /\ req \in URLs /\ q = [Planned(req) EXCEPT !.used = q.used] /\ q.used \in Nat
    /\ ObjectOK(idxobj, ObjectKind)

AtKey ==
    /\ (pc \in {"parts", "constants"} /\ Running) \/ DiedOf("binary key")
    /\ Serving /\ KeyTaken(idxobj.key_part, bound)
    /\ pc = "constants" => LoopIsOver

\* The column of the loop has no part in the table's primary key.
KeyTooLong ==
    /\ DiedOf("key column")
    /\ Serving /\ KeyTaken(idxobj.key_part, bound)
    /\ idxobj.kind = "pk" /\ idxobj.key_part = idxobj.n_parts /\ col # None

\* bound is b with the constants of the index.
WithConstants(b) ==
    bound = IF indexes[q.active_index].name \in constants THEN Append(b, Constant) ELSE b

KeyIsSet == \E b : /\ KeyTaken(idxobj.key_part, b) /\ WithConstants(b)
                   /\ LoopIsOver

AtFilters ==
    /\ \/ pc = "filters" /\ Running
       \/ pc = "answered" /\ answer = "built" /\ fault = "none"
       \/ DiedOf("filter column") /\ filtered
       \/ DiedOf("result column") \/ DiedOf("blob handle")
    /\ Serving
    /\ IF usesKey THEN KeyIsSet ELSE NothingBound

AccessState ==
    Idle \/ (req \in URLs /\ (AtPlan \/ AtOperation)) \/ AtKey \/ KeyTooLong \/ AtFilters

AccessLinked == LinkInv /\ ConfigInv /\ AccessState

\* ... until an index names a column again
AccessInv == twice \in BOOLEAN /\ (~ twice => AccessLinked)

-----------------------------------------------------------------------------
(* The plan                                                                  *)

LEMMA URLType ==
    ASSUME LinkInv, NEW r \in URLs
    PROVE  IsRequest(r)
<1>1. /\ r.args \in UNION {[1..n -> Columns] : n \in 0..MaxArgs}
      /\ r.depth \in 0..Len(pathinfo) /\ r.always \in BOOLEAN
  BY DEF URLs
<1>2. MaxArgs \in Nat /\ Len(pathinfo) \in Nat
  BY LookupAssumption, PathIsThere
<1>3. PICK n \in 0..MaxArgs : r.args \in [1..n -> Columns]
  BY <1>1
<1>4. r.args \in Seq(Columns)
  BY <1>2, <1>3
<1> QED
  BY <1>1, <1>2, <1>4 DEF IsRequest

\* An index comes with a plan.
PlanUsable(p) ==
    /\ p \in QueryItems
    /\ p.active_index # None => p.active_index \in DOMAIN indexes /\ p.plan # NoPlan

LEMMA FirstPlanOK ==
    ASSUME LinkInv, ConfigInv, NEW r
    PROVE  StartOK(FirstPlan(r)) /\ PlanUsable(FirstPlan(r))
<1> DEFINE s == FirstPlan(r)
           first == IF default_key # None /\ indexes[default_key].name \in constants THEN 5
                    ELSE IF scan # "no" THEN 4
                    ELSE IF isInsert(r) THEN 2 ELSE 0
           i == default_key
           I == NoItems
<1>1. /\ I \in QueryItems /\ (\A n \in DOMAIN keys : I.value[n] = NULL)
      /\ I.used = 0 /\ I.filters = << >> /\ I.plan = NoPlan /\ I.active_index = None
  BY NoItemsOK DEF LinkInv, StartOK
<1> HIDE DEF I
<1>2. I = [value |-> I.value, used |-> I.used, filters |-> I.filters,
           plan |-> I.plan, active_index |-> I.active_index]
  BY <1>1 DEF QueryItems
<1>3. s = [value |-> I.value, used |-> I.used, filters |-> I.filters,
           plan |-> first, active_index |-> i]
  BY <1>1, <1>2 DEF FirstPlan, PrimaryKey, Scan, OrderedIndexScan, I, NoPlan
<1>4. i # None => i \in DOMAIN indexes /\ first = 5 /\ i \in Int
  BY IndexChain DEF ConfigInv
<1>5. first \in {0, 2, 4, 5} /\ i \in Int
  BY <1>4 DEF None
<1> HIDE DEF s, first, i
<1>6. s \in QueryItems
  BY <1>1, <1>3, <1>5 DEF QueryItems, Plans
<1>7. StartOK(s) /\ PlanUsable(s)
  BY <1>1, <1>3, <1>4, <1>6 DEF StartOK, PlanUsable, NoPlan
<1> QED
  BY <1>7 DEF s

LEMMA ItemsAreUsable ==
    ASSUME LinkInv, NEW s, PlanUsable(s), NEW p, QueryOK(p, s)
    PROVE  PlanUsable(p)
<1>1. p \in QueryItems /\ PlanOK(p, s)
  BY DEF QueryOK
<1>2. CASE p.active_index = s.active_index /\ p.plan = s.plan
  BY <1>1, <1>2 DEF PlanUsable
<1>3. CASE \E n \in GivenColumns(p) : /\ keys[n].implied_plan = p.plan
                                      /\ keys[n].implied_plan # NoPlan
                                      /\ keys[n].index_id = p.active_index
  <2>1. \A n \in GivenColumns(p) : n \in DOMAIN keys
    BY DEF GivenColumns
  <2> QED
    BY <1>1, <1>3, <2>1, ColumnsHaveParts DEF PlanUsable
<1> QED
  BY <1>1, <1>2, <1>3 DEF PlanOK

LEMMA PlannedOK ==
    ASSUME LinkInv, ConfigInv, NEW r \in URLs
    PROVE  QueryOK(Planned(r), FirstPlan(r)) /\ PlanUsable(Planned(r))
<1> DEFINE s == FirstPlan(r)
           a == setArguments(s, r.args)
<1>1. StartOK(s) /\ PlanUsable(s)
  BY FirstPlanOK
<1>2. r.args \in Seq(Columns) /\ r.depth \in Nat
  BY URLType DEF IsRequest
<1>3. SectionInv
  BY DEF LinkInv
<1>4. Planned(r) = IF usesPath(a, r.always) THEN setPath(a, r.depth) ELSE a
  BY DEF Planned
<1> HIDE DEF s
<1>5. QueryOK(a, s)
  BY <1>1, <1>2, <1>3, ArgumentsTaken DEF ArgsTaken
<1> HIDE DEF a
<1>6. QueryOK(setPath(a, r.depth), s)
  BY <1>2, <1>5, PathIsTaken DEF PathTaken
<1>7. QueryOK(Planned(r), s)
  BY <1>4, <1>5, <1>6
<1>8. PlanUsable(Planned(r))
  BY <1>1, <1>7, ItemsAreUsable
<1> QED
  BY <1>7, <1>8 DEF s

-----------------------------------------------------------------------------
(* The steps                                                                 *)

\* While a request is served the section stays.
LEMMA SectionStays ==
    ASSUME UNCHANGED directives
    PROVE  /\ UNCHANGED <<keys, indexes, pathinfo, hung, scan, constants, default_key>>
           /\ URLs' = URLs /\ ConfigInv' = ConfigInv
<1>1. UNCHANGED <<keys, indexes, pathinfo, hung, scan, constants, default_key>>
  BY DEF directives, vars
<1>2. URLs' = URLs
  BY <1>1 DEF URLs
<1>3. ConfigInv' = ConfigInv
  BY <1>1 DEF ConfigInv
<1> QED
  BY <1>1, <1>2, <1>3

\* Where Query() is tells which part of the invariant holds.
LEMMA StateAt ==
    ASSUME AccessState
    PROVE  /\ pc = "config" => Idle
           /\ pc = "plan" => req \in URLs /\ AtPlan
           /\ pc = "operation" => req \in URLs /\ AtOperation
           /\ pc \in {"parts", "constants"} => AtKey
           /\ pc = "filters" => AtFilters
<1>1. CASE Idle
  BY <1>1 DEF Idle
<1>2. CASE req \in URLs /\ AtPlan
  BY <1>2 DEF AtPlan
<1>3. CASE req \in URLs /\ AtOperation
  BY <1>3 DEF AtOperation, DiedOf
<1>4. CASE AtKey
  BY <1>4 DEF AtKey, DiedOf
<1>5. CASE KeyTooLong
  BY <1>5 DEF KeyTooLong, DiedOf
<1>6. CASE AtFilters
  BY <1>6 DEF AtFilters, DiedOf
<1> QED
  BY <1>1, <1>2, <1>3, <1>4, <1>5, <1>6 DEF AccessState

\* While the section stays, so does what a request comes to.
LEMMA PlannedStays ==
    ASSUME UNCHANGED directives, NEW r
    PROVE  Planned(r)' = Planned(r)
<1>1. /\ keys' = keys /\ indexes' = indexes /\ pathinfo' = pathinfo
      /\ scan' = scan /\ constants' = constants /\ default_key' = default_key
  BY DEF directives, vars
<1>2. \A p, n, v : set_key(p, n, v)' = set_key(p, n, v)
  BY <1>1 DEF set_key
<1>3. \A c : key_col_bin_search(c)' = key_col_bin_search(c)
  BY <1>1 DEF key_col_bin_search
<1>4. FirstPlan(r)' = FirstPlan(r)
  BY <1>1 DEF FirstPlan, NoItems, isInsert
<1>5. \A p, a : setArguments(p, a)' = setArguments(p, a)
  BY <1>2, <1>3 DEF setArguments
<1>6. \A p, a : setPath(p, a)' = setPath(p, a)
  BY <1>1, <1>2 DEF setPath
<1> QED
  BY <1>1, <1>4, <1>5, <1>6 DEF Planned, usesPath

LEMMA ReturnIdles ==
    ASSUME NEW code \in {"refused", "404", "500"}, Return(code), fault = "none"
    PROVE  AccessState'
<1>1. Idle'
  BY DEF Return, Idle
<1> QED
  BY <1>1 DEF AccessState

\* The kind of object that a plan calls for; a plan that can use filters calls
\* for a scan.
LEMMA ObjectKinds ==
    ASSUME PlanUsable(q), ConfigInv
    PROVE  /\ ObjectKind \in {"pk", "unique", "ordered", "table", "missing"}
           /\ ObjectKind # "missing" /\ q.plan >= Scan => ObjectKind \in {"ordered", "table"}
           /\ ObjectKind = "table" => ~usesKey
<1>1. q.plan \in {0, 2, 3, 4, 5}
  BY DEF PlanUsable, QueryItems, Plans
<1>2. q.active_index # None => q.plan # 0
  BY DEF PlanUsable, NoPlan
<1>3. ASSUME q.plan = 0 PROVE ObjectKind = "missing"
  BY <1>2, <1>3 DEF ObjectKind, Scan, PrimaryKey
<1>4. ASSUME q.plan = 2 PROVE ObjectKind = "pk"
  BY <1>4 DEF ObjectKind, Scan, PrimaryKey, UniqueIndexAccess, OrderedIndexScan
<1>5. ASSUME q.plan = 3 PROVE ObjectKind \in {"missing", "unique"}
  BY <1>5 DEF ObjectKind, Scan, PrimaryKey, UniqueIndexAccess, OrderedIndexScan
<1>6. ASSUME q.plan = 4 PROVE ObjectKind \in {"ordered", "table"} /\ ~usesKey
  BY <1>6 DEF ObjectKind, Scan, PrimaryKey, UniqueIndexAccess, OrderedIndexScan, usesKey
<1>7. ASSUME q.plan = 5 PROVE ObjectKind \in {"missing", "ordered"}
  BY <1>7 DEF ObjectKind, Scan, PrimaryKey, UniqueIndexAccess, OrderedIndexScan
<1> QED
  BY <1>1, <1>3, <1>4, <1>5, <1>6, <1>7 DEF Scan

LEMMA InitIsIdle == AccessInit => AccessInv
<1> SUFFICES ASSUME AccessInit PROVE twice \in BOOLEAN /\ AccessLinked
  BY DEF AccessInv
<1>1. LinkInv
  BY InitLinks DEF AccessInit
<1>2. ConfigInv
  BY DEF AccessInit, ConfigInv
<1>3. Idle
  BY DEF AccessInit, Idle
<1>4. twice = FALSE
  BY DEF AccessInit, Init
<1> QED
  BY <1>1, <1>2, <1>3, <1>4 DEF AccessLinked, AccessState

LEMMA IdleStays ==
    ASSUME Idle, UNCHANGED <<pc, outcome, locals>>
    PROVE  AccessState'
<1>1. Idle'
  BY DEF Idle, outcome, locals
<1> QED
  BY <1>1 DEF AccessState

LEMMA KeyDirectiveKeeps ==
    ASSUME Reuse = FALSE, AccessLinked, keyDirective, ~ twice'
    PROVE  AccessLinked'
<1>1. LinkInv /\ ConfigInv /\ AccessState /\ SectionInv
  BY DEF AccessLinked, LinkInv
<1>2. Next /\ pc = "config" /\ UNCHANGED <<scan, constants, default_key>>
      /\ UNCHANGED <<pc, outcome, locals>>
  BY DEF keyDirective, Directive
<1>3. LinkInv'
  BY <1>1, <1>2, LinkNext
<1>4. IndexesStay
  <2>1. CASE \E i \in Indexes, c \in Columns : named_index(i, c)
    BY <1>1, <2>1, NamedIndexInv
  <2>2. CASE \E c \in Columns : filter(c)
    BY <1>1, <2>2, FilterInv
  <2>3. CASE \E s \in PathSpecs : PathInfo(s)
    BY <1>1, <2>3, PathInfoInv
  <2> QED
    BY <1>2, <2>1, <2>2, <2>3 DEF Next
<1>5. ConfigInv'
  BY <1>1, <1>2, <1>4 DEF ConfigInv, IndexesStay
<1>6. AccessState'
  BY <1>1, <1>2, StateAt, IdleStays
<1> QED
  BY <1>3, <1>5, <1>6 DEF AccessLinked

LEMMA IndexIdIs ==
    ASSUME SectionInv, NEW i, NEW n \in DOMAIN indexes, indexes[n].name = i
    PROVE  IndexId(indexes, i) \in DOMAIN indexes /\ indexes[IndexId(indexes, i)].name = i
BY DEF IndexId

LEMMA OtherDirectiveKeeps ==
    ASSUME Reuse = FALSE, AccessLinked,
           table \/ \E i \in Indexes : index_constant(i), ~ twice'
    PROVE  AccessLinked'
<1>1. LinkInv /\ ConfigInv /\ AccessState /\ SectionInv
  BY DEF AccessLinked, LinkInv
<1>2. UNCHANGED vars /\ pc = "config" /\ UNCHANGED <<pc, outcome, locals>>
  BY DEF table, index_constant, Directive
<1>3. LinkInv'
  BY <1>1, <1>2, LinkNext
<1>4. ConfigInv'
  <2>1. CASE table
    BY <1>1, <1>2, <2>1 DEF ConfigInv, table, vars
  <2>2. ASSUME NEW i \in Indexes, index_constant(i) PROVE ConfigInv'
    <3>1. PICK n \in DOMAIN indexes : indexes[n].name = i
      BY <2>2 DEF index_constant
    <3>2. IndexId(indexes, i) \in DOMAIN indexes /\ indexes[IndexId(indexes, i)].name = i
      BY <1>1, <3>1, IndexIdIs
    <3>3. constants' = constants \union {i} /\ default_key' = IndexId(indexes, i)
          /\ indexes' = indexes /\ scan' = scan
      BY <1>2, <2>2 DEF index_constant, vars
    <3> QED
      BY <1>1, <3>2, <3>3 DEF ConfigInv
  <2> QED
    BY <2>1, <2>2
<1>5. AccessState'
  BY <1>1, <1>2, StateAt, IdleStays
<1> QED
  BY <1>3, <1>4, <1>5 DEF AccessLinked

LEMMA QueryKeeps ==
    ASSUME AccessState, NEW r \in URLs, Query(r)
    PROVE  AccessState'
<1>1. UNCHANGED directives /\ pc = "config"
  BY DEF Query
<1>2. Idle
  BY <1>1, StateAt
<1>3. CASE Return("refused")
  BY <1>2, <1>3, ReturnIdles DEF Idle
<1>4. CASE Goto("plan") /\ req' = r /\ q' = Planned(r) /\ UNCHANGED <<idxobj, col, bound>>
  <2>1. req' \in URLs'
    BY <1>1, <1>4, SectionStays
  <2>2. (q = Planned(req))'
    BY <1>1, <1>4, PlannedStays
  <2>3. Running
    BY <1>1, <1>2 DEF Idle, Running
  <2>4. AtPlan'
    BY <1>2, <1>4, <2>2, <2>3 DEF AtPlan, Idle, Goto, outcome, Running, NothingBound, NoObject
  <2> QED
    BY <2>1, <2>4 DEF AccessState
<1> QED
  BY <1>3, <1>4 DEF Query

LEMMA NoPlanKeeps ==
    ASSUME AccessState, noPlan
    PROVE  AccessState'
<1>1. fault = "none" /\ Return("404")
  BY StateAt DEF noPlan, AtPlan, Running
<1> QED
  BY <1>1, ReturnIdles

\* The items of a request that is being served
LEMMA ServedItems ==
    ASSUME LinkInv, ConfigInv, req \in URLs, q = [Planned(req) EXCEPT !.used = q.used],
           q.used \in Nat
    PROVE  PlanUsable(q)
<1> DEFINE P == Planned(req)
<1>1. P \in QueryItems /\ (P.active_index # None => P.active_index \in DOMAIN indexes
                                                    /\ P.plan # NoPlan)
  BY PlannedOK DEF PlanUsable
<1> HIDE DEF P
<1>2. q \in QueryItems /\ q.active_index = P.active_index /\ q.plan = P.plan
  BY <1>1 DEF P, QueryItems
<1> QED
  BY <1>1, <1>2 DEF PlanUsable

LEMMA PlannedItems ==
    ASSUME LinkInv, ConfigInv, req \in URLs, q = Planned(req)
    PROVE  PlanUsable(q) /\ q.used \in Nat /\ q = [Planned(req) EXCEPT !.used = q.used]
<1>1. PlanUsable(q)
  BY PlannedOK
<1>2. q \in QueryItems
  BY <1>1 DEF PlanUsable
<1>3. q.used \in Nat /\ q = [q EXCEPT !.used = q.used]
  BY <1>2 DEF QueryItems
<1> QED
  BY <1>1, <1>3

LEMMA ObjectKeeps ==
    ASSUME LinkInv, ConfigInv, AccessState, index_object
    PROVE  AccessState'
<1>1. UNCHANGED directives /\ pc = "plan"
  BY DEF index_object
<1>2. req \in URLs /\ AtPlan
  BY <1>1, StateAt
<1>3. CASE Return("500")
  BY <1>2, <1>3, ReturnIdles DEF AtPlan, Running
<1>4. CASE /\ ObjectKind # "missing" /\ Goto("operation")
           /\ idxobj' = [NoObject EXCEPT !.kind = ObjectKind]
           /\ UNCHANGED <<req, q, col, bound>>
  <2>1. /\ UNCHANGED <<keys, indexes, pathinfo, hung, scan, constants, default_key>>
        /\ URLs' = URLs
    BY <1>1, SectionStays
  <2>2. (q = Planned(req))'
    BY <1>1, <1>2, <1>4, PlannedStays DEF AtPlan
  <2>3. ObjectKind' = ObjectKind
    BY <1>4, <2>1 DEF ObjectKind
  <2>4. PlanUsable(q)
    BY <1>2, PlannedItems DEF AtPlan
  <2>5. ObjectKind \in {"pk", "unique", "ordered", "table"}
    BY <1>4, <2>4, ObjectKinds
  <2>6. MaxParts \in Nat \ {0}
    BY AccessPlanAssumption
  <2>7. /\ idxobj' = [kind |-> ObjectKind, n_parts |-> 0, key_part |-> 0, parts_used |-> 0]
    BY <1>4 DEF NoObject
  <2> DEFINE o == [kind |-> ObjectKind, n_parts |-> 0, key_part |-> 0, parts_used |-> 0]
  <2>8. ObjectOK(o, ObjectKind) /\ o.key_part = 0 /\ o.parts_used = 0
    BY <2>5, <2>6 DEF ObjectOK
  <2> HIDE DEF o
  <2>9. idxobj' = o
    BY <2>7 DEF o
  <2>10. ObjectOK(idxobj, ObjectKind)'
    BY <2>3, <2>8, <2>9 DEF ObjectOK
  <2>11. AtOperation'
    BY <1>2, <1>4, <2>2, <2>8, <2>9, <2>10 DEF AtPlan, AtOperation, Goto, outcome, Running, NothingBound
  <2> QED
    BY <1>2, <1>4, <2>1, <2>11 DEF AccessState
<1> QED
  BY <1>3, <1>4 DEF index_object

\* The loop begins at the first column of the index.
LEMMA LoopBegins ==
    ASSUME LinkInv, PlanUsable(q), usesKey, NEW c, c = indexes[q.active_index].first_col
    PROVE  /\ KeyChain \in Seq(DOMAIN keys) /\ Len(KeyChain) \in Nat
           /\ c = IF 0 < Len(KeyChain) THEN KeyChain[0 + 1] ELSE None
<1> DEFINE i == q.active_index
           s == KeyChain
<1>1. i \in DOMAIN indexes
  BY DEF PlanUsable, usesKey
<1>2. s \in Seq(DOMAIN keys) /\ PlaceLinks(keys, indexes[i], s)
  BY <1>1, IndexChain DEF KeyChain
<1> HIDE DEF s, i
<1>3. Len(s) \in Nat /\ (s = << >> <=> Len(s) = 0)
  BY <1>2
<1> QED
  BY <1>2, <1>3 DEF PlaceLinks, s, i

LEMMA OperationKeeps ==
    ASSUME LinkInv, ConfigInv, AccessState, get_ndb_operation
    PROVE  AccessState'
<1>1. UNCHANGED directives /\ pc = "operation"
  BY DEF get_ndb_operation
<1>2. /\ req \in URLs /\ Running /\ q = Planned(req)
      /\ ObjectOK(idxobj, ObjectKind) /\ NothingBound
  BY <1>1, StateAt DEF AtOperation, DiedOf, Running
<1>3. idxobj.kind # "none"
  BY <1>2 DEF ObjectOK
<1>4. CASE Return("404")
  BY <1>2, <1>4, ReturnIdles DEF Running
<1>6. CASE Die("operation")
  <2>1. /\ UNCHANGED directives /\ UNCHANGED <<req, q, idxobj, col, bound>>
        /\ DiedOf("operation")'
    BY <1>1, <1>6 DEF Die, locals, DiedOf
  <2>2. UNCHANGED <<keys, indexes, pathinfo, hung, scan, constants, default_key>>
        /\ URLs' = URLs /\ Planned(req)' = Planned(req)
    BY <2>1, SectionStays, PlannedStays
  <2>3. ObjectOK(idxobj, ObjectKind)'
    BY <1>2, <2>1, <2>2 DEF ObjectOK, ObjectKind
  <2>4. AtOperation'
    BY <1>2, <2>1, <2>2, <2>3 DEF AtOperation, NothingBound
  <2> QED
    BY <1>2, <2>1, <2>2, <2>4 DEF AccessState
<1>5. ASSUME /\ Goto(IF usesKey THEN "parts" ELSE "filters")
             /\ col' = (IF usesKey THEN indexes[q.active_index].first_col ELSE None)
             /\ UNCHANGED <<req, q, bound>>,
             NEW n \in IF idxobj.kind = "table" THEN {0} ELSE 1..MaxParts,
             idxobj' = [idxobj EXCEPT !.n_parts = n]
      PROVE  AccessState'
  <2>1. /\ UNCHANGED <<keys, indexes, pathinfo, hung, scan, constants, default_key>>
        /\ URLs' = URLs
    BY <1>1, SectionStays
  <2>2. ObjectKind' = ObjectKind /\ usesKey' = usesKey /\ KeyChain' = KeyChain
    BY <1>5, <2>1 DEF ObjectKind, usesKey, KeyChain
  <2>3. PlanUsable(q) /\ q.used \in Nat /\ q = [Planned(req) EXCEPT !.used = q.used]
    BY <1>2, PlannedItems
  <2>4. n \in 0..MaxParts /\ n \in Nat
    BY AccessPlanAssumption
  <2>5. ObjectOK(idxobj', ObjectKind) /\ idxobj'.key_part = 0 /\ idxobj'.parts_used = 0
        /\ idxobj'.n_parts = n
    BY <1>2, <1>5, <2>4 DEF ObjectOK, NothingBound
  <2>6. Serving'
    <3>1. (q = [Planned(req) EXCEPT !.used = q.used])'
      BY <1>1, <1>5, <2>3, PlannedStays
    <3>2. ObjectOK(idxobj, ObjectKind)'
      BY <2>2, <2>5 DEF ObjectOK
    <3> QED
      BY <1>2, <1>5, <2>1, <2>3, <3>1, <3>2 DEF Serving
  <2>7. Running'
    BY <1>2, <1>5 DEF Goto, outcome, Running
  <2>8. CASE usesKey
    <3>1. Len(KeyChain) \in Nat
          /\ col' = IF 0 < Len(KeyChain) THEN KeyChain[0 + 1] ELSE None
      BY <1>5, <2>3, <2>8, LoopBegins
    <3>2. Planned(req)' = q /\ q' = q /\ bound' = << >>
      BY <1>1, <1>2, <1>5, PlannedStays DEF NothingBound
    <3> DEFINE s == KeyChain
               B(x) == [p \in 1..x |-> <<p - 1, q.value[s[p]]>>]
    <3>3. B(0) = << >>
      OBVIOUS
    <3>4. 0 \in 0..n /\ 0 <= Len(s) /\ q.used + 0 = q.used
      BY <2>3, <2>4, <3>1
    <3>5. KeyTaken(0, bound)'
      BY <2>2, <2>3, <2>5, <2>8, <3>1, <3>2, <3>3, <3>4 DEF KeyTaken
    <3>6. AtKey'
      BY <1>5, <2>5, <2>6, <2>7, <2>8, <3>5 DEF AtKey, Goto
    <3> QED
      BY <3>6 DEF AccessState
  <2>9. CASE ~usesKey
    <3>1. NothingBound'
      BY <1>2, <1>5, <2>5, <2>9 DEF NothingBound
    <3>2. AtFilters'
      BY <1>5, <2>2, <2>6, <2>7, <2>9, <3>1 DEF AtFilters, Goto
    <3> QED
      BY <3>2 DEF AccessState
  <2> QED
    BY <2>8, <2>9
<1> QED
  BY <1>3, <1>4, <1>5, <1>6 DEF get_ndb_operation

\* The columns of the chain, and the link from each to the next
LEMMA ChainLinks ==
    ASSUME LinkInv, PlanUsable(q), usesKey
    PROVE  /\ KeyChain \in Seq(DOMAIN keys) /\ Len(KeyChain) \in Nat
           /\ \A p \in 1..Len(KeyChain) :
                 /\ KeyChain[p] \in DOMAIN keys /\ KeyChain[p] # None
                 /\ keys[KeyChain[p]].next_in_key =
                       IF p < Len(KeyChain) THEN KeyChain[p + 1] ELSE None
<1> DEFINE i == q.active_index
           s == KeyChain
<1>1. i \in DOMAIN indexes
  BY DEF PlanUsable, usesKey
<1>2. s \in Seq(DOMAIN keys) /\ PlaceLinks(keys, indexes[i], s)
  BY <1>1, IndexChain DEF KeyChain
<1>3. None \notin DOMAIN keys
  BY PathIsThere, PlacesAreColumns
<1> HIDE DEF s, i
<1>4. Len(s) \in Nat /\ \A p \in 1..Len(s) : s[p] \in DOMAIN keys /\ s # << >>
  BY <1>2
<1>5. \A p \in 1..Len(s) : keys[s[p]].next_in_key = IF p < Len(s) THEN s[p + 1] ELSE None
  BY <1>2, <1>4 DEF PlaceLinks
<1> QED
  BY <1>2, <1>3, <1>4, <1>5 DEF s

LEMMA AtKeyFacts ==
    ASSUME LinkInv, ConfigInv, Serving, NEW b, KeyTaken(idxobj.key_part, b)
    PROVE  /\ PlanUsable(q) /\ usesKey /\ q.used \in Nat
           /\ idxobj.key_part \in Nat /\ idxobj.n_parts \in Nat /\ idxobj.parts_used \in Nat
           /\ KeyChain \in Seq(DOMAIN keys) /\ Len(KeyChain) \in Nat
           /\ col # None => /\ idxobj.key_part < Len(KeyChain)
                            /\ col = KeyChain[idxobj.key_part + 1]
           /\ col = None => idxobj.key_part = Len(KeyChain)
           /\ col \in DOMAIN keys \union {None}
<1>1. req \in URLs /\ q = [Planned(req) EXCEPT !.used = q.used] /\ ObjectOK(idxobj, ObjectKind)
  BY DEF Serving
<1>2. q.used \in Nat /\ usesKey
  BY DEF KeyTaken
<1>3. PlanUsable(q)
  BY <1>1, <1>2, ServedItems
<1>4. idxobj.key_part \in Nat /\ idxobj.n_parts \in Nat /\ idxobj.parts_used \in Nat
  BY <1>1, AccessPlanAssumption DEF ObjectOK
<1>5. /\ KeyChain \in Seq(DOMAIN keys) /\ Len(KeyChain) \in Nat
      /\ \A p \in 1..Len(KeyChain) : KeyChain[p] \in DOMAIN keys /\ KeyChain[p] # None
  BY <1>2, <1>3, ChainLinks
<1> DEFINE k == idxobj.key_part
           s == KeyChain
           m == Len(s)
<1>6. k <= m /\ col = IF k < m THEN s[k + 1] ELSE None
  BY DEF KeyTaken
<1>8. k \in Nat /\ m \in Nat /\ \A p \in 1..m : s[p] \in DOMAIN keys /\ s[p] # None
  BY <1>4, <1>5
<1> HIDE DEF k, s, m
<1>7. /\ col # None => k < m /\ col = s[k + 1]
      /\ col = None => k = m
      /\ col \in DOMAIN keys \union {None}
  <2>1. CASE k < m
    <3>1. k + 1 \in 1..m
      BY <1>8, <2>1
    <3> QED
      BY <1>6, <1>8, <2>1, <3>1
  <2>2. CASE ~(k < m)
    BY <1>6, <1>8, <2>2
  <2> QED
    BY <2>1, <2>2
<1> QED
  BY <1>2, <1>3, <1>4, <1>5, <1>7 DEF k, s, m

LEMMA BoundGrows ==
    ASSUME NEW k \in Nat, NEW v
    PROVE  Append([p \in 1..k |-> <<p - 1, v[p]>>], <<k, v[k + 1]>>)
              = [p \in 1..(k + 1) |-> <<p - 1, v[p]>>]
<1> DEFINE b == [p \in 1..k |-> <<p - 1, v[p]>>]
           c == [p \in 1..(k + 1) |-> <<p - 1, v[p]>>]
           a == Append(b, <<k, v[k + 1]>>)
<1>1. Len(b) = k /\ DOMAIN b = 1..k
  OBVIOUS
<1>2. a = [p \in 1..(k + 1) |-> IF p = k + 1 THEN <<k, v[k + 1]>> ELSE b[p]]
  BY <1>1
<1>3. \A p \in 1..(k + 1) : (IF p = k + 1 THEN <<k, v[k + 1]>> ELSE b[p]) = <<p - 1, v[p]>>
  <2> SUFFICES ASSUME NEW p \in 1..(k + 1)
               PROVE  (IF p = k + 1 THEN <<k, v[k + 1]>> ELSE b[p]) = <<p - 1, v[p]>>
    OBVIOUS
  <2>1. CASE p = k + 1
    <3>1. p - 1 = k
      BY <2>1
    <3> QED
      BY <2>1, <3>1
  <2>2. CASE p # k + 1
    <3>1. p \in 1..k
      BY <2>2
    <3> QED
      BY <2>2, <3>1
  <2> QED
    BY <2>1, <2>2
<1> HIDE DEF a, b
<1>4. a = c
  BY <1>2, <1>3
<1> QED
  BY <1>4 DEF a, b

LEMMA OneMore ==
    ASSUME NEW k \in Nat, NEW n \in Nat, k < n, NEW u \in Nat, u > 0
    PROVE  k + 1 \in 0..n /\ u - 1 \in Nat /\ (u - 1) + (k + 1) = u + k
OBVIOUS

\* One part more
LEMMA PartIsBound ==
    ASSUME LinkInv, ConfigInv, Serving, KeyTaken(idxobj.key_part, bound), inParts,
           idxobj.key_part < idxobj.n_parts, UNCHANGED <<directives, req>>,
           NEW set, set = [idxobj EXCEPT !.parts_used =
                              IF idxobj.kind = "ordered" THEN @ + 1 ELSE @],
           q' = [q EXCEPT !.used = @ - 1],
           bound' = Append(bound, <<idxobj.key_part, q.value[col]>>),
           idxobj' = [set EXCEPT !.key_part = @ + 1],
           col' = keys[col].next_in_key
    PROVE  /\ Serving' /\ KeyTaken(idxobj.key_part, bound)'
           /\ idxobj'.key_part = idxobj.key_part + 1
           /\ ~next_key_part(set) => idxobj'.key_part >= idxobj'.n_parts
<1> DEFINE k == idxobj.key_part
           s == KeyChain
           P == Planned(req)
           B(v, n) == [p \in 1..n |-> <<p - 1, v[p]>>]
           v == [p \in 1..Len(s) |-> q.value[s[p]]]
<1>1. /\ UNCHANGED <<keys, indexes, pathinfo, hung, scan, constants, default_key>>
      /\ URLs' = URLs
  BY SectionStays
<1>2. /\ PlanUsable(q) /\ usesKey /\ q.used \in Nat /\ k \in Nat
      /\ idxobj.n_parts \in Nat /\ idxobj.parts_used \in Nat
      /\ s \in Seq(DOMAIN keys) /\ Len(s) \in Nat /\ k < Len(s) /\ col = s[k + 1]
  BY AtKeyFacts DEF inParts
<1>3. k + 1 \in 1..Len(s) /\ k + 1 <= Len(s)
  BY <1>2
<1>4. keys[col].next_in_key = IF k + 1 < Len(s) THEN s[(k + 1) + 1] ELSE None
  BY <1>2, <1>3, ChainLinks
<1>5. /\ req \in URLs /\ q = [P EXCEPT !.used = q.used] /\ P' = P
      /\ ObjectOK(idxobj, ObjectKind)
  <2>1. Planned(req)' = Planned(req)
    BY PlannedStays
  <2> QED
    BY <2>1 DEF Serving
<1>6. q.used + k = P.used /\ bound = [p \in 1..k |-> <<p - 1, q.value[s[p]]>>]
      /\ (idxobj.kind = "ordered" => idxobj.parts_used = k)
  BY DEF KeyTaken
<1>7. q.used > 0
  BY DEF inParts
<1>8. /\ q'.value = q.value /\ q'.used = q.used - 1 /\ q'.plan = q.plan
      /\ q'.active_index = q.active_index /\ q' = [q EXCEPT !.used = q.used - 1]
  <2>1. q \in QueryItems
    BY <1>2 DEF PlanUsable
  <2> QED
    BY <2>1 DEF QueryItems
<1>9. ObjectKind' = ObjectKind /\ usesKey' = usesKey /\ s' = s
  BY <1>1, <1>8 DEF ObjectKind, usesKey, KeyChain
<1>10. /\ ObjectOK(idxobj', ObjectKind) /\ idxobj'.key_part = k + 1
       /\ idxobj'.n_parts = idxobj.n_parts /\ idxobj'.kind = idxobj.kind
       /\ idxobj'.parts_used = set.parts_used
       /\ set.kind = idxobj.kind /\ set.n_parts = idxobj.n_parts /\ set.key_part = k
       /\ (idxobj.kind = "ordered" => set.parts_used = idxobj.parts_used + 1)
  <2>1. /\ idxobj \in [kind : {"pk", "unique", "ordered", "table"}, n_parts : 0..MaxParts,
                       key_part : Nat, parts_used : Nat]
        /\ idxobj.kind = ObjectKind
    BY <1>5 DEF ObjectOK
  <2> DEFINE u == IF idxobj.kind = "ordered" THEN idxobj.parts_used + 1
                  ELSE idxobj.parts_used
  <2>2. set = [idxobj EXCEPT !.parts_used = u] /\ u \in Nat
    BY <2>1
  <2>3. idxobj.kind = "ordered" => u = idxobj.parts_used + 1
    OBVIOUS
  <2> HIDE DEF u
  <2>4. idxobj' = [kind |-> idxobj.kind, n_parts |-> idxobj.n_parts, key_part |-> k + 1,
                   parts_used |-> u]
    BY <2>1, <2>2
  <2>5. /\ idxobj' \in [kind : {"pk", "unique", "ordered", "table"}, n_parts : 0..MaxParts,
                        key_part : Nat, parts_used : Nat]
        /\ idxobj'.kind = ObjectKind
    BY <2>1, <2>2, <2>4
  <2>6. set.kind = idxobj.kind /\ set.n_parts = idxobj.n_parts /\ set.key_part = k
        /\ set.parts_used = u
    BY <2>1, <2>2
  <2> QED
    BY <2>3, <2>4, <2>5, <2>6 DEF ObjectOK
<1> HIDE DEF P
<1>11. (q = [P EXCEPT !.used = q.used])'
  <2>2. q' = [[P EXCEPT !.used = q.used] EXCEPT !.used = q.used - 1]
    BY <1>5, <1>8
  <2>3. q' = [P EXCEPT !.used = q'.used]
    BY <1>8, <2>2
  <2> QED
    BY <1>5, <2>3
<1>12. Serving'
  <2>1. ObjectOK(idxobj, ObjectKind)'
    BY <1>9, <1>10 DEF ObjectOK
  <2>2. q'.used \in Nat
    BY <1>2, <1>7, <1>8
  <2> QED
    BY <1>1, <1>5, <1>11, <2>1, <2>2 DEF Serving, P
<1>13. bound' = [p \in 1..(k + 1) |-> <<p - 1, q.value[s[p]]>>]
  <2>1. \A p \in 1..Len(s) : v[p] = q.value[s[p]]
    OBVIOUS
  <2> HIDE DEF v, s, k
  <2>2. \A p \in 1..k : p \in 1..Len(s)
    BY <1>2
  <2>3. \A p \in 1..(k + 1) : p \in 1..Len(s)
    BY <1>2
  <2>4. bound = B(v, k)
    BY <1>6, <2>1, <2>2
  <2>5. bound' = Append(B(v, k), <<k, v[k + 1]>>)
    BY <1>2, <1>3, <2>1, <2>4 DEF k
  <2>6. bound' = B(v, k + 1)
    BY <1>2, <2>5, BoundGrows
  <2> QED
    BY <2>1, <2>3, <2>6
<1>14. KeyTaken(idxobj.key_part, bound)'
  <2> DEFINE n == idxobj.n_parts
             m == k + 1
  <2>1. k \in Nat /\ n \in Nat /\ k < n /\ q.used \in Nat /\ q.used > 0
        /\ q.used + k = P.used
    BY <1>2, <1>6, <1>7
  <2> HIDE DEF k, n, s
  <2>2. m \in 0..n /\ q.used - 1 \in Nat /\ (q.used - 1) + m = P.used
    BY <2>1, OneMore
  <2>3. idxobj.kind = "ordered" => idxobj'.parts_used = m
    BY <1>6, <1>10
  <2>4. col' = IF m < Len(s) THEN s[m + 1] ELSE None
    BY <1>4
  <2> HIDE DEF m
  <2>5. idxobj'.key_part = m /\ idxobj'.n_parts = n /\ m <= Len(s)
        /\ bound' = [p \in 1..m |-> <<p - 1, q.value[s[p]]>>]
    BY <1>3, <1>10, <1>13 DEF m, n
  <2>6. KeyChain' = s /\ Planned(req)' = P /\ usesKey'
    BY <1>2, <1>5, <1>9 DEF P, s
  <2> QED
    BY <1>8, <1>10, <2>2, <2>3, <2>4, <2>5, <2>6 DEF KeyTaken
<1>15. ~next_key_part(set) => idxobj'.key_part >= idxobj'.n_parts
  <2>1. CASE idxobj.kind = "ordered"
    BY <1>2, <1>6, <1>10, <2>1 DEF next_key_part
  <2>2. CASE idxobj.kind # "ordered"
    BY <1>10, <2>2 DEF next_key_part
  <2> QED
    BY <2>1, <2>2
<1> QED
  BY <1>10, <1>12, <1>14, <1>15

\* What a step that leaves the loop's variables alone keeps
LEMMA KeyStays ==
    ASSUME UNCHANGED <<directives, req, q, idxobj, col>>
    PROVE  /\ Serving => Serving'
           /\ \A b : KeyTaken(idxobj.key_part, b) => KeyTaken(idxobj.key_part, b)'
           /\ usesKey' = usesKey /\ ObjectKind' = ObjectKind /\ LoopIsOver' = LoopIsOver
           /\ filtered' = filtered
<1>1. /\ UNCHANGED <<keys, indexes, pathinfo, hung, scan, constants, default_key>>
      /\ URLs' = URLs
  BY SectionStays
<1>2. Planned(req)' = Planned(req)
  BY PlannedStays
<1>3. /\ usesKey' = usesKey /\ ObjectKind' = ObjectKind /\ KeyChain' = KeyChain
      /\ LoopIsOver' = LoopIsOver /\ filtered' = filtered
  BY <1>1 DEF usesKey, ObjectKind, KeyChain, LoopIsOver, filtered
<1>4. Serving => Serving'
  BY <1>1, <1>2, <1>3 DEF Serving, ObjectOK
<1>5. ASSUME NEW b, KeyTaken(idxobj.key_part, b) PROVE KeyTaken(idxobj.key_part, b)'
  BY <1>2, <1>3, <1>5 DEF KeyTaken
<1> QED
  BY <1>3, <1>4, <1>5

\* A key column of bytes ends the child where the loop is.
LEMMA BinaryKeyKeeps ==
    ASSUME Serving, KeyTaken(idxobj.key_part, bound), UNCHANGED directives,
           Die("binary key")
    PROVE  AccessState'
<1>1. UNCHANGED <<directives, req, q, idxobj, col>> /\ bound' = bound
      /\ DiedOf("binary key")' /\ pc' = "answered"
  BY DEF Die, locals, DiedOf
<1>2. Serving' /\ KeyTaken(idxobj.key_part, bound)'
  BY <1>1, KeyStays
<1>3. AtKey'
  BY <1>1, <1>2 DEF AtKey
<1> QED
  BY <1>3 DEF AccessState

LEMMA PartKeeps ==
    ASSUME LinkInv, ConfigInv, AccessState, set_key_part
    PROVE  AccessState'
<1> DEFINE set == [idxobj EXCEPT !.parts_used = IF idxobj.kind = "ordered" THEN @ + 1 ELSE @]
<1>1. UNCHANGED directives /\ inParts
  BY DEF set_key_part
<1>2. pc = "parts" /\ Serving /\ KeyTaken(idxobj.key_part, bound) /\ Running
  BY <1>1, StateAt DEF inParts, AtKey, DiedOf
<1>3. \/ /\ idxobj.key_part < idxobj.n_parts
         /\ Goto(IF next_key_part(set) THEN "parts" ELSE "constants")
         /\ q' = [q EXCEPT !.used = @ - 1]
         /\ bound' = Append(bound, <<idxobj.key_part, q.value[col]>>)
         /\ idxobj' = [set EXCEPT !.key_part = @ + 1]
         /\ col' = keys[col].next_in_key
         /\ UNCHANGED req
      \/ Return("500")
      \/ Die("binary key")
      \/ ~ (idxobj.key_part < idxobj.n_parts) /\ idxobj.kind = "pk" /\ Die("key column")
  BY DEF set_key_part
<1> HIDE DEF set
<1>4. CASE /\ idxobj.key_part < idxobj.n_parts
           /\ Goto(IF next_key_part(set) THEN "parts" ELSE "constants")
           /\ q' = [q EXCEPT !.used = @ - 1]
           /\ bound' = Append(bound, <<idxobj.key_part, q.value[col]>>)
           /\ idxobj' = [set EXCEPT !.key_part = @ + 1]
           /\ col' = keys[col].next_in_key
           /\ UNCHANGED req
  <2>1. set = [idxobj EXCEPT !.parts_used = IF idxobj.kind = "ordered" THEN @ + 1 ELSE @]
    BY DEF set
  <2>2. /\ Serving' /\ KeyTaken(idxobj.key_part, bound)'
        /\ ~next_key_part(set) => idxobj'.key_part >= idxobj'.n_parts
    BY <1>1, <1>2, <1>4, <2>1, PartIsBound
  <2>3. pc' \in {"parts", "constants"} /\ Running'
        /\ (pc' = "constants" => ~next_key_part(set))
    BY <1>2, <1>4 DEF Goto, outcome, Running
  <2>4. AtKey'
    BY <2>2, <2>3 DEF AtKey, LoopIsOver
  <2> QED
    BY <2>4 DEF AccessState
<1>5. CASE Return("500")
  BY <1>2, <1>5, ReturnIdles DEF Running
<1>6. CASE ~ (idxobj.key_part < idxobj.n_parts) /\ idxobj.kind = "pk" /\ Die("key column")
  <2>1. idxobj.key_part \in 0..idxobj.n_parts /\ idxobj.n_parts \in Nat
    BY <1>2, AtKeyFacts DEF KeyTaken
  <2>2. idxobj.key_part = idxobj.n_parts /\ col # None
    <3>1. ~ (idxobj.key_part < idxobj.n_parts)
      BY <1>6
    <3>2. idxobj.key_part = idxobj.n_parts
      BY <2>1, <3>1
    <3>3. col # None
      BY <1>1 DEF inParts
    <3> QED
      BY <3>2, <3>3
  <2>3. UNCHANGED <<directives, req, q, idxobj, col>> /\ bound' = bound
    BY <1>1, <1>6 DEF Die, locals
  <2>4. Serving' /\ KeyTaken(idxobj.key_part, bound)'
    BY <1>2, <2>3, KeyStays
  <2>5. KeyTooLong'
    BY <1>6, <2>2, <2>3, <2>4 DEF KeyTooLong, Die, DiedOf
  <2> QED
    BY <2>5 DEF AccessState
<1>7. CASE Die("binary key")
  BY <1>1, <1>2, <1>7, BinaryKeyKeeps
<1> QED
  BY <1>3, <1>4, <1>5, <1>6, <1>7

LEMMA ConstantsKeep ==
    ASSUME LinkInv, ConfigInv, AccessState, set_constants
    PROVE  AccessState'
<1> DEFINE has == indexes[q.active_index].name \in constants
<1>1. UNCHANGED directives /\ (pc = "constants" \/ (pc = "parts" /\ ~inParts))
  BY DEF set_constants
<1>2. AtKey /\ Serving /\ KeyTaken(idxobj.key_part, bound) /\ Running
  BY <1>1, StateAt DEF AtKey, DiedOf
<1>3. LoopIsOver /\ usesKey
  <2>1. q.used \in Nat /\ usesKey
    BY <1>2 DEF KeyTaken
  <2>2. CASE pc = "constants"
    BY <1>2, <2>1, <2>2 DEF AtKey
  <2>3. CASE pc = "parts" /\ ~inParts
    BY <2>1, <2>3 DEF inParts, LoopIsOver
  <2> QED
    BY <1>1, <2>1, <2>2, <2>3
<1>4. CASE Return("500")
  BY <1>2, <1>4, ReturnIdles DEF Running
<1>6. CASE Die("binary key")
  BY <1>1, <1>2, <1>6, BinaryKeyKeeps
<1>5. CASE /\ Goto("filters")
           /\ bound' = IF has THEN Append(bound, Constant) ELSE bound
           /\ UNCHANGED <<req, q, idxobj, col>>
  <2>1. UNCHANGED <<directives, req, q, idxobj, col>>
    BY <1>1, <1>5
  <2>2. /\ Serving' /\ KeyTaken(idxobj.key_part, bound) /\ usesKey' /\ LoopIsOver'
        /\ \A b : KeyTaken(idxobj.key_part, b) => KeyTaken(idxobj.key_part, b)'
    BY <1>2, <1>3, <2>1, KeyStays
\* b is this value of bound, also after the step
  <2>3. PICK b : b = bound
    OBVIOUS
  <2>4. KeyTaken(idxobj.key_part, b)' /\ bound' = IF has THEN Append(b, Constant) ELSE b
    BY <1>5, <2>2, <2>3
  <2>5. has' = has
    BY <2>1, SectionStays
  <2>6. WithConstants(b)'
    BY <2>4, <2>5 DEF WithConstants
  <2>7. KeyIsSet'
    BY <2>2, <2>4, <2>6 DEF KeyIsSet
  <2>8. AtFilters'
    BY <1>2, <1>5, <2>2, <2>7 DEF AtFilters, Goto, outcome, Running
  <2> QED
    BY <2>8 DEF AccessState
<1> QED
  BY <1>4, <1>5, <1>6 DEF set_constants

LEMMA ActionKeeps ==
    ASSUME LinkInv, ConfigInv, AccessState, op_action
    PROVE  AccessState'
<1>1. UNCHANGED directives /\ pc = "filters"
  BY DEF op_action
<1>2. AtFilters /\ Running /\ Serving /\ IF usesKey THEN KeyIsSet ELSE NothingBound
  BY <1>1, StateAt DEF AtFilters, DiedOf
<1>3. CASE Return("500")
  BY <1>2, <1>3, ReturnIdles DEF Running
<1>4. CASE \/ End \/ (filtered /\ Die("filter column"))
           \/ Die("result column") \/ Die("blob handle")
  <2>1. UNCHANGED <<directives, req, q, idxobj, col>> /\ bound' = bound
    BY <1>1, <1>4 DEF End, Die, locals
  <2>5. \/ pc' = "answered" /\ answer' = "built" /\ fault' = "none"
        \/ DiedOf("filter column")' /\ filtered
        \/ DiedOf("result column")' \/ DiedOf("blob handle")'
    BY <1>2, <1>4 DEF End, Die, DiedOf, Running
  <2>2. /\ Serving' /\ usesKey' = usesKey /\ LoopIsOver' = LoopIsOver /\ filtered' = filtered
        /\ \A b : KeyTaken(idxobj.key_part, b) => KeyTaken(idxobj.key_part, b)'
    BY <1>2, <2>1, KeyStays
  <2>3. CASE usesKey
    <3>1. PICK b : KeyTaken(idxobj.key_part, b) /\ WithConstants(b) /\ LoopIsOver
      BY <1>2, <2>3 DEF KeyIsSet
    <3>2. (indexes[q.active_index].name \in constants)' = (indexes[q.active_index].name \in constants)
      BY <2>1, SectionStays
    <3>3. WithConstants(b)'
      BY <2>1, <3>1, <3>2 DEF WithConstants
    <3>4. KeyIsSet'
      BY <2>2, <3>1, <3>3 DEF KeyIsSet
    <3>5. AtFilters'
      BY <2>2, <2>3, <2>5, <3>4 DEF AtFilters
    <3> QED
      BY <3>5 DEF AccessState
  <2>4. CASE ~usesKey
    <3>1. NothingBound'
      BY <1>2, <2>1, <2>4 DEF NothingBound
    <3>2. AtFilters'
      BY <2>2, <2>4, <2>5, <3>1 DEF AtFilters
    <3> QED
      BY <3>2 DEF AccessState
  <2> QED
    BY <2>3, <2>4
<1> QED
  BY <1>3, <1>4 DEF op_action

LEMMA StutterKeeps ==
    ASSUME AccessState, UNCHANGED avars
    PROVE  AccessState'
<1>1. UNCHANGED <<directives, req, q, idxobj, col, bound, pc, answer, fault>>
      /\ Running' = Running /\ \A cause : DiedOf(cause)' = DiedOf(cause)
  BY DEF avars, locals, outcome, Running, DiedOf
<1>2. /\ UNCHANGED <<keys, indexes, pathinfo, hung, scan, constants, default_key>>
      /\ URLs' = URLs
  BY <1>1, SectionStays
<1>3. Planned(req)' = Planned(req)
  BY <1>1, PlannedStays
<1>4. /\ Serving => Serving'
      /\ \A b : KeyTaken(idxobj.key_part, b) => KeyTaken(idxobj.key_part, b)'
      /\ usesKey' = usesKey /\ ObjectKind' = ObjectKind /\ LoopIsOver' = LoopIsOver
      /\ filtered' = filtered
  BY <1>1, KeyStays
<1>5. CASE Idle
  BY <1>1, <1>5 DEF Idle, AccessState
<1>6. CASE req \in URLs /\ AtPlan
  BY <1>1, <1>2, <1>3, <1>6 DEF AtPlan, NothingBound, AccessState
<1>7. CASE req \in URLs /\ AtOperation
  <2>1. ObjectOK(idxobj, ObjectKind)'
    BY <1>1, <1>4, <1>7 DEF AtOperation, ObjectOK
  <2>2. AtOperation'
    BY <1>1, <1>3, <1>7, <2>1 DEF AtOperation, NothingBound
  <2> QED
    BY <1>1, <1>2, <1>7, <2>2 DEF AccessState
<1>8. CASE AtKey
  <2>1. AtKey'
    <3>1. Serving' /\ KeyTaken(idxobj.key_part, bound)'
      BY <1>1, <1>4, <1>8 DEF AtKey
    <3> QED
      BY <1>1, <1>4, <1>8, <3>1 DEF AtKey
  <2> QED
    BY <2>1 DEF AccessState
<1>9. CASE KeyTooLong
  <2>1. KeyTooLong'
    <3>1. Serving' /\ KeyTaken(idxobj.key_part, bound)'
      BY <1>1, <1>4, <1>9 DEF KeyTooLong
    <3> QED
      BY <1>1, <1>9, <3>1 DEF KeyTooLong
  <2> QED
    BY <2>1 DEF AccessState
<1>10. CASE AtFilters
  <2>1. KeyIsSet => KeyIsSet'
    <3> SUFFICES ASSUME NEW b, KeyTaken(idxobj.key_part, b), WithConstants(b), LoopIsOver
                 PROVE  KeyIsSet'
      BY DEF KeyIsSet
    <3>1. WithConstants(b)'
      BY <1>1, <1>2 DEF WithConstants
    <3> QED
      BY <1>4, <3>1 DEF KeyIsSet
  <2>2. NothingBound => NothingBound'
    BY <1>1 DEF NothingBound
  <2>3. AtFilters'
    BY <1>1, <1>4, <1>10, <2>1, <2>2 DEF AtFilters
  <2> QED
    BY <2>3 DEF AccessState
<1> QED
  BY <1>5, <1>6, <1>7, <1>8, <1>9, <1>10 DEF AccessState

LEMMA AccessLinkedNext ==
    ASSUME Reuse = FALSE, AccessLinked, [AccessNext]_avars, ~ twice'
    PROVE  AccessLinked'
<1>1. LinkInv /\ ConfigInv /\ AccessState
  BY DEF AccessLinked
<1>2. CASE keyDirective
  BY <1>2, KeyDirectiveKeeps
<1>3. CASE table \/ \E i \in Indexes : index_constant(i)
  BY <1>3, OtherDirectiveKeeps
<1>4. ASSUME UNCHANGED directives
      PROVE  LinkInv' /\ ConfigInv'
  <2>1. UNCHANGED vars
    BY <1>4 DEF directives
  <2> QED
    BY <1>1, <1>4, <2>1, LinkNext, SectionStays
<1>5. CASE \E r \in URLs : Query(r)
  BY <1>1, <1>4, <1>5, QueryKeeps DEF Query, AccessLinked
<1>6. CASE noPlan
  BY <1>1, <1>4, <1>6, NoPlanKeeps DEF noPlan, AccessLinked
<1>7. CASE index_object
  BY <1>1, <1>4, <1>7, ObjectKeeps DEF index_object, AccessLinked
<1>8. CASE get_ndb_operation
  BY <1>1, <1>4, <1>8, OperationKeeps DEF get_ndb_operation, AccessLinked
<1>9. CASE set_key_part
  BY <1>1, <1>4, <1>9, PartKeeps DEF set_key_part, AccessLinked
<1>10. CASE set_constants
  BY <1>1, <1>4, <1>10, ConstantsKeep DEF set_constants, AccessLinked
<1>11. CASE op_action
  BY <1>1, <1>4, <1>11, ActionKeeps DEF op_action, AccessLinked
<1>12. CASE UNCHANGED avars
  BY <1>1, <1>4, <1>12, StutterKeeps DEF avars, AccessLinked
<1> QED
  BY <1>2, <1>3, <1>5, <1>6, <1>7, <1>8, <1>9, <1>10, <1>11, <1>12 DEF AccessNext

LEMMA AccessInvNext ==
    ASSUME Reuse = FALSE, AccessInv, [AccessNext]_avars
    PROVE  AccessInv'
<1>1. [Next]_vars
  <2>1. CASE keyDirective
    BY <2>1 DEF keyDirective
  <2>2. CASE AccessNext /\ ~ keyDirective
    BY <2>2 DEF AccessNext, table, index_constant, Query, noPlan, index_object,
                get_ndb_operation, set_key_part, set_constants, op_action, directives
  <2>3. CASE UNCHANGED avars
    BY <2>3 DEF avars, directives
  <2> QED
    BY <2>1, <2>2, <2>3
<1>2. twice' \in BOOLEAN /\ (twice => twice')
  BY <1>1, TwiceStays DEF AccessInv
<1>3. ASSUME ~ twice' PROVE AccessLinked'
  BY <1>2, <1>3, AccessLinkedNext DEF AccessInv
<1> QED
  BY <1>2, <1>3 DEF AccessInv

\* The invariant: at each point of Query() (Query.cc:373-459) the items are those
\* of the request but for the names used, and the parts bound are the first
\* columns of the index's chain with the request's values, as long as no index has
\* named a column of its own again.
THEOREM AccessInvariant == Reuse = FALSE => (AccessSpec => []AccessInv)
<1> SUFFICES ASSUME Reuse = FALSE PROVE AccessSpec => []AccessInv
  OBVIOUS
<1>1. AccessInit => AccessInv
  BY InitIsIdle
<1>2. AccessInv /\ [AccessNext]_avars => AccessInv'
  BY AccessInvNext
<1> QED
  BY <1>1, <1>2, PTL DEF AccessSpec

-----------------------------------------------------------------------------
(* The theorems                                                              *)

\* The facts about an operation that is being built or is built
LEMMA FiltersFacts ==
    ASSUME LinkInv, ConfigInv, AtFilters
    PROVE  /\ PlanUsable(q) /\ ObjectOK(idxobj, ObjectKind)
           /\ idxobj.key_part \in 0..idxobj.n_parts
           /\ col \in DOMAIN keys \union {None}
<1>1. Serving /\ (usesKey => KeyIsSet) /\ (~usesKey => NothingBound)
  BY DEF AtFilters
<1>2. req \in URLs /\ q = [Planned(req) EXCEPT !.used = q.used] /\ ObjectOK(idxobj, ObjectKind)
  BY <1>1 DEF Serving
<1>3. CASE usesKey
  <2>1. PICK b : KeyTaken(idxobj.key_part, b)
    BY <1>1, <1>3 DEF KeyIsSet
  <2> QED
    BY <1>1, <1>2, <2>1, AtKeyFacts DEF KeyTaken
<1>4. CASE ~usesKey
  <2>1. PlanUsable(q)
    BY <1>1, ServedItems DEF Serving
  <2>2. idxobj.n_parts \in 0..MaxParts /\ MaxParts \in Nat
    BY <1>2, AccessPlanAssumption DEF ObjectOK
  <2>3. idxobj.key_part = 0 /\ col = None
    BY <1>1, <1>4 DEF NothingBound
  <2>4. 0 \in 0..idxobj.n_parts
    BY <2>2
  <2> QED
    BY <1>2, <2>1, <2>3, <2>4
<1> QED
  BY <1>3, <1>4

LEMMA AccessTypes == AccessInv => (~ twice => AccessTypeOK)
<1> SUFFICES ASSUME AccessLinked, twice \in BOOLEAN PROVE AccessTypeOK
  BY DEF AccessInv
<1> DEFINE Points == {"config", "plan", "operation", "parts", "constants", "filters", "answered"}
           Answers == {"none", "refused", "404", "500", "died", "built"}
           QOK == /\ q.plan \in {NoPlan, PrimaryKey, UniqueIndexAccess, Scan, OrderedIndexScan}
                  /\ q.active_index \in DOMAIN indexes \union {None}
           OOK == /\ idxobj.kind \in {"none", "pk", "unique", "ordered", "table"}
                  /\ idxobj.n_parts \in 0..MaxParts /\ idxobj.key_part \in 0..idxobj.n_parts
           COK == col \in DOMAIN keys \union {None}
<1>1. LinkInv /\ ConfigInv /\ AccessState /\ SectionInv
  BY DEF AccessLinked, LinkInv
<1>2. TypeOK
  BY <1>1, SectionTypes
<1>3. scan \in {"no", "table", "index"} /\ constants \subseteq Indexes
      /\ default_key \in DOMAIN indexes \union {None}
  BY <1>1 DEF ConfigInv
<1>4. MaxParts \in Nat
  BY AccessPlanAssumption
<1>5. ASSUME PlanUsable(q) PROVE QOK
  BY <1>5 DEF PlanUsable, QueryItems, Plans, NoPlan, PrimaryKey, UniqueIndexAccess, Scan,
              OrderedIndexScan
<1>6. ASSUME ObjectOK(idxobj, ObjectKind), idxobj.key_part \in 0..idxobj.n_parts PROVE OOK
  BY <1>6 DEF ObjectOK
<1>7. CASE Idle
  <2>1. pc \in Points /\ answer \in Answers /\ fault \in Faults /\ COK
    BY <1>7 DEF Idle, Faults
  <2>2. QOK
    BY <1>7 DEF Idle, NoQuery, NoPlan
  <2>3. OOK
    BY <1>4, <1>7 DEF Idle, NoObject
  <2> QED
    BY <1>2, <1>3, <2>1, <2>2, <2>3 DEF AccessTypeOK
<1>8. CASE req \in URLs /\ AtPlan
  <2>1. pc \in Points /\ answer \in Answers /\ fault \in Faults /\ COK
    BY <1>8 DEF AtPlan, NothingBound, Running, Faults
  <2>2. QOK
    BY <1>1, <1>5, <1>8, PlannedItems DEF AtPlan
  <2>3. OOK
    BY <1>4, <1>8 DEF AtPlan, NoObject
  <2> QED
    BY <1>2, <1>3, <2>1, <2>2, <2>3 DEF AccessTypeOK
<1>9. CASE req \in URLs /\ AtOperation
  <2>1. pc \in Points /\ answer \in Answers /\ fault \in Faults /\ COK
    BY <1>9 DEF AtOperation, NothingBound, Running, DiedOf, Faults
  <2>2. QOK
    BY <1>1, <1>5, <1>9, PlannedItems DEF AtOperation
  <2>3. OOK
    <3>1. ObjectOK(idxobj, ObjectKind) /\ idxobj.key_part = 0
      BY <1>9 DEF AtOperation, NothingBound
    <3>2. idxobj.n_parts \in 0..MaxParts
      BY <3>1 DEF ObjectOK
    <3>3. 0 \in 0..idxobj.n_parts
      BY <1>4, <3>2
    <3> QED
      BY <1>6, <3>1, <3>3
  <2> QED
    BY <1>2, <1>3, <2>1, <2>2, <2>3 DEF AccessTypeOK
<1>10. CASE AtKey \/ KeyTooLong
  <2>1. pc \in Points /\ answer \in Answers /\ fault \in Faults /\ Serving /\ KeyTaken(idxobj.key_part, bound)
    BY <1>10 DEF AtKey, KeyTooLong, Running, DiedOf, Faults
  <2>2. PlanUsable(q) /\ COK
    BY <1>1, <2>1, AtKeyFacts
  <2>3. OOK
    BY <1>6, <2>1 DEF Serving, KeyTaken
  <2> QED
    BY <1>2, <1>3, <1>5, <2>1, <2>2, <2>3 DEF AccessTypeOK
<1>11. CASE AtFilters
  <2>1. pc \in Points /\ answer \in Answers /\ fault \in Faults
    BY <1>11 DEF AtFilters, Running, DiedOf, Faults
  <2>2. QOK /\ OOK /\ COK
    BY <1>1, <1>5, <1>6, <1>11, FiltersFacts
  <2> QED
    BY <1>2, <1>3, <2>1, <2>2 DEF AccessTypeOK
<1> QED
  BY <1>1, <1>7, <1>8, <1>9, <1>10, <1>11 DEF AccessState

\* The parts of the index in use are the names of its chain.
LEMMA PartsAreChain ==
    ASSUME LinkInv, PlanUsable(q), usesKey
    PROVE  /\ Parts = NamesOf(keys, KeyChain) /\ Len(Parts) = Len(KeyChain)
           /\ DOMAIN Parts = 1..Len(KeyChain)
<1>1. q.active_index \in DOMAIN indexes
  BY DEF PlanUsable, usesKey
<1>2. KeyChain \in Seq(DOMAIN keys) /\ Parts = NamesOf(keys, KeyChain)
  BY <1>1, IndexChain DEF KeyChain, Parts
<1> HIDE DEF KeyChain, Parts
<1>3. Len(KeyChain) \in Nat /\ DOMAIN KeyChain = 1..Len(KeyChain)
  BY <1>2
<1>4. Parts = [p \in 1..Len(KeyChain) |-> keys[KeyChain[p]].name]
  BY <1>2, <1>3 DEF NamesOf
<1>5. Len(Parts) = Len(KeyChain)
  BY <1>3, <1>4
<1> QED
  BY <1>2, <1>4, <1>5

LEMMA DeathsAreExplained == AccessInv => (~ twice => DeathHasACause)
<1> SUFFICES ASSUME AccessLinked, answer = "died" PROVE DeathHasACause
  BY DEF AccessInv, DeathHasACause
<1>1. LinkInv /\ ConfigInv /\ AccessState
  BY DEF AccessLinked
<1>2. \/ DiedOf("operation") \/ DiedOf("binary key") \/ (KeyTooLong /\ DiedOf("key column"))
      \/ (AtFilters /\ filtered /\ DiedOf("filter column"))
      \/ DiedOf("result column") \/ DiedOf("blob handle")
  BY <1>1 DEF AccessState, Idle, AtPlan, AtOperation, AtKey, KeyTooLong, AtFilters, Running
<1>3. fault # "object"
  BY <1>2 DEF DiedOf
<1>4. ASSUME fault = "key column"
      PROVE  /\ idxobj.kind = "pk" /\ Len(Parts) > idxobj.n_parts
             /\ Len(bound) = idxobj.n_parts
  <2>1. /\ Serving /\ KeyTaken(idxobj.key_part, bound)
        /\ idxobj.kind = "pk" /\ idxobj.key_part = idxobj.n_parts /\ col # None
    BY <1>2, <1>4 DEF KeyTooLong, DiedOf
  <2>2. /\ PlanUsable(q) /\ usesKey /\ idxobj.key_part \in Nat /\ Len(KeyChain) \in Nat
        /\ idxobj.key_part < Len(KeyChain)
    BY <1>1, <2>1, AtKeyFacts
  <2>3. Len(Parts) = Len(KeyChain)
    BY <1>1, <2>2, PartsAreChain
  <2>4. Len(bound) = idxobj.key_part
    BY <2>1, <2>2 DEF KeyTaken
  <2> QED
    BY <2>1, <2>2, <2>3, <2>4
<1>5. ASSUME fault = "filter column" PROVE idxobj.kind \in {"ordered", "table"}
  <2>1. AtFilters /\ filtered
    BY <1>2, <1>5 DEF DiedOf
  <2>2. PlanUsable(q) /\ ObjectOK(idxobj, ObjectKind)
    BY <1>1, <2>1, FiltersFacts
  <2>3. q.plan >= Scan
    BY <2>1 DEF filtered
  <2>4. idxobj.kind = ObjectKind /\ ObjectKind # "missing"
    BY <2>2 DEF ObjectOK
  <2> QED
    BY <1>1, <2>2, <2>3, <2>4, ObjectKinds
<1> QED
  BY <1>3, <1>4, <1>5 DEF DeathHasACause

\* Types: as long as no index has named a column of its own again, the section,
\* the query items and the object of the index keep their types through every
\* directive and every step of Query(), and key_part never passes the parts of the
\* index (index_object.h).
THEOREM AccessTypeCorrect == Reuse = FALSE => (AccessSpec => [](~ twice => AccessTypeOK))
<1> SUFFICES ASSUME Reuse = FALSE PROVE AccessSpec => [](~ twice => AccessTypeOK)
  OBVIOUS
<1>1. AccessSpec => []AccessInv
  BY AccessInvariant
<1>2. AccessInv => (~ twice => AccessTypeOK)
  BY AccessTypes
<1> QED
  BY <1>1, <1>2, PTL

\* Whatever NDB answers and whatever its tables have, no order of directives and
\* arguments leaves a plan without the object it needs (Query.cc:373-416), and the
\* loop over the key dereferences a column the table does not have only with more
\* key columns than the primary key has, as many of them bound and one more named
\* (index_object.h:64), as long as no index has named a column of its own again.
THEOREM DeathIsExplained == Reuse = FALSE => (AccessSpec => [](~ twice => DeathHasACause))
<1> SUFFICES ASSUME Reuse = FALSE PROVE AccessSpec => [](~ twice => DeathHasACause)
  OBVIOUS
<1>1. AccessSpec => []AccessInv
  BY AccessInvariant
<1>2. AccessInv => (~ twice => DeathHasACause)
  BY DeathsAreExplained
<1> QED
  BY <1>1, <1>2, PTL

\* What a request that names the first n parts of its index, and nothing else, gives
\* to the operation
NamesOnPath == usesPath(setArguments(FirstPlan(req), req.args), req.always)

PathNames == [k \in 1..req.depth |-> keys[pathinfo[Len(pathinfo) + 1 - k].id].name]

NamesInURL == req.args \o (IF NamesOnPath THEN PathNames ELSE << >>)

NamesPrefix(n) ==
    /\ Len(NamesInURL) = n
    /\ {NamesInURL[k] : k \in 1..n} = {Parts[p] : p \in 1..n}

LEMMA URLNames ==
    ASSUME LinkInv, req \in URLs
    PROVE  LET m == Len(req.args)
           IN /\ m \in Nat /\ req.depth \in Nat
              /\ Len(NamesInURL) = IF NamesOnPath THEN m + req.depth ELSE m
              /\ \A a \in 1..m : NamesInURL[a] = req.args[a]
<1>1. req.args \in Seq(Columns) /\ req.depth \in Nat
  BY URLType DEF IsRequest
<1> DEFINE u == req.args
           f == PathNames
           T == Columns \union {f[k] : k \in 1..req.depth}
<1>2. u \in Seq(T)
  <2>1. Columns \subseteq T
    OBVIOUS
  <2> HIDE DEF T
  <2> QED
    BY <1>1, <2>1
<1>3. f \in [1..req.depth -> T]
  BY DEF PathNames
<1> HIDE DEF u, f, T
<1>4. f \in Seq(T) /\ Len(f) = req.depth
  BY <1>1, <1>3
<1>5. /\ Len(u \o f) = Len(u) + req.depth /\ Len(u) \in Nat
      /\ \A a \in 1..Len(u) : (u \o f)[a] = u[a]
  BY <1>2, <1>4
<1>6. Len(u \o << >>) = Len(u) /\ \A a \in 1..Len(u) : (u \o << >>)[a] = u[a]
  BY <1>2
<1>7. NamesInURL = IF NamesOnPath THEN u \o f ELSE u \o << >>
  BY DEF NamesInURL, u, f
<1> HIDE DEF NamesInURL
<1> QED
  BY <1>1, <1>5, <1>6, <1>7 DEF u

\* A part of the index in use is the name of a column of an index.
LEMMA PartIsColumn ==
    ASSUME LinkInv, PlanUsable(q), usesKey, NEW p \in 1..Len(Parts)
    PROVE  /\ Parts[p] \in KeyNames /\ KeyChain[p] \in DOMAIN keys
           /\ keys[KeyChain[p]].name = Parts[p]
<1>1. q.active_index \in DOMAIN indexes
  BY DEF PlanUsable, usesKey
<1>2. /\ indexes[q.active_index].name \in Indexes
      /\ Parts = DeclaredParts[indexes[q.active_index].name]
      /\ KeyChain \in Seq(DOMAIN keys) /\ Parts = NamesOf(keys, KeyChain)
      /\ Len(Parts) = Len(KeyChain) /\ DOMAIN Parts = 1..Len(KeyChain)
  BY <1>1, IndexChain, PartsAreChain DEF KeyChain, Parts
<1> HIDE DEF KeyChain, Parts
<1>3. p \in DOMAIN Parts /\ p \in DOMAIN KeyChain
  BY <1>2
<1>4. Parts[p] \in Range(Parts)
  BY <1>3 DEF Range
<1>5. KeyChain[p] \in DOMAIN keys /\ Parts[p] = keys[KeyChain[p]].name
  BY <1>2, <1>3 DEF NamesOf
<1> QED
  BY <1>2, <1>4, <1>5 DEF KeyNames

LEMMA PrefixUsed ==
    ASSUME LinkInv, ConfigInv, req \in URLs, PlanUsable(q), usesKey,
           NEW n \in 0..Len(Parts), NamesPrefix(n)
    PROVE  /\ Planned(req).used = n
           /\ n # 0 => (NamesOnPath <=> Len(pathinfo) > 0 /\ OnPath(req))
<1> DEFINE s == FirstPlan(req)
           a == setArguments(s, req.args)
           m == Len(req.args)
           N == Len(pathinfo)
<1>1. /\ req.args \in Seq(Columns) /\ m \in Nat /\ DOMAIN req.args = 1..m
      /\ req.depth \in Nat /\ req.always \in BOOLEAN
  BY URLType DEF IsRequest
<1>2. N \in Nat /\ req.depth <= N /\ SectionInv
  BY PathIsThere DEF URLs
<1>3. StartOK(s)
  BY FirstPlanOK
<1>4. /\ Len(NamesInURL) = IF NamesOnPath THEN m + req.depth ELSE m
      /\ \A j \in 1..m : NamesInURL[j] = req.args[j]
  BY URLNames
<1>5. /\ n \in Nat /\ m <= n /\ Len(NamesInURL) = n
      /\ \A j \in 1..n : \E p \in 1..Len(Parts) : NamesInURL[j] = Parts[p]
  <2>1. Len(NamesInURL) = n /\ {NamesInURL[k] : k \in 1..n} = {Parts[p] : p \in 1..n}
    BY DEF NamesPrefix
  <2>2. Len(Parts) \in Nat
    BY PartsAreChain, ChainLinks
  <2> DEFINE M == Len(Parts)
  <2>3. M \in Nat /\ n \in 0..M
    BY <2>2
  <2> HIDE DEF M
  <2>4. n \in Nat /\ \A p \in 1..n : p \in 1..M
    BY <2>3
  <2>5. m <= n
    BY <1>1, <1>4, <2>1, <2>4
  <2>6. \A j \in 1..n : \E p \in 1..n : NamesInURL[j] = Parts[p]
    BY <2>1
  <2> QED
    BY <2>1, <2>4, <2>5, <2>6 DEF M
<1>6. \A j \in 1..m : \E p \in 1..Len(Parts) : req.args[j] = Parts[p]
  <2>1. \A j \in 1..m : j \in 1..n
    BY <1>1, <1>5
  <2> QED
    BY <1>4, <1>5, <2>1
<1>7. NamesOnPath = usesPath(a, req.always)
      /\ Planned(req) = IF usesPath(a, req.always) THEN setPath(a, req.depth) ELSE a
  BY DEF NamesOnPath, Planned
<1> HIDE DEF s
<1>8. ArgsTaken(a, s, req.args, m)
  BY <1>1, <1>2, <1>3, ArgumentsTaken
<1> HIDE DEF a
<1>9. a.used = m /\ QueryOK(a, s)
  <2>1. AreColumns(req.args, m)
    BY <1>6, PartIsColumn DEF AreColumns
  <2> QED
    BY <1>8, <2>1 DEF ArgsTaken
<1>10. setPath(a, req.depth).used = m + req.depth
  <2> DEFINE d == IF req.depth < N THEN req.depth ELSE N
  <2>1. PathTaken(setPath(a, req.depth), a, s, d)
    BY <1>1, <1>9, PathIsTaken
  <2>2. d = req.depth
    BY <1>1, <1>2
  <2> QED
    BY <1>9, <2>1, <2>2 DEF PathTaken
<1>11. Planned(req).used = n
  BY <1>4, <1>5, <1>7, <1>9, <1>10
<1>12. ASSUME n # 0 PROVE NamesOnPath <=> N > 0 /\ OnPath(req)
  <2>1. NamesOnPath <=> N > 0 /\ (a.plan = NoPlan \/ req.always)
    BY <1>7 DEF usesPath
  <2>2. CASE m = 0
    <3>1. NamesOnPath
      BY <1>4, <1>5, <1>12, <2>2
    <3>2. OnPath(req)
      BY <1>1, <2>2 DEF OnPath
    <3> QED
      BY <2>1, <3>1, <3>2
  <2>3. CASE m # 0
    <3>1. 1 \in 1..m
      BY <1>1, <2>3
    <3>2. req.args[1] \in KeyNames /\ 1 \in DOMAIN req.args
      BY <1>1, <1>6, <3>1, PartIsColumn
    <3>3. a.plan # NoPlan
      BY <1>1, <1>8, <3>2, KeyNamePlans
    <3>4. OnPath(req) <=> req.always
      BY <3>2 DEF OnPath
    <3> QED
      BY <2>1, <3>3, <3>4
  <2> QED
    BY <2>2, <2>3
<1> QED
  BY <1>11, <1>12

LEMMA PrefixGiven ==
    ASSUME LinkInv, ConfigInv, req \in URLs, PlanUsable(q), usesKey,
           NEW n \in 0..Len(Parts), NamesPrefix(n), NEW p \in 1..n
    PROVE  GivenHere[Parts[p]] = Planned(req).value[KeyChain[p]]
<1> DEFINE s == FirstPlan(req)
           a == setArguments(s, req.args)
           Q == Planned(req)
<1>1. IsRequest(req) /\ StartOK(s)
  BY URLType, FirstPlanOK
<1>2. Len(Parts) \in Nat
  BY PartsAreChain, ChainLinks
<1>3. n # 0 /\ p \in 1..Len(Parts)
  BY <1>2
<1>4. usesPath(a, req.always) <=> Len(pathinfo) > 0 /\ OnPath(req)
  BY <1>3, PrefixUsed DEF NamesOnPath
<1>5. Q = IF usesPath(a, req.always) THEN setPath(a, req.depth) ELSE a
  BY DEF Planned
<1>6. KeyChain[p] \in DOMAIN keys /\ keys[KeyChain[p]].name = Parts[p]
  BY <1>3, PartIsColumn
<1>7. a = setArguments(s, req.args)
  OBVIOUS
<1> HIDE DEF s, a, Q
<1>8. HoldsGiven(Q, s, Given(req, KeyNames))
  BY <1>1, <1>4, <1>5, <1>7, TakenAreGiven
<1>9. GivenHere = Given(req, KeyNames)
  BY DEF GivenHere
<1>10. Given(req, KeyNames)[keys[KeyChain[p]].name] = Q.value[KeyChain[p]]
  BY <1>6, <1>8 DEF HoldsGiven
<1> QED
  BY <1>6, <1>9, <1>10 DEF Q

LEMMA ConstantsAreLast ==
    ASSUME NEW n \in Nat, NEW b, NEW f, b = [p \in 1..n |-> f[p]], NEW c, NEW has
    PROVE  (IF has THEN Append(b, c) ELSE b) = b \o (IF has THEN <<c>> ELSE << >>)
<1> DEFINE T == {f[p] : p \in 1..n} \union {c}
<1>1. b \in [1..n -> T]
  OBVIOUS
<1>2. c \in T
  OBVIOUS
<1> HIDE DEF T
<1>3. b \in Seq(T)
  BY <1>1
<1>4. Append(b, c) = b \o <<c>>
  BY <1>2, <1>3
<1>5. b \o << >> = b
  BY <1>3
<1> QED
  BY <1>4, <1>5

LEMMA PrefixesAreBound == AccessInv => PrefixIsBound
<1> DEFINE has == indexes[q.active_index].name \in constants
<1> SUFFICES ASSUME AccessLinked, answer = "built", usesKey, NEW n \in 0..Len(Parts),
                    NamesPrefix(n), n <= idxobj.n_parts
             PROVE  bound = [p \in 1..n |-> <<p - 1, GivenHere[Parts[p]]>>]
                            \o (IF has THEN <<Constant>> ELSE << >>)
  BY DEF AccessInv, PrefixIsBound, NamesPrefix, NamesInURL, PathNames, NamesOnPath
<1>1. LinkInv /\ ConfigInv /\ AccessState
  BY DEF AccessLinked
<1>2. AtFilters
  BY <1>1 DEF AccessState, Idle, AtPlan, AtOperation, AtKey, KeyTooLong, Running, DiedOf
<1>3. Serving /\ KeyIsSet
  BY <1>2 DEF AtFilters
<1>4. PICK b : KeyTaken(idxobj.key_part, b) /\ WithConstants(b) /\ LoopIsOver
  BY <1>3 DEF KeyIsSet
<1> DEFINE k == idxobj.key_part
           P == Planned(req)
           f == [p \in 1..n |-> <<p - 1, q.value[KeyChain[p]]>>]
<1>5. /\ PlanUsable(q) /\ k \in Nat /\ idxobj.n_parts \in Nat /\ Len(KeyChain) \in Nat
      /\ col = None => k = Len(KeyChain)
  BY <1>1, <1>3, <1>4, AtKeyFacts
<1>6. Len(Parts) = Len(KeyChain)
  BY <1>1, <1>5, PartsAreChain
<1>7. req \in URLs /\ q = [P EXCEPT !.used = q.used] /\ q.used \in Nat
  BY <1>3 DEF Serving
<1>8. P.used = n
  BY <1>1, <1>5, <1>7, PrefixUsed
<1>9. q.used + k = P.used /\ b = [p \in 1..k |-> <<p - 1, q.value[KeyChain[p]]>>]
      /\ k <= Len(KeyChain)
  BY <1>4 DEF KeyTaken
<1>10. col = None \/ q.used = 0 \/ k >= idxobj.n_parts
  BY <1>4 DEF LoopIsOver
<1>11. k = n
  <2> DEFINE N == Len(KeyChain)
             m == idxobj.n_parts
             u == q.used
  <2>1. /\ k \in Nat /\ m \in Nat /\ N \in Nat /\ u \in Nat /\ n \in 0..N /\ n <= m
        /\ u + k = n /\ k <= N /\ (k = N \/ u = 0 \/ k >= m)
    BY <1>5, <1>6, <1>7, <1>8, <1>9, <1>10
  <2> HIDE DEF N, m, u, k
  <2> QED
    BY <2>1
<1>12. \A p \in 1..n : GivenHere[Parts[p]] = P.value[KeyChain[p]]
  BY <1>1, <1>5, <1>7, PrefixGiven
<1>13. q.value = P.value
  <2>1. P \in QueryItems
    BY <1>1, <1>7, PlannedOK DEF PlanUsable
  <2> HIDE DEF P
  <2> QED
    BY <1>7, <2>1 DEF QueryItems
<1> HIDE DEF P, has
<1>14. b = [p \in 1..n |-> <<p - 1, GivenHere[Parts[p]]>>] /\ b = [p \in 1..n |-> f[p]]
  BY <1>9, <1>11, <1>12, <1>13
<1>15. bound = IF has THEN Append(b, Constant) ELSE b
  BY <1>4 DEF WithConstants, has
<1> HIDE DEF f
<1>16. n \in Nat
  BY <1>5, <1>6
<1>17. (IF has THEN Append(b, Constant) ELSE b) = b \o (IF has THEN <<Constant>> ELSE << >>)
  BY <1>14, <1>16, ConstantsAreLast
<1> QED
  BY <1>14, <1>15, <1>17 DEF has

\* A request that names the first n parts of its index, each once and nothing
\* else, by arguments or on the path, becomes bounds on these parts with the
\* values the URL gives them, and no others but the section's constants, although
\* the loop (Query.cc:429) counts names and not parts: for any number of parts,
\* columns and indexes, when no index names a column that is another's or its own.
THEOREM PrefixIsLookedUp == Reuse = FALSE => (AccessSpec => []PrefixIsBound)
<1> SUFFICES ASSUME Reuse = FALSE PROVE AccessSpec => []PrefixIsBound
  OBVIOUS
<1>1. AccessSpec => []AccessInv
  BY AccessInvariant
<1>2. AccessInv => PrefixIsBound
  BY PrefixesAreBound
<1> QED
  BY <1>1, <1>2, PTL
=============================================================================
