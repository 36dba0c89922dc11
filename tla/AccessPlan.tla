----------------------------- MODULE AccessPlan -----------------------------
(* How Query() (Query.cc) goes from the query items that Lookup computes to  *)
(* an operation of the NDB API: the method and the section choose a first    *)
(* plan, the names in the URL a better one, the plan an index_object         *)
(* (index_object.h), and a loop binds the parts of its key.  A section is    *)
(* configured by KeyColumns' directives and by those that make it a scan or  *)
(* compare an index with constants; then it serves one request.  The         *)
(* transaction the operation belongs to, and what fails in it, is module     *)
(* Instance, and so is what happens after the error returns of this part;    *)
(* here NDB only says that an index is missing, how many parts it has, that  *)
(* it has no such column or one of another type, and that it refuses an      *)
(* operation, a bound or a blob handle.                                      *)
EXTENDS Lookup

CONSTANTS MaxDirectives,   \* bound: most directives in a section
          MaxParts         \* bound: most parts in an index of the table

ASSUME AccessPlanAssumption == MaxDirectives \in Nat /\ MaxParts \in Nat \ {0}

VARIABLES
  scan,          \* flag.table_scan and index_scan->name: "no", "table" or "index"
  constants,     \* the indexes with a constant: index_rec->constants
  default_key,   \* the index whose constants were named last
  n_directives,  \* how many directives the section has
  pc, req,       \* where Query() is, and in which request
  q,             \* its QueryItems
  idxobj,        \* q->idxobj: kind, n_parts, key_part and parts_used
  col,           \* the column of the loop over the index parts
  bound,         \* <<part, value>> for each set_key_part() that succeeded
  answer,
  fault          \* what ended the child: a null pointer to this, or an assert()

directives == <<vars, scan, constants, default_key, n_directives>>
locals == <<req, q, idxobj, col, bound>>
outcome == <<answer, fault>>
avars == <<directives, pc, locals, outcome>>

Faults == {"none", "object", "operation", "key column", "binary key", "filter column",
           "result column", "blob handle"}

\* enum AccessPlan (mod_ndb.h)
PrimaryKey == 2
UniqueIndexAccess == 3
Scan == 4
OrderedIndexScan == 5

NoObject == [kind |-> "none", n_parts |-> 0, key_part |-> 0, parts_used |-> 0]
NoRequest == [method |-> "none"]
NoQuery == [value |-> << >>, used |-> 0, filters |-> << >>, plan |-> NoPlan,
            active_index |-> None]

\* A request's method is that of its query source; "sub" is a subrequest, whose
\* r->method_number is always M_GET; "query", whether the URL has a query string,
\* which may be empty and makes a difference to POST alone.  Bound: a subrequest
\* that writes is a POST; a DELETE differs from it in not being an insert.
URLs ==
    {r \in [method : {"GET", "POST", "DELETE"}, sub : BOOLEAN, query : BOOLEAN,
            args : UNION {[1..n -> Columns] : n \in 0..MaxArgs},
            depth : 0..Len(pathinfo), always : BOOLEAN] :
        /\ r.args # << >> \/ r.method # "POST" => r.query
        /\ r.sub => r.method = "POST"
        /\ r.always => pathinfo # << >>}

AccessInit ==
    /\ Init
    /\ scan = "no" /\ constants = {} /\ default_key = None /\ n_directives = 0
    /\ pc = "config" /\ req = NoRequest /\ q = NoQuery
    /\ idxobj = NoObject /\ col = None /\ bound = << >>
    /\ answer = "none" /\ fault = "none"

-----------------------------------------------------------------------------
(* The section                                                               *)

Directive ==
    /\ pc = "config" /\ n_directives < MaxDirectives
    /\ n_directives' = n_directives + 1
    /\ UNCHANGED <<pc, outcome, locals>>

\* PrimaryKey, UniqueIndex, OrderedIndex, Filter and PathInfo.  Bound: the least
\* name that is new comes first; Lookup is about the order of names.
keyDirective ==
    /\ Directive /\ Next
    /\ \A n \in DOMAIN keys', c \in Columns :
          c < keys'[n].name => \E m \in DOMAIN keys' : keys'[m].name = c
    /\ UNCHANGED <<scan, constants, default_key>>

\* Table name SCAN, or SCAN and the name of an ordered index; that name is in a
\* record of its own, dir->index_scan.  Bound: once.
table ==
    /\ Directive /\ ~ hung /\ scan = "no"
    /\ scan' \in {"table", "index"}
    /\ UNCHANGED <<vars, constants, default_key>>

\* index_constant(): for an ordered index that exists; any other is an error.
\* Bound: an index has one constant.
index_constant(i) ==
    /\ Directive /\ ~ hung
    /\ IndexType[i] = "O" /\ i \notin constants /\ \E n \in DOMAIN indexes : indexes[n].name = i
    /\ constants' = constants \union {i}
    /\ default_key' = IndexId(indexes, i)
    /\ UNCHANGED <<vars, scan>>

-----------------------------------------------------------------------------
(* The plan                                                                  *)

isInsert(r) == r.method = "POST" /\ ~ r.query /\ pathinfo = << >>

\* Mutant: the default key has no plan of its own.
FirstPlan_NoKeyPlan(r) ==
    LET byMethod == [NoItems EXCEPT !.plan = IF isInsert(r) THEN PrimaryKey ELSE @]
        byScan == IF scan = "no" THEN byMethod ELSE [byMethod EXCEPT !.plan = Scan]
    IN IF default_key = None THEN byScan
       ELSE [byScan EXCEPT !.active_index = default_key]

\* the query items before the URL is read
FirstPlan(r) ==
    LET byMethod == [NoItems EXCEPT !.plan = IF isInsert(r) THEN PrimaryKey ELSE @]
        byScan == IF scan = "no" THEN byMethod ELSE [byMethod EXCEPT !.plan = Scan]
    IN IF default_key = None THEN byScan
       ELSE [byScan EXCEPT !.active_index = default_key,
                           !.plan = IF indexes[default_key].name \in constants
                                    THEN OrderedIndexScan ELSE @]

\* ... and once it is read
Planned(r) ==
    LET byArgs == setArguments(FirstPlan(r), r.args)
    IN IF usesPath(byArgs, r.always)
       THEN setPath(byArgs, r.depth) ELSE byArgs

\* Query() returns an error, and its local variables are gone.
Return(code) ==
    /\ pc' = "answered" /\ answer' = code
    /\ req' = NoRequest /\ q' = NoQuery
    /\ idxobj' = NoObject /\ col' = None /\ bound' = << >>
    /\ UNCHANGED fault

\* ... or comes to its end, or to that of the child.
End == pc' = "answered" /\ answer' = "built" /\ UNCHANGED <<fault, locals>>

Die(cause) == pc' = "answered" /\ answer' = "died" /\ fault' = cause /\ UNCHANGED locals

Goto(label) == pc' = label /\ UNCHANGED outcome

\* The part of Query() that needs no transaction.  It returns at once when the
\* table is not found, the request is malformed, it is one read too many or a
\* DELETE that is not allowed.
Query(r) ==
    /\ pc = "config" /\ ~ hung
    /\ \/ Return("refused")
       \/ /\ Goto("plan")
          /\ req' = r /\ q' = Planned(r)
          /\ UNCHANGED <<idxobj, col, bound>>
    /\ UNCHANGED directives

\* "a GET query must have some kind of plan" (abort2)
hasPlan == (req.method # "GET" /\ ~ req.sub) \/ scan # "no" \/ q.active_index # None

noPlan ==
    /\ pc = "plan" /\ ~ hasPlan
    /\ Return("404")
    /\ UNCHANGED directives

\* which index_object the plan calls for; "missing" when there is no index
ObjectKind ==
    CASE q.plan = Scan -> IF scan = "index" THEN "ordered" ELSE "table"
      [] q.plan = PrimaryKey -> "pk"
      [] q.plan \notin {Scan, PrimaryKey} /\ q.active_index = None -> "missing"
      [] q.plan = UniqueIndexAccess /\ q.active_index # None -> "unique"
      [] q.plan = OrderedIndexScan /\ q.active_index # None -> "ordered"
      [] OTHER -> "none"

\* NDB knows no such index, or it is of another type: bad_index, abort1.
index_object ==
    /\ pc = "plan" /\ hasPlan
    /\ \/ ObjectKind \notin {"pk", "table"} /\ Return("500")
       \/ /\ ObjectKind # "missing"
          /\ Goto("operation")
          /\ idxobj' = [NoObject EXCEPT !.kind = ObjectKind]
          /\ UNCHANGED <<req, q, col, bound>>
    /\ UNCHANGED directives

usesKey == q.plan # Scan /\ q.active_index # None

\* q->idxobj->get_ndb_operation() and op_setup(), which uses the operation without
\* a look whether NDB gave one
get_ndb_operation ==
    /\ pc = "operation"
    /\ IF idxobj.kind = "none" THEN Die("object")
       ELSE \/ Die("operation")
            \/ Return("404")
            \/ /\ Goto(IF usesKey THEN "parts" ELSE "filters")
               /\ \E n \in IF idxobj.kind = "table" THEN {0} ELSE 1..MaxParts :
                    idxobj' = [idxobj EXCEPT !.n_parts = n]
               /\ col' = IF usesKey THEN indexes[q.active_index].first_col ELSE None
               /\ UNCHANGED <<req, q, bound>>
    /\ UNCHANGED directives

-----------------------------------------------------------------------------
(* The key                                                                   *)

\* Mutant: the parts are counted before the one that was bound.
next_key_part_Early(o) == o.key_part + 1 < o.n_parts - 1

\* next_key_part(): all but the ordered index compare before they increment
next_key_part(o) ==
    IF o.kind = "ordered" THEN o.parts_used < o.n_parts ELSE o.key_part < o.n_parts

inParts == pc = "parts" /\ col # None /\ q.used > 0

\* One turn of the loop.  A column that NDB does not have is a null pointer,
\* which PK_index_object::get_column() dereferences and MySQL::value() does not.
\* A value that is null is bound as null or refused, by the column's type; for a
\* column of bytes value() wants binary_value(), of which mval_is_usable() does not
\* know: assert(0).
set_key_part ==
    LET exists == idxobj.key_part < idxobj.n_parts
        ordered == idxobj.kind = "ordered"
        set == [idxobj EXCEPT !.parts_used = IF ordered THEN @ + 1 ELSE @]
    IN /\ inParts
       /\ \/ /\ exists
             /\ Goto(IF next_key_part(set) THEN "parts" ELSE "constants")
             /\ q' = [q EXCEPT !.used = @ - 1]
             /\ bound' = Append(bound, <<idxobj.key_part, q.value[col]>>)
             /\ idxobj' = [set EXCEPT !.key_part = @ + 1]
             /\ col' = keys[col].next_in_key
             /\ UNCHANGED req
          \/ (exists \/ idxobj.kind # "pk") /\ Return("500")
          \/ exists /\ Die("binary key")
          \/ ~ exists /\ idxobj.kind = "pk" /\ Die("key column")
       /\ UNCHANGED directives

\* a bound on a column that is given by its name: its part is not known
Constant == <<None, <<"constant", 0>>>>

\* the loop is over, and the constants of the index are bound
set_constants ==
    LET has == indexes[q.active_index].name \in constants
    IN /\ pc = "constants" \/ (pc = "parts" /\ ~ inParts)
       /\ \/ /\ Goto("filters")
             /\ bound' = IF has THEN Append(bound, Constant) ELSE bound
             /\ UNCHANGED <<req, q, idxobj, col>>
          \/ has /\ (Return("500") \/ Die("binary key"))
       /\ UNCHANGED directives

\* NdbScanFilter, and the action.  A filter and a result on a column that the
\* table does not have dereference a null pointer, and so do a read and a write of
\* a blob for which NDB gives no handle.
filtered == q.plan >= Scan /\ q.filters # << >>

op_action ==
    /\ pc = "filters"
    /\ \/ End
       \/ Return("500")
       \/ filtered /\ Die("filter column")
       \/ req.method = "GET" /\ Die("result column")
       \/ req.method \in {"GET", "POST"} /\ Die("blob handle")
    /\ UNCHANGED directives

AccessNext ==
    \/ keyDirective \/ table \/ \E i \in Indexes : index_constant(i)
    \/ \E r \in URLs : Query(r)
    \/ noPlan \/ index_object \/ get_ndb_operation
    \/ set_key_part \/ set_constants \/ op_action

AccessSpec == AccessInit /\ [][AccessNext]_avars

-----------------------------------------------------------------------------
(* Properties                                                                *)

\* The section and its index_object have their types; key_part counts the
\* parts bound (index_object.h).
AccessTypeOK ==
    /\ TypeOK
    /\ scan \in {"no", "table", "index"} /\ constants \subseteq Indexes
    /\ default_key \in DOMAIN indexes \union {None}
    /\ pc \in {"config", "plan", "operation", "parts", "constants", "filters", "answered"}
    /\ q.plan \in {NoPlan, PrimaryKey, UniqueIndexAccess, Scan, OrderedIndexScan}
    /\ q.active_index \in DOMAIN indexes \union {None}
    /\ idxobj.kind \in {"none", "pk", "unique", "ordered", "table"}
    /\ idxobj.n_parts \in 0..MaxParts /\ idxobj.key_part \in 0..idxobj.n_parts
    /\ col \in DOMAIN keys \union {None}
    /\ answer \in {"none", "refused", "404", "500", "died", "built"}
    /\ fault \in Faults

\* What the request gives, and the parts that the section declares for the index
\* it uses.
GivenHere == Given(req, KeyNames)
Parts == DeclaredParts[indexes[q.active_index].name]

\* The query items of a request that names the first n parts of its index, each
\* once and nothing else, become bounds on these parts, each with the value the
\* URL gives it, and no others but the section's constants; the loop stops there
\* although it counts names, not parts (Query.cc:429).  Not so once an index has
\* named a column of its own again: its chain is no list of its parts.
PrefixIsBound ==
    answer = "built" /\ usesKey /\ ~ twice =>
        \A n \in 0..Len(Parts) :
            LET onPath == usesPath(setArguments(FirstPlan(req), req.args), req.always)
                names == req.args \o (IF onPath
                           THEN [k \in 1..req.depth |->
                                    keys[pathinfo[Len(pathinfo) + 1 - k].id].name]
                           ELSE << >>)
            IN /\ Len(names) = n /\ n <= idxobj.n_parts
               /\ {names[k] : k \in 1..n} = {Parts[p] : p \in 1..n}
               => bound = [p \in 1..n |-> <<p - 1, GivenHere[Parts[p]]>>]
                          \o (IF indexes[q.active_index].name \in constants
                              THEN <<Constant>> ELSE << >>)

\* Of the null pointers of this part of Query() some are NDB's answer or the
\* table's schema (an operation, a blob handle, a column that is not there or is of
\* bytes), which no configuration excludes.  Two are not: no order of directives and
\* arguments leaves a plan without the object it needs (Query.cc:373-416), and the
\* loop over the key asks the table for a column it does not have only when the
\* section declares more key columns than the primary key has, each of these is
\* bound, and the URL names one more (index_object.h:64), or when an index named a
\* column again.  A filter's column is looked up in a scan only (Query.cc:481).
DeathHasACause ==
    answer = "died" =>
        /\ fault # "object"
        /\ fault = "key column" =>
              \/ twice
              \/ /\ idxobj.kind = "pk" /\ Len(Parts) > idxobj.n_parts
                 /\ Len(bound) = idxobj.n_parts
        /\ fault = "filter column" => idxobj.kind \in {"ordered", "table"}
=============================================================================
