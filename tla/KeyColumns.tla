----------------------------- MODULE KeyColumns -----------------------------
(* The key columns of a <Location> section: how the directives of httpd.conf *)
(* build config::dir (config.cc) and how Query() (Query.cc) turns the names  *)
(* in a URL into an index lookup.                                            *)
(*                                                                           *)
(* dir->key_columns is an array kept in the order of the names, so that a    *)
(* request can search it by bisection.  Indexes and PathInfo refer to        *)
(* columns by their place in it; an insertion moves the columns, and every   *)
(* such reference is then recomputed from the column's serial number, which  *)
(* never changes.  Arrays count from 0, and -1 is "no column".               *)
EXTENDS Integers, Sequences, FiniteSets, SequencesExt

CONSTANTS Columns,     \* column names: numbers, ordered as strcmp orders them
          Indexes,     \* index names
          IndexType,   \* IndexType[i]: "P", "U" or "O"
          MaxPath,     \* most columns in a PathInfo directive
          Reuse        \* may an index name a column that is another's?

ASSUME KeyColumnsAssumption ==
    /\ Columns \subseteq Nat
    /\ IndexType \in [Indexes -> {"P", "U", "O"}]
    /\ MaxPath \in Nat
    /\ Reuse \in BOOLEAN

VARIABLES keys,       \* dir->key_columns
          indexes,    \* dir->indexes
          pathinfo,   \* dir->pathinfo and dir->pathinfo_size
          hung,       \* is a directive in a loop it never leaves?
          twice       \* history: has an index named a column of its own again?

vars == <<keys, indexes, pathinfo, hung, twice>>

None == -1

\* implied_plan of a column of an index of each type (mod_ndb.h AccessPlan)
ImpliedPlan == [P |-> 2, U |-> 3, O |-> 5]
NoPlan == 0

PathSpecs == UNION {[1..n -> Columns] : n \in 1..MaxPath}

Size(f) == Cardinality(DOMAIN f)

Init == /\ keys = << >>
        /\ indexes = << >>
        /\ pathinfo = << >>
        /\ hung = FALSE
        /\ twice = FALSE

-----------------------------------------------------------------------------
(* Chains of columns                                                         *)

\* The columns met from column c on, when next[column] comes after a column.
\* A chain that comes back to itself is cut one column past the array's size.
Walk(K, c, next) ==
    LET walk[n \in Nat] ==
            IF n = 0
            THEN IF c = None THEN << >> ELSE <<c>>
            ELSE LET w == walk[n - 1]
                 IN IF w = << >> \/ next[Last(w)] = None
                    THEN w ELSE Append(w, next[Last(w)])
    IN walk[Size(K)]

Endless(K, chain) == Len(chain) > Size(K)

\* the chain a request follows
Chain(K, index) ==
    Walk(K, index.first_col, [c \in DOMAIN K |-> K[c].next_in_key])

-----------------------------------------------------------------------------
(* add_key_column()                                                          *)

\* a new element of the array, cleared by bzero() but for name and serial_no
NewColumn(name, serial) ==
    [name |-> name, serial_no |-> serial, index_id |-> 0, filter |-> FALSE,
     implied_plan |-> NoPlan, next_in_key |-> 0, next_in_key_serial |-> 0]

\* where the search for the name stops
Place(K, name) ==
    CHOOSE n \in 0..Size(K) :
        /\ n = Size(K) \/ name <= K[n].name
        /\ \A m \in 0..(n - 1) : name > K[m].name

Exists(K, name) == LET n == Place(K, name) IN n < Size(K) /\ K[n].name = name

\* Mutant: the serial number is the array's size once it has grown.
Inserted_NewSize(K, name) ==
    LET p == Place(K, name)
    IN [n \in 0..Size(K) |-> IF n < p THEN K[n]
                             ELSE IF n = p THEN NewColumn(name, Size(K) + 1)
                             ELSE K[n - 1]]

Inserted(K, name) ==
    LET p == Place(K, name)
    IN [n \in 0..Size(K) |-> IF n < p THEN K[n]
                             ELSE IF n = p THEN NewColumn(name, Size(K))
                             ELSE K[n - 1]]

\* idx_map_bucket: from a serial number to the column's place
Bucket(K, serial) == CHOOSE n \in DOMAIN K : K[n].serial_no = serial

\* the chain of an index, found by its serial numbers
SerialChain(K, index) ==
    LET place(serial) == IF serial = None THEN None ELSE Bucket(K, serial)
    IN Walk(K, place(index.first_col_serial),
            [c \in DOMAIN K |-> place(K[c].next_in_key_serial)])

FixKeys(K, I) ==
    LET linked == UNION {Range(SerialChain(K, I[i])) : i \in DOMAIN I}
    IN [n \in DOMAIN K |->
            IF n \in linked /\ K[n].next_in_key_serial # None
            THEN [K[n] EXCEPT !.next_in_key = Bucket(K, K[n].next_in_key_serial)]
            ELSE K[n]]

\* Mutant: only the links from column to column are fixed.
FixIndexes_NotFixed(K, I) == I

FixIndexes(K, I) ==
    [i \in DOMAIN I |->
        IF I[i].first_col_serial = None THEN I[i]
        ELSE [I[i] EXCEPT !.first_col = Bucket(K, I[i].first_col_serial)]]

\* Mutant: PathInfo keeps the places from before the insertion.
FixPath_NotFixed(K, P) == P

FixPath(K, P) == [n \in DOMAIN P |-> [P[n] EXCEPT !.id = Bucket(K, P[n].serial)]]

\* the whole call, on keys, indexes and pathinfo: d.id is what it returns
add_key_column(d, name) ==
    LET p == Place(d.keys, name)
        K == Inserted(d.keys, name)
        moved == p < Size(d.keys)
    IN IF Exists(d.keys, name)
       THEN [d EXCEPT !.id = p, !.exists = TRUE]
       ELSE IF ~ moved
       THEN [d EXCEPT !.keys = K, !.id = p, !.exists = FALSE]
       ELSE [keys |-> FixKeys(K, d.indexes),
             indexes |-> FixIndexes(K, d.indexes),
             pathinfo |-> FixPath(K, d.pathinfo),
             id |-> p, exists |-> FALSE,
             hung |-> d.hung \/ \E i \in DOMAIN d.indexes :
                          Endless(K, SerialChain(K, d.indexes[i]))]

Directory == [keys |-> keys, indexes |-> indexes, pathinfo |-> pathinfo,
              id |-> None, exists |-> FALSE, hung |-> FALSE]

\* the section after a directive: a loop over an endless chain never returns
Become(d) ==
    /\ keys' = d.keys
    /\ indexes' = d.indexes
    /\ pathinfo' = d.pathinfo
    /\ hung' = d.hung

-----------------------------------------------------------------------------
(* Directives                                                                *)

\* get_index_by_name(), and build_index_record() if there is none
IndexId(I, name) ==
    IF \E i \in DOMAIN I : I[i].name = name
    THEN CHOOSE i \in DOMAIN I : I[i].name = name
    ELSE Size(I)

WithIndex(I, name) ==
    IF IndexId(I, name) < Size(I) THEN I
    ELSE [i \in 0..Size(I) |->
            IF i < Size(I) THEN I[i]
            ELSE [name |-> name, first_col |-> None,
                  first_col_serial |-> None, n_columns |-> 0]]

\* Mutant: the links are left as they are.
add_column_to_index_KeepsLinks(d, i, name) ==
    LET a == add_key_column(d, name)
    IN [a EXCEPT !.keys[a.id] =
            [@ EXCEPT !.index_id = i,
                      !.implied_plan = ImpliedPlan[IndexType[d.indexes[i].name]]]]

add_column_to_index(d, i, name) ==
    LET a == add_key_column(d, name)
    IN [a EXCEPT !.keys[a.id] =
            [@ EXCEPT !.index_id = i,
                      !.implied_plan = ImpliedPlan[IndexType[d.indexes[i].name]],
                      !.next_in_key_serial = None,
                      !.next_in_key = None]]

\* named_idx(): the column goes to the end of the index's chain
named_idx(d, i, name) ==
    LET a == add_column_to_index(d, i, name)
        col == a.id
        serial == a.keys[col].serial_no
        I == [a.indexes EXCEPT ![i].n_columns = @ + 1]
        chain == Chain(a.keys, I[i])
    IN IF I[i].first_col = None
       THEN [a EXCEPT !.indexes = [I EXCEPT ![i] =
                [@ EXCEPT !.first_col = col, !.first_col_serial = serial]]]
       ELSE IF Endless(a.keys, chain)
       THEN [a EXCEPT !.indexes = I, !.hung = TRUE]
       ELSE [a EXCEPT !.indexes = I,
                      !.keys[Last(chain)] =
                        [@ EXCEPT !.next_in_key = col,
                                  !.next_in_key_serial = serial]]

\* PrimaryKey, UniqueIndex and OrderedIndex, called for one column at a time.  A
\* column that is on the index's chain is taken again, with a warning: its link
\* is cut, which makes it the end of the chain, and the end is linked to it.
\* Bound: in a section this happens once.
named_index(index, name) ==
    LET i == IndexId(indexes, index)
        d == [Directory EXCEPT !.indexes = WithIndex(indexes, index)]
        again == \E n \in Range(Chain(keys, d.indexes[i])) : keys[n].name = name
    IN /\ ~ hung
       /\ \A n \in DOMAIN keys :
             keys[n].name = name /\ keys[n].implied_plan # NoPlan
                => Reuse \/ keys[n].index_id = i
       /\ again => ~ twice
       /\ twice' = (twice \/ again)
       /\ Become(named_idx(d, i, name))

\* Filter column operator name: a name that is taken is an error, and an error
\* in httpd.conf ends the program
filter(name) ==
    LET d == add_key_column(Directory, name)
    IN /\ ~ hung
       /\ ~ d.exists
       /\ Become([d EXCEPT !.keys[d.id] = [@ EXCEPT !.filter = TRUE]])
       /\ UNCHANGED twice

\* PathInfo col/col: the array is new, and filled while columns are added.
\* Bound: a section has one PathInfo directive.
PathInfo(spec) ==
    LET empty == [n \in DOMAIN spec |-> [id |-> 0, serial |-> 0]]
        fill(d, n) ==
            LET a == add_key_column(d, spec[n])
            IN [a EXCEPT !.pathinfo[n] =
                    [id |-> a.id, serial |-> a.keys[a.id].serial_no]]
        filled[n \in 0..Len(spec)] ==
            IF n = 0 THEN [Directory EXCEPT !.pathinfo = empty]
            ELSE fill(filled[n - 1], n)
    IN /\ ~ hung
       /\ pathinfo = << >>
       /\ Become(filled[Len(spec)])
       /\ UNCHANGED twice

Next == \/ \E i \in Indexes, c \in Columns : named_index(i, c)
        \/ \E c \in Columns : filter(c)
        \/ \E s \in PathSpecs : PathInfo(s)

Spec == Init /\ [][Next]_vars
=============================================================================
