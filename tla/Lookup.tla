------------------------------- MODULE Lookup -------------------------------
(* How Query() (Query.cc) reads the key columns that KeyColumns builds: the  *)
(* names in the URL are searched in the array, the columns found choose an   *)
(* access plan and an index, and the chain of the index gives the order in   *)
(* which values are bound to the parts of the key.  The properties compare   *)
(* this, for every request and every section that can be configured, with    *)
(* what the section declares.                                                *)
EXTENDS KeyColumns

CONSTANTS MaxArgs      \* most name=value pairs in the URL's query string

ASSUME LookupAssumption == MaxArgs \in Nat

\* A request gives a list of arguments, named by column, and the last "depth"
\* parts of a path; "always" is the section's flag, which no directive but
\* PathInfo sets and nothing but Query() reads.  A value is known by where it
\* comes from.
Requests == [args : UNION {[1..n -> Columns] : n \in 0..MaxArgs},
             depth : 0..MaxPath, always : BOOLEAN]

Arg(n) == <<"arg", n>>
PathPart(n) == <<"path", n>>
NULL == <<"null", 0>>

-----------------------------------------------------------------------------
(* Query()                                                                   *)

\* Mutant: the search stops when the bounds meet.
key_col_bin_search_Early(name) ==
    LET mid(b) == (b.low + b.high) \div 2
        over(b) == b.low >= b.high
        turn(b) == IF over(b) \/ keys[mid(b)].name = name THEN b
                   ELSE IF name < keys[mid(b)].name THEN [b EXCEPT !.high = mid(b) - 1]
                   ELSE [b EXCEPT !.low = mid(b) + 1]
        bounds[n \in Nat] == IF n = 0 THEN [low |-> 0, high |-> Size(keys) - 1]
                             ELSE turn(bounds[n - 1])
        end == bounds[Size(keys)]
    IN IF over(end) THEN None ELSE mid(end)

\* key_col_bin_search(): the pair of bounds closes in on the name.  The loop has
\* no more turns than the array has columns; here one that is done turns idle.
key_col_bin_search(name) ==
    LET mid(b) == (b.low + b.high) \div 2
        over(b) == b.low > b.high
        turn(b) == IF over(b) \/ keys[mid(b)].name = name THEN b
                   ELSE IF name < keys[mid(b)].name THEN [b EXCEPT !.high = mid(b) - 1]
                   ELSE [b EXCEPT !.low = mid(b) + 1]
        bounds[n \in Nat] == IF n = 0 THEN [low |-> 0, high |-> Size(keys) - 1]
                             ELSE turn(bounds[n - 1])
        end == bounds[Size(keys)]
    IN IF over(end) THEN None ELSE mid(end)

\* Query() at its start: no value, no plan and no index
NoItems == [value |-> [n \in DOMAIN keys |-> NULL], used |-> 0,
            filters |-> << >>, plan |-> NoPlan, active_index |-> None]

\* Mutant: the last column that belongs to an index chooses the plan.
set_key_LastWins(q, n, value) ==
    LET better == keys[n].implied_plan # NoPlan
    IN [value |-> [q.value EXCEPT ![n] = value],
        used |-> q.used + 1,
        filters |-> IF keys[n].filter THEN Append(q.filters, n) ELSE q.filters,
        plan |-> IF better THEN keys[n].implied_plan ELSE q.plan,
        active_index |-> IF better THEN keys[n].index_id ELSE q.active_index]

set_key(q, n, value) ==
    LET better == keys[n].implied_plan > q.plan
    IN [value |-> [q.value EXCEPT ![n] = value],
        used |-> q.used + 1,
        filters |-> IF keys[n].filter THEN Append(q.filters, n) ELSE q.filters,
        plan |-> IF better THEN keys[n].implied_plan ELSE q.plan,
        active_index |-> IF better THEN keys[n].index_id ELSE q.active_index]

setArguments(q, args) ==
    LET take(p, a) ==
            LET n == key_col_bin_search(args[a])
            IN IF n = None THEN p ELSE set_key(p, n, Arg(a))
        taken[n \in 0..Len(args)] == IF n = 0 THEN q ELSE take(taken[n - 1], n)
    IN taken[Len(args)]

usesPath(q, always) == Len(pathinfo) > 0 /\ (q.plan = NoPlan \/ always)

\* Mutant: the path is read from its left end.
setPath_FromLeft(q, depth) ==
    LET parts == IF depth < Len(pathinfo) THEN depth ELSE Len(pathinfo)
        take(p, k) == set_key(p, pathinfo[k].id, PathPart(Len(pathinfo) + 1 - k))
        taken[n \in 0..parts] == IF n = 0 THEN q ELSE take(taken[n - 1], n)
    IN taken[parts]

\* the path is read from its right end, with the last PathInfo column first
setPath(q, depth) ==
    LET parts == IF depth < Len(pathinfo) THEN depth ELSE Len(pathinfo)
        take(p, k) == LET n == Len(pathinfo) + 1 - k
                      IN set_key(p, pathinfo[n].id, PathPart(n))
        taken[n \in 0..parts] == IF n = 0 THEN q ELSE take(taken[n - 1], n)
    IN taken[parts]

\* the query items of a request, once its access plan is chosen
Items(req) == LET q == setArguments(NoItems, req.args)
              IN IF usesPath(q, req.always) THEN setPath(q, req.depth) ELSE q

\* <<column name, value>> for each part of the key, in the order it is bound
Bound(q) ==
    LET chain == Chain(keys, indexes[q.active_index])
        parts == IF q.used < Len(chain) THEN q.used ELSE Len(chain)
    IN [p \in 1..parts |-> <<keys[chain[p]].name, q.value[chain[p]]>>]

-----------------------------------------------------------------------------
(* What the section declares, read off its key columns                       *)

Names(chain) == [p \in DOMAIN chain |-> keys[chain[p]].name]

DeclaredParts ==
    [i \in Indexes |->
        IF \E n \in DOMAIN indexes : indexes[n].name = i
        THEN Names(Chain(keys, indexes[IndexId(indexes, i)]))
        ELSE << >>]

KeyNames == UNION {Range(DeclaredParts[i]) : i \in Indexes}

Declared == INSTANCE Declarations
    WITH parts <- DeclaredParts,
         filters <- {keys[n].name : n \in {m \in DOMAIN keys : keys[m].filter}},
         path <- [n \in DOMAIN pathinfo |-> keys[pathinfo[n].id].name],
         repeated <- twice

-----------------------------------------------------------------------------
(* Properties                                                                *)

\* Every value is of its type, and every link leads to a column.
TypeOK ==
    LET Place0 == DOMAIN keys \union {None}
    IN /\ DOMAIN keys = 0..(Size(keys) - 1)
       /\ \A n \in DOMAIN keys :
             /\ keys[n].name \in Columns
             /\ keys[n].serial_no \in DOMAIN keys
             /\ keys[n].filter \in BOOLEAN
             /\ keys[n].implied_plan \in {0, 2, 3, 5}
             /\ keys[n].next_in_key \in Place0 \union {0}
             /\ keys[n].next_in_key_serial \in Place0 \union {0}
       /\ \A i \in DOMAIN indexes :
             /\ indexes[i].name \in Indexes
             /\ indexes[i].first_col \in Place0
             /\ indexes[i].first_col_serial \in Place0
       /\ \A n \in DOMAIN pathinfo : pathinfo[n].id \in DOMAIN keys
       /\ hung \in BOOLEAN /\ twice \in BOOLEAN

\* Each directive does to the section what it says and nothing else: it adds
\* its column at the end of the index it names, adds its filter or replaces
\* the path.  No insertion into the array, wherever it falls, loses, swaps or
\* redirects a column of another directive (add_key_column(), config.cc:278).
\* Nothing is said of a section after an index has named a column twice.
ImplementsDeclarations == Declared!Spec

\* The array holds each name once, and the search of a request finds the name
\* if it is there and nothing if it is not (Query.cc:689).
SearchFindsColumns ==
    \A c \in Columns :
        LET n == key_col_bin_search(c)
        IN IF n = None
           THEN \A m \in DOMAIN keys : keys[m].name # c
           ELSE {m \in DOMAIN keys : keys[m].name = c} = {n}

\* The links by place and the links by serial number lead to the same columns,
\* so that the next insertion, which rebuilds the first from the second,
\* changes no chain; and every chain ends, so that no directive hangs, until an
\* index names a column of its own again, the one way to make a chain endless
\* (named_idx(), config.cc:648; add_key_column(), config.cc:307).
LinksAgree ==
    ~ twice =>
        /\ ~ hung
        /\ \A i \in DOMAIN indexes :
              /\ Chain(keys, indexes[i]) = SerialChain(keys, indexes[i])
              /\ ~ Endless(keys, Chain(keys, indexes[i]))
        /\ \A n \in DOMAIN pathinfo :
              keys[pathinfo[n].id].serial_no = pathinfo[n].serial

\* The names a request gives a value, and the value: an argument that comes
\* again replaces the earlier one, and a path replaces an argument.
Given(req, keyNames) ==
    LET onPath == req.always \/ ~ \E a \in DOMAIN req.args : req.args[a] \in keyNames
        places(c) == {n \in DOMAIN pathinfo :
                        /\ onPath
                        /\ n > Len(pathinfo) - req.depth
                        /\ keys[pathinfo[n].id].name = c}
        args(c) == {a \in DOMAIN req.args : req.args[a] = c}
        least(S) == CHOOSE n \in S : \A m \in S : n <= m
        last(S) == CHOOSE n \in S : \A m \in S : n >= m
    IN [c \in Columns |->
            IF places(c) # {} THEN PathPart(least(places(c)))
            ELSE IF args(c) # {} THEN Arg(last(args(c)))
            ELSE NULL]

\* P(parts, q, given) for every request of a section in which no index names a
\* column twice: the parts the section declares, the query items and the values
\* the request gives
EveryLookup(P(_, _, _)) ==
    LET parts == DeclaredParts
        names == KeyNames
    IN ~ twice => \A req \in Requests : P(parts, Items(req), Given(req, names))

\* A request that gives a value to every part of the index it uses looks up
\* that key: each part, in the order of the declaration, gets the value the
\* URL gives it, whatever the order of the arguments, the unknown names and
\* filters among them and the path (Query.cc:155, 429).
CompleteKeyIsBound ==
    EveryLookup(LAMBDA parts, q, given :
        q.active_index # None =>
            LET key == parts[indexes[q.active_index].name]
            IN (\A p \in DOMAIN key : given[key[p]] # NULL)
               => Bound(q) = [p \in DOMAIN key |-> <<key[p], given[key[p]]>>])

\* The index a request uses has a part among the names it gives, and no name
\* it gives belongs to an index of a better kind; a request that names no part
\* of an index uses none (Query.cc:170).
BestIndexIsUsed ==
    EveryLookup(LAMBDA parts, q, given :
        LET named == {i \in Indexes : \E p \in DOMAIN parts[i] :
                                          given[parts[i][p]] # NULL}
            plan(i) == ImpliedPlan[IndexType[i]]
        IN IF q.active_index = None
           THEN named = {}
           ELSE /\ indexes[q.active_index].name \in named
                /\ q.plan = plan(indexes[q.active_index].name)
                /\ \A i \in named : plan(i) <= q.plan)

-----------------------------------------------------------------------------
(* What a comment says and the code does not do                              *)

\* "Follow the chain to the end" (config.cc:649): a chain has an end, and the
\* directive that follows it returns.
DirectivesReturn == ~ hung
=============================================================================
