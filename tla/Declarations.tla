---------------------------- MODULE Declarations ----------------------------
(* What a <Location> section of httpd.conf declares about its key columns,   *)
(* with no thought for how mod_ndb stores it: the columns of each index in   *)
(* the order they were named, the filter parameters, and what the rightmost  *)
(* parts of a URL mean.  KeyColumns implements it.                           *)
EXTENDS Naturals, Sequences, Functions

CONSTANTS Columns,    \* the names a section may give a column
          Indexes,    \* the names of its indexes
          MaxPath     \* most columns in a PathInfo directive

VARIABLES parts,      \* parts[i]: the columns of index i, in order
          filters,    \* the Filter parameters
          path,       \* the PathInfo columns, from left to right
          repeated    \* has an index been given a column that it had?

declarations == <<path, filters, parts, repeated>>

Init == /\ parts = [i \in Indexes |-> <<>>]
        /\ filters = {}
        /\ path = <<>>
        /\ repeated = FALSE

\* a PathInfo directive replaces the one before
PathInfo == /\ path' \in UNION {[1..n -> Columns] : n \in 1..MaxPath}
            /\ UNCHANGED <<filters, parts>>

Filter == /\ UNCHANGED path
          /\ filters' \in {filters \union {c} : c \in Columns}
          /\ UNCHANGED parts

\* PrimaryKey, UniqueIndex and OrderedIndex add a column at the end of an index
\* that does not have it
Part == /\ UNCHANGED <<path, filters>>
        /\ LET old == parts
               extended(i) == {[old EXCEPT ![i] = Append(@, c)] :
                                   c \in Columns \ Range(old[i])}
           IN parts' \in UNION {extended(i) : i \in Indexes}

Directive == /\ ~ repeated
             /\ UNCHANGED repeated
             /\ Part \/ Filter \/ PathInfo

\* A section in which an index is given a column that it has already declares
\* nothing more: what becomes of its indexes is not said.
Repeat == /\ repeated'
          /\ repeated \/ \E i \in Indexes : parts[i] # <<>>

Next == Repeat \/ Directive

Spec == Init /\ [][Next]_declarations
=============================================================================
