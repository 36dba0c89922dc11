------------------------------ MODULE LookupProofs ------------------------------
(* Theorems about a section whose indexes name no column that is another's:  *)
(* the links by place and by serial number are the same chains, and each     *)
(* directive does to them what it declares; and about its requests: which    *)
(* values the names of a URL give to the columns, which index they choose    *)
(* and which key they look up.                                               *)
EXTENDS SectionProofs

-----------------------------------------------------------------------------
(* The chain of one index                                                    *)

Distinct(s) == \A p, q \in 1..Len(s) : s[p] = s[q] => p = q

\* s is the chain of index x by the serial numbers, and by the places.
SerialLinks(K, x, s) ==
    /\ s = << >> => x.first_col_serial = None
    /\ s # << >> => x.first_col_serial = K[s[1]].serial_no
    /\ \A p \in 1..Len(s) : p < Len(s) =>
            K[s[p]].next_in_key_serial = K[s[p + 1]].serial_no
    /\ s # << >> => K[s[Len(s)]].next_in_key_serial = None

PlaceLinks(K, x, s) ==
    /\ s = << >> => x.first_col = None
    /\ s # << >> => x.first_col = s[1]
    /\ \A p \in 1..Len(s) : p < Len(s) => K[s[p]].next_in_key = s[p + 1]
    /\ s # << >> => K[s[Len(s)]].next_in_key = None

\* A chain that meets no column twice is no longer than the array.
LEMMA DistinctIsShort ==
    ASSUME NEW K, KeysOK(K), NEW s \in Seq(DOMAIN K), Distinct(s)
    PROVE  Len(s) <= Size(K)
<1> DEFINE D == DOMAIN K
           n == Len(s)
<1>1. n \in Nat /\ s \in [1..n -> D]
  OBVIOUS
<1>2. Size(K) \in Nat /\ D = 0..(Size(K) - 1)
  BY ArraySize DEF KeysOK
<1>3. IsFiniteSet(1..n) /\ Cardinality(1..n) = n
  <2>1. n \in Nat
    BY <1>1
  <2> HIDE DEF n
  <2>2. IsFiniteSet(1..n) /\ Cardinality(1..n) = IF 1 > n THEN 0 ELSE n - 1 + 1
    BY <2>1, FS_Interval
  <2> QED
    BY <2>1, <2>2
<1>4. IsFiniteSet(D) /\ Cardinality(D) = Size(K)
  <2>1. IsFiniteSet(0..(Size(K) - 1))
    BY <1>2, FS_Interval
  <2> QED
    BY <1>2, <2>1 DEF Size
<1>5. \A p, q \in 1..n : s[p] = s[q] => p = q
  BY DEF Distinct
<1> HIDE DEF D, n
<1>6. ~(Cardinality(D) < Cardinality(1..n))
  BY <1>1, <1>3, <1>4, <1>5, FS_PigeonHole
<1>7. n <= Size(K)
  BY <1>1, <1>2, <1>3, <1>4, <1>6
<1> QED
  BY <1>7 DEF n

LEMMA PlacesAreColumns ==
    ASSUME NEW K, KeysOK(K)
    PROVE  None \notin DOMAIN K /\ Size(K) \in Nat /\ DOMAIN K \subseteq Nat
<1>1. Size(K) \in Nat /\ DOMAIN K = 0..(Size(K) - 1)
  BY ArraySize DEF KeysOK
<1> QED
  BY <1>1 DEF None

\* Whoever follows the places finds the chain.
LEMMA PlaceChainFound ==
    ASSUME NEW K, KeysOK(K), NEW x, NEW s \in Seq(DOMAIN K), Distinct(s),
           PlaceLinks(K, x, s)
    PROVE  Chain(K, x) = s /\ ~Endless(K, s)
<1> DEFINE D == DOMAIN K
           next == ByPlace(K)
           c == x.first_col
           N == Size(K)
<1>1. None \notin D /\ N \in Nat
  BY PlacesAreColumns
<1>2. next \in [D -> D \union {None}] /\ \A n \in D : next[n] = K[n].next_in_key
  BY NextTypes DEF ByPlace
<1>3. c \in D \union {None}
  <2>1. s # << >> => s[1] \in D
    OBVIOUS
  <2> QED
    BY <2>1 DEF PlaceLinks
<1>4. \A p \in 1..Len(s) : s[p] \in D
  OBVIOUS
<1>5. s # << >> => Len(s) \in 1..Len(s)
  OBVIOUS
<1>6. IsChain(s, c, next)
  <2>1. \A p \in 1..Len(s) : p < Len(s) => next[s[p]] = s[p + 1]
    BY <1>2, <1>4 DEF PlaceLinks
  <2>2. s # << >> => next[s[Len(s)]] = None
    BY <1>2, <1>4, <1>5 DEF PlaceLinks
  <2>3. (s = << >> => c = None) /\ (s # << >> => c = s[1])
    BY DEF PlaceLinks
  <2> HIDE DEF next, c
  <2> QED
    BY <2>1, <2>2, <2>3 DEF IsChain
<1>7. Len(s) <= N /\ Len(s) \in Nat
  BY DistinctIsShort
<1>8. Chain(K, x) = Walk(K, c, next)
  BY ChainIsWalk
<1> HIDE DEF next, c
<1>9. Walk(K, c, next) = s
  <2>1. Len(s) <= N + 1 /\ N = Size(K)
    BY <1>1, <1>7
  <2> HIDE DEF N, D
  <2>2. s \in Seq(D)
    BY DEF D
  <2> QED
    BY <1>1, <1>2, <1>3, <1>6, <2>1, <2>2, WalkFindsChain
<1>10. ~Endless(K, s)
  BY <1>1, <1>7 DEF Endless
<1> QED
  BY <1>8, <1>9, <1>10

\* Whoever follows the serial numbers finds it too.
LEMMA SerialChainFound ==
    ASSUME NEW K, KeysOK(K), NEW x, NEW s \in Seq(DOMAIN K), Distinct(s),
           SerialLinks(K, x, s)
    PROVE  SerialChain(K, x) = s
<1> DEFINE D == DOMAIN K
           next == BySerial(K)
           c == PlaceOf(K, x.first_col_serial)
           N == Size(K)
<1>1. None \notin D /\ N \in Nat
  BY PlacesAreColumns
<1>2. next \in [D -> D \union {None}]
      /\ \A n \in D : next[n] = PlaceOf(K, K[n].next_in_key_serial)
  BY NextTypes DEF BySerial
<1>3. \A n \in D : PlaceOf(K, K[n].serial_no) = n
  <2> SUFFICES ASSUME NEW n \in D PROVE PlaceOf(K, K[n].serial_no) = n
    OBVIOUS
  <2>1. K[n].serial_no \in D
    BY DEF KeysOK, SerialsOK
  <2>2. K[n].serial_no # None
    BY <1>1, <2>1
  <2> QED
    BY <2>2, BucketOfSerial DEF PlaceOf
<1>4. \A p \in 1..Len(s) : s[p] \in D
  OBVIOUS
<1>5. (s # << >> => 1 \in 1..Len(s) /\ Len(s) \in 1..Len(s))
      /\ \A p \in 1..Len(s) : p < Len(s) => p + 1 \in 1..Len(s)
  OBVIOUS
<1>6. (s = << >> => c = None) /\ (s # << >> => c = s[1])
  <2>1. s = << >> => c = None
    BY DEF SerialLinks, PlaceOf
  <2>2. s # << >> => c = s[1]
    BY <1>3, <1>4, <1>5 DEF SerialLinks
  <2> QED
    BY <2>1, <2>2
<1>7. c \in D \union {None}
  BY <1>4, <1>5, <1>6
<1>8. IsChain(s, c, next)
  <2>1. \A p \in 1..Len(s) : p < Len(s) => next[s[p]] = s[p + 1]
    BY <1>2, <1>3, <1>4, <1>5 DEF SerialLinks
  <2>2. s # << >> => next[s[Len(s)]] = None
    BY <1>2, <1>4, <1>5 DEF SerialLinks, PlaceOf
  <2> HIDE DEF next, c
  <2> QED
    BY <1>6, <2>1, <2>2 DEF IsChain
<1>9. Len(s) <= N /\ Len(s) \in Nat
  BY DistinctIsShort
<1>10. SerialChain(K, x) = Walk(K, c, next)
  BY ChainIsWalk
<1> HIDE DEF next, c
<1>11. Walk(K, c, next) = s
  <2>1. Len(s) <= N + 1 /\ N = Size(K)
    BY <1>1, <1>9
  <2> HIDE DEF N, D
  <2>2. s \in Seq(D)
    BY DEF D
  <2> QED
    BY <1>1, <1>2, <1>7, <1>8, <2>1, <2>2, WalkFindsChain
<1> QED
  BY <1>10, <1>11

-----------------------------------------------------------------------------
(* Chains after an insertion                                                 *)

Cols(s) == {s[p] : p \in 1..Len(s)}

\* A chain whose columns have moved
Along(t, s) == [p \in 1..Len(s) |-> t[s[p]]]

LEMMA NamesTellColumns ==
    ASSUME NEW K, KeysOK(K), NEW m \in DOMAIN K, NEW n \in DOMAIN K, K[m].name = K[n].name
    PROVE  m = n
<1>1. DOMAIN K = 0..(Size(K) - 1) /\ Size(K) \in Nat /\ K[m].name \in Nat
  BY ArraySize, NamesAreNumbers DEF KeysOK
<1>2. m < n \/ n < m \/ m = n
  BY <1>1
<1>3. m < n => K[m].name < K[n].name
  BY DEF KeysOK, Sorted
<1>4. n < m => K[n].name < K[m].name
  BY DEF KeysOK, Sorted
<1> QED
  BY <1>1, <1>2, <1>3, <1>4

\* A function that takes columns to their new places
Moves(K, A, t) ==
    /\ t \in [DOMAIN K -> DOMAIN A]
    /\ \A n \in DOMAIN K : Alike(A[t[n]], K[n])

LEMMA MovesApart ==
    ASSUME NEW K, KeysOK(K), NEW A, NEW t, Moves(K, A, t),
           NEW m \in DOMAIN K, NEW n \in DOMAIN K, t[m] = t[n]
    PROVE  m = n
<1>1. K[m].name = K[n].name
  BY DEF Moves, Alike
<1> QED
  BY <1>1, NamesTellColumns

LEMMA AlongType ==
    ASSUME NEW K, NEW A, NEW t, Moves(K, A, t), NEW s \in Seq(DOMAIN K)
    PROVE  /\ Along(t, s) \in Seq(DOMAIN A) /\ Len(Along(t, s)) = Len(s)
           /\ \A p \in 1..Len(s) : Along(t, s)[p] = t[s[p]]
           /\ (Along(t, s) = << >>) <=> (s = << >>)
<1> DEFINE n == Len(s)
           a == Along(t, s)
           D == DOMAIN K
           E == DOMAIN A
<1>1. n \in Nat /\ (\A p \in 1..n : s[p] \in D) /\ t \in [D -> E]
  BY DEF Moves
<1>2. a = [p \in 1..n |-> t[s[p]]]
  BY DEF Along
<1> HIDE DEF n, a, D, E
<1>3. a \in [1..n -> E] /\ \A p \in 1..n : a[p] = t[s[p]]
  BY <1>1, <1>2
<1>4. a \in Seq(E) /\ Len(a) = n
  BY <1>1, <1>3
<1>5. (a = << >>) <=> (s = << >>)
  BY <1>4 DEF n
<1> QED
  BY <1>3, <1>4, <1>5 DEF n, a, E

LEMMA AlongCols ==
    ASSUME NEW K, NEW A, NEW t, Moves(K, A, t), NEW s \in Seq(DOMAIN K)
    PROVE  Cols(Along(t, s)) = {t[n] : n \in Cols(s)}
<1>1. Len(Along(t, s)) = Len(s) /\ \A p \in 1..Len(s) : Along(t, s)[p] = t[s[p]]
  BY AlongType
<1> QED
  BY <1>1 DEF Cols

LEMMA MovedSerialLinks ==
    ASSUME NEW K, KeysOK(K), NEW A, NEW t, Moves(K, A, t),
           NEW s \in Seq(DOMAIN K), Distinct(s),
           NEW x, SerialLinks(K, x, s), NEW y, y.first_col_serial = x.first_col_serial
    PROVE  /\ Along(t, s) \in Seq(DOMAIN A) /\ Distinct(Along(t, s))
           /\ SerialLinks(A, y, Along(t, s))
<1> DEFINE a == Along(t, s)
           n == Len(s)
<1>1. /\ a \in Seq(DOMAIN A) /\ Len(a) = n
      /\ \A p \in 1..n : a[p] = t[s[p]]
      /\ (a = << >>) <=> (s = << >>)
  BY AlongType
<1>2. /\ n \in Nat /\ \A p \in 1..n : s[p] \in DOMAIN K
      /\ s # << >> => 1 \in 1..n /\ n \in 1..n
      /\ \A p \in 1..n : p < n => p + 1 \in 1..n
  OBVIOUS
<1>3. \A c \in DOMAIN K : /\ A[t[c]].serial_no = K[c].serial_no
                          /\ A[t[c]].next_in_key_serial = K[c].next_in_key_serial
  BY DEF Moves, Alike
<1> HIDE DEF a, n
<1>4. Distinct(a)
  <2> SUFFICES ASSUME NEW p \in 1..n, NEW q \in 1..n, a[p] = a[q] PROVE p = q
    BY <1>1 DEF Distinct
  <2>1. s[p] = s[q]
    BY <1>1, <1>2, MovesApart
  <2> QED
    BY <2>1 DEF Distinct, n
<1>5. SerialLinks(A, y, a)
  <2>1. a = << >> => y.first_col_serial = None
    BY <1>1 DEF SerialLinks
  <2>2. a # << >> => y.first_col_serial = A[a[1]].serial_no
    BY <1>1, <1>2, <1>3 DEF SerialLinks
  <2>3. \A p \in 1..n : p < n => A[a[p]].next_in_key_serial = A[a[p + 1]].serial_no
    BY <1>1, <1>2, <1>3 DEF SerialLinks, n
  <2>4. a # << >> => A[a[n]].next_in_key_serial = None
    BY <1>1, <1>2, <1>3 DEF SerialLinks, n
  <2> QED
    BY <1>1, <2>1, <2>2, <2>3, <2>4 DEF SerialLinks
<1> QED
  BY <1>1, <1>4, <1>5 DEF a

\* An insertion in the middle of the array leads each chain along its new places.
LEMMA FixedPlaceLinks ==
    ASSUME NEW K, KeysOK(K), NEW I \in Array(Index), IndexesOK(I, K), NEW i \in DOMAIN I,
           NEW s \in Seq(DOMAIN K), Distinct(s), SerialLinks(K, I[i], s),
           s = << >> => I[i].first_col = None,
           s # << >> => K[s[Len(s)]].next_in_key = None
    PROVE  PlaceLinks(FixKeys(K, I), FixIndexes(K, I)[i], s)
<1> DEFINE F == FixKeys(K, I)
           x == FixIndexes(K, I)[i]
           n == Len(s)
           linked == UNION {Range(SerialChain(K, I[j])) : j \in DOMAIN I}
<1>1. /\ n \in Nat /\ \A p \in 1..n : s[p] \in DOMAIN K
      /\ s # << >> => 1 \in 1..n /\ n \in 1..n
      /\ \A p \in 1..n : p < n => p + 1 \in 1..n
  OBVIOUS
<1>2. SerialChain(K, I[i]) = s
  BY SerialChainFound
<1>3. \A p \in 1..n : s[p] \in linked
  <2>1. Range(s) \subseteq linked
    BY <1>2
  <2>2. \A p \in 1..n : s[p] \in Range(s)
    BY <1>1 DEF Range
  <2> QED
    BY <2>1, <2>2
<1>4. \A c \in DOMAIN K : F[c] = IF c \in linked /\ K[c].next_in_key_serial # None
              THEN [K[c] EXCEPT !.next_in_key = Bucket(K, K[c].next_in_key_serial)]
              ELSE K[c]
  BY DEF FixKeys
<1>5. \A c \in DOMAIN K : /\ K[c] \in Column
                          /\ K[c].serial_no \in DOMAIN K /\ K[c].serial_no # None
                          /\ Bucket(K, K[c].serial_no) = c
  <2>1. \A c \in DOMAIN K : K[c] \in Column
    BY ArraySize DEF KeysOK
  <2>2. \A c \in DOMAIN K : K[c].serial_no \in DOMAIN K
    BY DEF KeysOK, SerialsOK
  <2> QED
    BY <2>1, <2>2, PlacesAreColumns, BucketOfSerial
<1>6. x = IF I[i].first_col_serial = None THEN I[i]
          ELSE [I[i] EXCEPT !.first_col = Bucket(K, I[i].first_col_serial)]
  BY DEF FixIndexes
<1>7. I[i] \in Index
  BY ArraySize
<1> HIDE DEF F, x, n, linked
<1>8. s = << >> => x.first_col = None
  BY <1>6 DEF SerialLinks
<1>9. s # << >> => x.first_col = s[1]
  <2> SUFFICES ASSUME s # << >> PROVE x.first_col = s[1]
    OBVIOUS
  <2>1. s[1] \in DOMAIN K /\ I[i].first_col_serial = K[s[1]].serial_no
    BY <1>1 DEF SerialLinks
  <2>2. I[i].first_col_serial # None /\ Bucket(K, I[i].first_col_serial) = s[1]
    BY <1>5, <2>1
  <2>3. x = [I[i] EXCEPT !.first_col = s[1]]
    BY <1>6, <2>2
  <2> QED
    BY <1>7, <2>3 DEF Index
<1>10. \A p \in 1..n : p < n => F[s[p]].next_in_key = s[p + 1]
  <2> SUFFICES ASSUME NEW p \in 1..n, p < n PROVE F[s[p]].next_in_key = s[p + 1]
    OBVIOUS
  <2> DEFINE c == s[p]
             e == s[p + 1]
  <2>1. c \in DOMAIN K /\ e \in DOMAIN K /\ c \in linked
    BY <1>1, <1>3
  <2>2. K[c].next_in_key_serial = K[e].serial_no
    BY DEF SerialLinks, n
  <2> HIDE DEF c, e
  <2>3. K[c].next_in_key_serial # None /\ Bucket(K, K[c].next_in_key_serial) = e
    BY <1>5, <2>1, <2>2
  <2>4. F[c] = [K[c] EXCEPT !.next_in_key = e]
    BY <1>4, <2>1, <2>3
  <2>5. F[c].next_in_key = e
    BY <1>5, <2>1, <2>4 DEF Column
  <2> QED
    BY <2>5 DEF c, e
<1>11. s # << >> => F[s[n]].next_in_key = None
  <2> SUFFICES ASSUME s # << >> PROVE F[s[n]].next_in_key = None
    OBVIOUS
  <2>1. s[n] \in DOMAIN K /\ K[s[n]].next_in_key_serial = None
    BY <1>1 DEF SerialLinks, n
  <2>2. F[s[n]] = K[s[n]]
    BY <1>4, <2>1
  <2> QED
    BY <2>2 DEF n
<1> QED
  BY <1>8, <1>9, <1>10, <1>11 DEF PlaceLinks, F, x, n

-----------------------------------------------------------------------------
(* The chains of all indexes                                                 *)

PlanOf(x) == ImpliedPlan[IndexType[x.name]]

Owned(K, s, i, plan) ==
    \A n \in Cols(s) : K[n].index_id = i /\ K[n].implied_plan = plan

\* s is the chain of index x, which has place i, and all its columns say so.
ChainOK(K, x, i, s) ==
    /\ s \in Seq(DOMAIN K) /\ Distinct(s)
    /\ SerialLinks(K, x, s) /\ PlaceLinks(K, x, s)
    /\ Owned(K, s, i, PlanOf(x))

\* ch holds the chain of each index, and a column with a plan is on one.
Linked(K, I, ch) ==
    /\ DOMAIN ch = DOMAIN I
    /\ \A i \in DOMAIN I : ChainOK(K, I[i], i, ch[i])
    /\ \A n \in DOMAIN K : K[n].implied_plan # NoPlan =>
            \E i \in DOMAIN I : n \in Cols(ch[i])

AlongAll(t, ch) == [i \in DOMAIN ch |-> Along(t, ch[i])]

\* The places in the entries M of PathInfo are those of their serial numbers.
PathSerials(K, P, M) ==
    \A n \in M : /\ P[n].id \in DOMAIN K
                 /\ K[P[n].id].serial_no = P[n].serial

LEMMA ColsType ==
    ASSUME NEW D, NEW s \in Seq(D)
    PROVE  Cols(s) \subseteq D
BY DEF Cols

LEMMA StayedPlaceLinks ==
    ASSUME NEW K, NEW A, NEW s \in Seq(DOMAIN K), NEW x, PlaceLinks(K, x, s),
           \A n \in DOMAIN K : A[n] = K[n]
    PROVE  PlaceLinks(A, x, s)
<1>1. /\ \A p \in 1..Len(s) : s[p] \in DOMAIN K
      /\ s # << >> => Len(s) \in 1..Len(s)
  OBVIOUS
<1> QED
  BY <1>1 DEF PlaceLinks

LEMMA AlongNothing ==
    ASSUME NEW D, NEW t, \A n \in D : t[n] = n, NEW s \in Seq(D)
    PROVE  Along(t, s) = s
<1>1. Len(s) \in Nat /\ \A p \in 1..Len(s) : t[s[p]] = s[p]
  OBVIOUS
<1>2. Along(t, s) = [p \in 1..Len(s) |-> s[p]]
  BY <1>1 DEF Along
<1> QED
  BY <1>2

\* What an insertion keeps whichever place it falls on
LEMMA KeepsMoves ==
    ASSUME NEW d, NEW a, NEW t, Keeps(d, a, t)
    PROVE  Moves(d.keys, a.keys, t)
BY DEF Keeps, Moves

LEMMA MovedOwners ==
    ASSUME NEW K, KeysOK(K), NEW A, NEW t, Moves(K, A, t), NEW s \in Seq(DOMAIN K),
           NEW i, NEW plan, Owned(K, s, i, plan)
    PROVE  Owned(A, Along(t, s), i, plan)
<1>1. Cols(Along(t, s)) = {t[n] : n \in Cols(s)}
  BY AlongCols
<1>2. Cols(s) \subseteq DOMAIN K
  BY ColsType
<1> QED
  BY <1>1, <1>2 DEF Moves, Alike, Owned

\* The column that is added belongs to no index.
LEMMA OldColumnsHavePlans ==
    ASSUME NEW d, NEW a, NEW name, LET t == Moved(d.keys, name)
                                   IN Keeps(d, a, t) /\ HasColumn(d, a, name),
           NEW n \in DOMAIN a.keys, a.keys[n].implied_plan # NoPlan
    PROVE  \E m \in DOMAIN d.keys : n = Moved(d.keys, name)[m]
<1>1. CASE n # a.id
  BY <1>1 DEF Keeps
<1>2. CASE n = a.id
  <2>1. a.exists
    BY <1>2 DEF HasColumn, Alike, NewColumn
  <2>2. n \in DOMAIN d.keys /\ Exists(d.keys, name)
    BY <1>2, <2>1 DEF HasColumn
  <2>3. Moved(d.keys, name)[n] = n
    BY <2>2 DEF Moved
  <2> QED
    BY <2>2, <2>3
<1> QED
  BY <1>1, <1>2

LEMMA LinkedAlong ==
    ASSUME NEW d, NEW a, Good(d), NEW name, NEW t, t = Moved(d.keys, name),
           Keeps(d, a, t), HasColumn(d, a, name),
           NEW ch, Linked(d.keys, d.indexes, ch),
           \A i \in DOMAIN d.indexes :
               /\ a.indexes[i].first_col_serial = d.indexes[i].first_col_serial
               /\ PlaceLinks(a.keys, a.indexes[i], Along(t, ch[i]))
    PROVE  Linked(a.keys, a.indexes, AlongAll(t, ch))
<1> DEFINE K == d.keys
           A == a.keys
           c == AlongAll(t, ch)
<1>1. /\ DOMAIN a.indexes = DOMAIN d.indexes /\ DOMAIN ch = DOMAIN d.indexes
      /\ DOMAIN c = DOMAIN d.indexes
      /\ \A i \in DOMAIN d.indexes : c[i] = Along(t, ch[i])
  BY DEF Keeps, Linked, AlongAll
<1>2. Moves(K, A, t) /\ KeysOK(K)
  BY KeepsMoves DEF Good
<1>3. ASSUME NEW i \in DOMAIN d.indexes
      PROVE  ChainOK(A, a.indexes[i], i, c[i])
  <2> DEFINE s == ch[i]
             x == d.indexes[i]
             y == a.indexes[i]
  <2>1. ChainOK(K, x, i, s)
    BY DEF Linked
  <2>2. y.first_col_serial = x.first_col_serial /\ PlanOf(y) = PlanOf(x)
    BY DEF Keeps, PlanOf
  <2> HIDE DEF s, x, y, K, A
  <2>3. s \in Seq(DOMAIN K) /\ Distinct(s) /\ SerialLinks(K, x, s)
    BY <2>1 DEF ChainOK
  <2>4. /\ Along(t, s) \in Seq(DOMAIN A) /\ Distinct(Along(t, s))
        /\ SerialLinks(A, y, Along(t, s))
    BY <1>2, <2>2, <2>3, MovedSerialLinks
  <2>5. Owned(A, Along(t, s), i, PlanOf(y))
    <3>1. Owned(K, s, i, PlanOf(y))
      BY <2>1, <2>2 DEF ChainOK
    <3> QED
      BY <1>2, <2>3, <3>1, MovedOwners
  <2>6. PlaceLinks(A, y, Along(t, s))
    BY DEF s, y, A
  <2>7. ChainOK(A, y, i, Along(t, s))
    BY <2>4, <2>5, <2>6 DEF ChainOK
  <2> QED
    BY <1>1, <2>7 DEF s, y, A
<1>4. ASSUME NEW n \in DOMAIN A, A[n].implied_plan # NoPlan
      PROVE  \E i \in DOMAIN d.indexes : n \in Cols(c[i])
  <2>1. PICK m \in DOMAIN K : n = t[m]
    BY <1>4, OldColumnsHavePlans
  <2>2. K[m].implied_plan # NoPlan
    BY <1>2, <1>4, <2>1 DEF Moves, Alike
  <2>3. PICK i \in DOMAIN d.indexes : m \in Cols(ch[i])
    BY <2>2 DEF Linked
  <2>4. ch[i] \in Seq(DOMAIN K)
    BY DEF Linked, ChainOK
  <2> HIDE DEF K, A
  <2>5. n \in Cols(Along(t, ch[i]))
    <3>1. Cols(Along(t, ch[i])) = {t[q] : q \in Cols(ch[i])}
      BY <1>2, <2>4, AlongCols
    <3> QED
      BY <2>1, <2>3, <3>1
  <2> QED
    BY <1>1, <2>5
<1> QED
  BY <1>1, <1>3, <1>4 DEF Linked

LEMMA StayedLinks ==
    ASSUME NEW d, NEW a, Good(d), NEW name, NEW t, t = Moved(d.keys, name),
           Keeps(d, a, t), HasColumn(d, a, name), Stays(d, a, t),
           NEW ch, Linked(d.keys, d.indexes, ch)
    PROVE  Linked(a.keys, a.indexes, AlongAll(t, ch))
<1>1. ASSUME NEW i \in DOMAIN d.indexes
      PROVE  PlaceLinks(a.keys, a.indexes[i], Along(t, ch[i]))
  <2> DEFINE K == d.keys
             x == d.indexes[i]
             s == ch[i]
  <2>1. s \in Seq(DOMAIN K) /\ PlaceLinks(K, x, s)
    BY DEF Linked, ChainOK
  <2>2. a.indexes[i] = x /\ \A n \in DOMAIN K : t[n] = n /\ a.keys[n] = K[n]
    BY DEF Stays
  <2> HIDE DEF K, x, s
  <2>3. Along(t, s) = s
    BY <2>1, <2>2, AlongNothing
  <2>4. PlaceLinks(a.keys, x, s)
    BY <2>1, <2>2, StayedPlaceLinks
  <2> QED
    BY <2>2, <2>3, <2>4 DEF s
<1>2. \A i \in DOMAIN d.indexes :
          a.indexes[i].first_col_serial = d.indexes[i].first_col_serial
  BY DEF Stays
<1> QED
  BY <1>1, <1>2, LinkedAlong

LEMMA PushedLinks ==
    ASSUME NEW d, Good(d), NEW name \in Columns, ~Exists(d.keys, name),
           Place(d.keys, name) < Size(d.keys), ~d.hung,
           NEW ch, Linked(d.keys, d.indexes, ch)
    PROVE  LET a == add_key_column(d, name)
           IN /\ Linked(a.keys, a.indexes, AlongAll(Moved(d.keys, name), ch))
              /\ ~a.hung
<1> DEFINE K == Inserted(d.keys, name)
           I == d.indexes
           a == add_key_column(d, name)
           t == Moved(d.keys, name)
<1>1. /\ Keeps(d, a, t) /\ HasColumn(d, a, name)
      /\ KeysOK(K) /\ IndexesOK(I, K)
      /\ t \in [DOMAIN d.keys -> DOMAIN K]
      /\ \A n \in DOMAIN d.keys : K[t[n]] = d.keys[n]
      /\ a.keys = FixKeys(K, I) /\ a.indexes = FixIndexes(K, I)
      /\ a.hung = (d.hung \/ \E i \in DOMAIN I : Endless(K, SerialChain(K, I[i])))
  BY AddedBefore
<1>2. Moves(d.keys, K, t)
  BY <1>1 DEF Moves, Alike
<1>3. I \in Array(Index) /\ KeysOK(d.keys)
  BY DEF Good, Section
<1> HIDE DEF K, a, t
<1>4. ASSUME NEW i \in DOMAIN I
      PROVE  /\ PlaceLinks(a.keys, a.indexes[i], Along(t, ch[i]))
             /\ ~Endless(K, SerialChain(K, I[i]))
  <2> DEFINE r == ch[i]
             s == Along(t, r)
  <2>1. /\ r \in Seq(DOMAIN d.keys) /\ Distinct(r) /\ SerialLinks(d.keys, I[i], r)
        /\ PlaceLinks(d.keys, I[i], r)
    BY DEF Linked, ChainOK
  <2> HIDE DEF r
  <2>2. s \in Seq(DOMAIN K) /\ Distinct(s) /\ SerialLinks(K, I[i], s)
    BY <1>2, <1>3, <2>1, MovedSerialLinks
  <2>3. /\ (s = << >>) <=> (r = << >>)
        /\ Len(s) = Len(r) /\ \A p \in 1..Len(r) : s[p] = t[r[p]]
    BY <1>2, <2>1, AlongType
  <2> HIDE DEF s
  <2>4. s = << >> => I[i].first_col = None
    BY <2>1, <2>3 DEF PlaceLinks
  <2>5. s # << >> => K[s[Len(s)]].next_in_key = None
    <3>1. r # << >> => Len(r) \in 1..Len(r) /\ r[Len(r)] \in DOMAIN d.keys
      BY <2>1
    <3> QED
      BY <1>1, <2>1, <2>3, <3>1 DEF PlaceLinks
  <2>6. PlaceLinks(a.keys, a.indexes[i], s)
    BY <1>1, <1>3, <2>2, <2>4, <2>5, FixedPlaceLinks
  <2>7. SerialChain(K, I[i]) = s
    BY <1>1, <2>2, SerialChainFound
  <2>8. Len(s) <= Size(K)
    BY <1>1, <2>2, DistinctIsShort
  <2>9. ~Endless(K, s)
    BY <2>2, <2>8, <1>1, PlacesAreColumns DEF Endless
  <2> QED
    BY <2>6, <2>7, <2>9 DEF s, r
<1>5. ~a.hung
  BY <1>1, <1>4
<1>6. \A i \in DOMAIN I : a.indexes[i].first_col_serial = I[i].first_col_serial
  <2> SUFFICES ASSUME NEW i \in DOMAIN I
               PROVE  a.indexes[i].first_col_serial = I[i].first_col_serial
    OBVIOUS
  <2>1. a.indexes[i] = IF I[i].first_col_serial = None THEN I[i]
             ELSE [I[i] EXCEPT !.first_col = Bucket(K, I[i].first_col_serial)]
    BY <1>1 DEF FixIndexes
  <2>2. I[i] \in Index
    BY <1>3, ArraySize
  <2> QED
    BY <2>1, <2>2 DEF Index
<1>7. Linked(a.keys, a.indexes, AlongAll(t, ch))
  BY <1>1, <1>4, <1>6, LinkedAlong DEF t
<1> QED
  BY <1>5, <1>7 DEF a, t

LEMMA AddedLinks ==
    ASSUME NEW d, Good(d), NEW name \in Columns, ~d.hung,
           NEW ch, Linked(d.keys, d.indexes, ch)
    PROVE  LET a == add_key_column(d, name)
           IN /\ Linked(a.keys, a.indexes, AlongAll(Moved(d.keys, name), ch))
              /\ ~a.hung
<1> DEFINE a == add_key_column(d, name)
           t == Moved(d.keys, name)
<1>1. CASE Stays(d, a, t)
  <2>1. Keeps(d, a, t) /\ HasColumn(d, a, name)
    BY AddedOK
  <2>2. ~a.hung
    BY <1>1 DEF Stays
  <2> HIDE DEF a
  <2> QED
    BY <1>1, <2>1, <2>2, StayedLinks DEF a
<1>2. CASE Exists(d.keys, name)
  BY <1>1, <1>2, AddedToExisting
<1>3. CASE ~Exists(d.keys, name) /\ ~(Place(d.keys, name) < Size(d.keys))
  BY <1>1, <1>3, AddedAtEnd
<1>4. CASE ~Exists(d.keys, name) /\ Place(d.keys, name) < Size(d.keys)
  BY <1>4, PushedLinks
<1> QED
  BY <1>2, <1>3, <1>4

\* PathInfo follows its columns.
LEMMA AddedPath ==
    ASSUME NEW d, Good(d), NEW name \in Columns,
           NEW M, M \subseteq DOMAIN d.pathinfo, PathSerials(d.keys, d.pathinfo, M)
    PROVE  LET a == add_key_column(d, name)
           IN /\ PathSerials(a.keys, a.pathinfo, M)
              /\ \A n \in M : a.pathinfo[n].id = Moved(d.keys, name)[d.pathinfo[n].id]
<1> DEFINE a == add_key_column(d, name)
           t == Moved(d.keys, name)
<1>1. CASE Stays(d, a, t)
  <2> HIDE DEF a, t
  <2>1. /\ a.pathinfo = d.pathinfo /\ DOMAIN d.keys \subseteq DOMAIN a.keys
        /\ \A n \in DOMAIN d.keys : t[n] = n /\ a.keys[n] = d.keys[n]
    BY <1>1 DEF Stays
  <2>2. PathSerials(a.keys, a.pathinfo, M) /\ \A n \in M : a.pathinfo[n].id = t[d.pathinfo[n].id]
    BY <2>1 DEF PathSerials
  <2> QED
    BY <2>2 DEF a, t
<1>2. CASE Exists(d.keys, name)
  BY <1>1, <1>2, AddedToExisting
<1>3. CASE ~Exists(d.keys, name) /\ ~(Place(d.keys, name) < Size(d.keys))
  BY <1>1, <1>3, AddedAtEnd
<1>4. CASE ~Exists(d.keys, name) /\ Place(d.keys, name) < Size(d.keys)
  <2> DEFINE K == Inserted(d.keys, name)
             P == d.pathinfo
  <2>1. /\ Keeps(d, a, t) /\ KeysOK(K) /\ t \in [DOMAIN d.keys -> DOMAIN K]
        /\ \A n \in DOMAIN d.keys : K[t[n]] = d.keys[n]
        /\ a.pathinfo = FixPath(K, P)
    BY <1>4, AddedBefore
  <2>2. P \in Seq(Reference)
    BY DEF Good, Section
  <2>3. t \in [DOMAIN d.keys -> DOMAIN a.keys]
        /\ \A n \in DOMAIN d.keys : a.keys[t[n]].serial_no = d.keys[n].serial_no
    BY <2>1 DEF Keeps, Alike
  <2> HIDE DEF K, a, t, P
  <2>4. ASSUME NEW n \in M
        PROVE  /\ a.pathinfo[n].id = t[P[n].id]
               /\ a.pathinfo[n].id \in DOMAIN a.keys
               /\ a.keys[a.pathinfo[n].id].serial_no = a.pathinfo[n].serial
    <3>1. P[n].id \in DOMAIN d.keys /\ d.keys[P[n].id].serial_no = P[n].serial
          /\ n \in DOMAIN P
      BY DEF PathSerials, P
    <3>2. P[n] \in Reference
      BY <2>2, <3>1
    <3>3. a.pathinfo[n] = [P[n] EXCEPT !.id = Bucket(K, P[n].serial)]
      BY <2>1, <3>1 DEF FixPath
    <3>4. a.pathinfo[n].id = Bucket(K, P[n].serial) /\ a.pathinfo[n].serial = P[n].serial
      BY <3>2, <3>3 DEF Reference
    <3>5. K[t[P[n].id]].serial_no = P[n].serial /\ t[P[n].id] \in DOMAIN K
      BY <2>1, <3>1
    <3>6. Bucket(K, P[n].serial) = t[P[n].id]
      BY <2>1, <3>5, BucketOfSerial
    <3> QED
      BY <2>3, <3>1, <3>4, <3>6
  <2> QED
    BY <2>4 DEF PathSerials, P, a, t
<1> QED
  BY <1>2, <1>3, <1>4

-----------------------------------------------------------------------------
(* named_idx()                                                               *)

SameIndex(x, y) ==
    /\ y.name = x.name /\ y.first_col = x.first_col
    /\ y.first_col_serial = x.first_col_serial

LEMMA UntouchedChain ==
    ASSUME NEW K, NEW L, DOMAIN L = DOMAIN K, NEW x, NEW y, SameIndex(x, y),
           NEW i, NEW s, ChainOK(K, x, i, s), \A n \in Cols(s) : L[n] = K[n]
    PROVE  ChainOK(L, y, i, s)
<1>1. s \in Seq(DOMAIN K) /\ SerialLinks(K, x, s) /\ PlaceLinks(K, x, s)
      /\ Distinct(s) /\ Owned(K, s, i, PlanOf(x))
  BY DEF ChainOK
<1>2. /\ Len(s) \in Nat
      /\ s # << >> => 1 \in 1..Len(s) /\ Len(s) \in 1..Len(s)
      /\ \A p \in 1..Len(s) : p < Len(s) => p + 1 \in 1..Len(s)
  BY <1>1
<1>3. \A p \in 1..Len(s) : L[s[p]] = K[s[p]]
  BY DEF Cols
<1>4. SerialLinks(L, y, s)
  BY <1>1, <1>2, <1>3 DEF SerialLinks, SameIndex
<1>5. PlaceLinks(L, y, s)
  BY <1>1, <1>2, <1>3 DEF PlaceLinks, SameIndex
<1>6. Owned(L, s, i, PlanOf(y))
  BY <1>1 DEF Owned, PlanOf, SameIndex
<1> QED
  BY <1>1, <1>4, <1>5, <1>6 DEF ChainOK

\* The column at the end of a chain, before and after it is linked
IsEnd(K, x, i, col) ==
    /\ col \in DOMAIN K /\ K[col].index_id = i /\ K[col].implied_plan = PlanOf(x)
    /\ K[col].next_in_key = None /\ K[col].next_in_key_serial = None

LEMMA StartedChain ==
    ASSUME NEW K, NEW x, NEW y, NEW i, NEW col, IsEnd(K, x, i, col), y.name = x.name,
           y.first_col = col, y.first_col_serial = K[col].serial_no
    PROVE  ChainOK(K, y, i, <<col>>)
<1> DEFINE s == <<col>>
<1>1. s \in Seq(DOMAIN K) /\ Len(s) = 1 /\ s[1] = col /\ s # << >>
  BY DEF IsEnd
<1> HIDE DEF s
<1>2. \A p \in 1..Len(s) : s[p] = col /\ ~(p < Len(s)) /\ p = 1
  BY <1>1
<1>3. Distinct(s)
  BY <1>2 DEF Distinct
<1>4. SerialLinks(K, y, s) /\ PlaceLinks(K, y, s)
  BY <1>1, <1>2 DEF SerialLinks, PlaceLinks, IsEnd
<1>5. Owned(K, s, i, PlanOf(y))
  BY <1>2 DEF Owned, Cols, IsEnd, PlanOf
<1> QED
  BY <1>1, <1>3, <1>4, <1>5 DEF ChainOK, s

\* L is array K with the next column of column c set.
Links(K, L, c, col) == L = [K EXCEPT ![c] = Followed(K[c], col, K[col].serial_no)]

LEMMA FollowedChain ==
    ASSUME NEW K, KeysOK(K), NEW x, NEW y, SameIndex(x, y), NEW i, NEW s,
           ChainOK(K, x, i, s), s # << >>,
           NEW col, IsEnd(K, x, i, col), col \notin Cols(s),
           NEW L, Links(K, L, s[Len(s)], col)
    PROVE  ChainOK(L, y, i, Append(s, col))
<1> DEFINE m == Len(s)
           e == s[m]
           r == Append(s, col)
<1>1. s \in Seq(DOMAIN K) /\ SerialLinks(K, x, s) /\ PlaceLinks(K, x, s)
      /\ Distinct(s) /\ Owned(K, s, i, PlanOf(x))
  BY DEF ChainOK
<1>2. /\ m \in Nat /\ m >= 1 /\ e \in DOMAIN K /\ e \in Cols(s)
      /\ \A p \in 1..m : s[p] \in DOMAIN K /\ s[p] \in Cols(s)
      /\ col \in DOMAIN K /\ col # e
  <2>1. m \in Nat /\ m >= 1 /\ \A p \in 1..m : s[p] \in DOMAIN K /\ s[p] \in Cols(s)
    BY <1>1 DEF Cols
  <2>2. m \in 1..m
    BY <2>1
  <2> QED
    BY <2>1, <2>2 DEF IsEnd
<1>3. /\ r \in Seq(DOMAIN K) /\ Len(r) = m + 1 /\ r[m + 1] = col /\ r # << >>
      /\ \A p \in 1..m : r[p] = s[p]
  BY <1>1, <1>2
<1>4. /\ DOMAIN L = DOMAIN K
      /\ L[e].next_in_key = col /\ L[e].next_in_key_serial = K[col].serial_no
      /\ \A n \in DOMAIN K : n # e => L[n] = K[n]
      /\ \A n \in DOMAIN K : L[n].serial_no = K[n].serial_no
               /\ L[n].index_id = K[n].index_id /\ L[n].implied_plan = K[n].implied_plan
  <2>1. K \in [DOMAIN K -> Column]
    BY ArraySize DEF KeysOK
  <2>2. K[e] \in Column /\ K[col].serial_no \in Nat /\ col \in Nat
    BY <1>2, <2>1, PlacesAreColumns DEF Column
  <2>3. LET f == Followed(K[e], col, K[col].serial_no)
        IN /\ f.serial_no = K[e].serial_no /\ f.index_id = K[e].index_id
           /\ f.implied_plan = K[e].implied_plan
           /\ f.next_in_key = col /\ f.next_in_key_serial = K[col].serial_no
    <3> DEFINE c == K[e]
               serial == K[col].serial_no
    <3>1. c \in Column /\ col \in Nat /\ serial \in Nat
      BY <2>2
    <3> HIDE DEF c, serial
    <3>2. LET f == Followed(c, col, serial)
          IN /\ f \in Column /\ f.name = c.name /\ f.serial_no = c.serial_no
             /\ f.filter = c.filter /\ f.index_id = c.index_id
             /\ f.implied_plan = c.implied_plan
             /\ f.next_in_key = col /\ f.next_in_key_serial = serial
      BY <3>1, FollowedType
    <3> QED
      BY <3>2 DEF c, serial
  <2>4. DOMAIN L = DOMAIN K /\ L[e] = Followed(K[e], col, K[col].serial_no)
        /\ \A n \in DOMAIN K : n # e => L[n] = K[n]
    BY <1>2, <2>1 DEF Links
  <2> QED
    BY <2>3, <2>4
<1>5. \A p \in 1..m : p < m => s[p] # e
  BY <1>1, <1>2 DEF Distinct
<1> HIDE DEF m, e, r
<1>6. Distinct(r)
  <2> SUFFICES ASSUME NEW p \in 1..(m + 1), NEW q \in 1..(m + 1), r[p] = r[q]
               PROVE  p = q
    BY <1>3 DEF Distinct
  <2>1. CASE p \in 1..m /\ q \in 1..m
    <3>1. s[p] = s[q]
      BY <1>3, <2>1
    <3> QED
      BY <1>1, <2>1, <3>1 DEF Distinct, m
  <2>2. CASE p \in 1..m /\ q = m + 1
    BY <1>2, <1>3, <2>2
  <2>3. CASE p = m + 1 /\ q \in 1..m
    BY <1>2, <1>3, <2>3
  <2>4. (p \in 1..m \/ p = m + 1) /\ (q \in 1..m \/ q = m + 1)
    BY <1>2
  <2> QED
    BY <2>1, <2>2, <2>3, <2>4
<1>7. \A p \in 1..(m + 1) : p < m + 1 =>
          /\ L[r[p]].next_in_key = r[p + 1]
          /\ L[r[p]].next_in_key_serial = L[r[p + 1]].serial_no
  <2> SUFFICES ASSUME NEW p \in 1..(m + 1), p < m + 1
               PROVE  /\ L[r[p]].next_in_key = r[p + 1]
                      /\ L[r[p]].next_in_key_serial = L[r[p + 1]].serial_no
    OBVIOUS
  <2>1. p \in 1..m /\ r[p] = s[p]
    BY <1>2, <1>3
  <2>2. CASE p = m
    <3>1. s[p] = e /\ r[p + 1] = col
      BY <1>3, <2>2 DEF e, m
    <3> QED
      BY <1>2, <1>4, <2>1, <3>1
  <2>3. CASE p < m
    <3>1. p + 1 \in 1..m /\ r[p + 1] = s[p + 1] /\ s[p] # e
      BY <1>2, <1>3, <1>5, <2>1, <2>3
    <3>2. L[s[p]] = K[s[p]] /\ s[p] \in DOMAIN K /\ s[p + 1] \in DOMAIN K
      BY <1>2, <1>4, <2>1, <3>1
    <3>3. K[s[p]].next_in_key = s[p + 1]
          /\ K[s[p]].next_in_key_serial = K[s[p + 1]].serial_no
      BY <1>1, <2>1, <2>3 DEF PlaceLinks, SerialLinks, m
    <3> QED
      BY <1>4, <2>1, <3>1, <3>2, <3>3
  <2> QED
    BY <1>2, <2>1, <2>2, <2>3
<1>8. L[r[m + 1]].next_in_key = None /\ L[r[m + 1]].next_in_key_serial = None
  BY <1>2, <1>3, <1>4 DEF IsEnd
<1>9. r[1] = s[1] /\ L[r[1]].serial_no = K[s[1]].serial_no
  BY <1>2, <1>3, <1>4
<1>10. SerialLinks(L, y, r)
  BY <1>1, <1>3, <1>7, <1>8, <1>9 DEF SerialLinks, SameIndex
<1>11. PlaceLinks(L, y, r)
  BY <1>1, <1>3, <1>7, <1>8, <1>9 DEF PlaceLinks, SameIndex
<1>12. Owned(L, r, i, PlanOf(y))
  <2>1. \A n \in Cols(r) : n \in Cols(s) \/ n = col
    BY <1>2, <1>3 DEF Cols, m
  <2>2. PlanOf(y) = PlanOf(x) /\ Cols(s) \subseteq DOMAIN K
    BY <1>1, ColsType DEF PlanOf, SameIndex
  <2> QED
    BY <1>1, <1>2, <1>4, <2>1, <2>2 DEF Owned, IsEnd
<1> QED
  BY <1>3, <1>4, <1>6, <1>10, <1>11, <1>12 DEF ChainOK, r

\* A name that is free to join an index
Free(K, name) == \A n \in DOMAIN K : K[n].name = name => K[n].implied_plan = NoPlan

\* Column col is about to be linked to the chain of index i.
Joining(K, I, ch, i, col) ==
    /\ DOMAIN ch = DOMAIN I /\ i \in DOMAIN I
    /\ \A j \in DOMAIN I : ChainOK(K, I[j], j, ch[j]) /\ col \notin Cols(ch[j])
    /\ IsEnd(K, I[i], i, col)
    /\ \A n \in DOMAIN K : n # col /\ K[n].implied_plan # NoPlan =>
            \E j \in DOMAIN I : n \in Cols(ch[j])

LEMMA PlansAreGiven ==
    ASSUME NEW x \in Index
    PROVE  PlanOf(x) # NoPlan
<1>1. IndexType[x.name] \in {"P", "U", "O"}
  BY KeyColumnsAssumption DEF Index
<1> QED
  BY <1>1 DEF PlanOf, ImpliedPlan, NoPlan

LEMMA AddedIsFree ==
    ASSUME NEW d, NEW a, NEW name, Free(d.keys, name), HasColumn(d, a, name)
    PROVE  a.keys[a.id].implied_plan = NoPlan
<1>1. CASE a.exists
  BY <1>1 DEF HasColumn, Free
<1>2. CASE ~a.exists
  BY <1>2 DEF HasColumn, Alike, NewColumn
<1> QED
  BY <1>1, <1>2

LEMMA JoinedLinks ==
    ASSUME NEW d, Good(d), ~d.hung, NEW i \in DOMAIN d.indexes, NEW name \in Columns,
           Free(d.keys, name), NEW ch, Linked(d.keys, d.indexes, ch)
    PROVE  LET b == add_column_to_index(d, i, name)
           IN /\ Joining(b.keys, b.indexes, AlongAll(Moved(d.keys, name), ch), i, b.id)
              /\ ~b.hung
<1> DEFINE a == add_key_column(d, name)
           b == add_column_to_index(d, i, name)
           c == AlongAll(Moved(d.keys, name), ch)
           type == IndexType[d.indexes[i].name]
           col == b.id
<1>1. Linked(a.keys, a.indexes, c) /\ ~a.hung
  BY AddedLinks
<1>2. Good(a) /\ Keeps(d, a, Moved(d.keys, name)) /\ HasColumn(d, a, name)
  BY AddedOK
<1>3. JoinsIndex(a, b, i, type)
  BY JoinedOK
<1>4. /\ b.indexes = a.indexes /\ b.hung = a.hung /\ col = a.id
      /\ DOMAIN b.keys = DOMAIN a.keys
      /\ b.keys = [a.keys EXCEPT ![col] = Joined(a.keys[col], i, type)]
      /\ a.keys[col] \in Column /\ type \in {"P", "U", "O"} /\ i \in Nat
  BY <1>3 DEF JoinsIndex
<1>5. col \in DOMAIN a.keys /\ a.keys[col].implied_plan = NoPlan
  BY <1>2, <1>4, AddedIsFree DEF HasColumn
<1>6. i \in DOMAIN a.indexes /\ a.indexes[i].name = d.indexes[i].name
      /\ a.indexes \in Array(Index)
  BY <1>2 DEF Keeps, Good, Section
<1> HIDE DEF a, b, c
<1>7. /\ \A n \in DOMAIN a.keys : n # col => b.keys[n] = a.keys[n]
      /\ b.keys[col] = Joined(a.keys[col], i, type)
  <2>1. a.keys = [n \in DOMAIN a.keys |-> a.keys[n]]
    <3>1. a.keys \in [DOMAIN a.keys -> Column]
      BY <1>2, ArraySize DEF Good, KeysOK
    <3> QED
      BY <3>1
  <2> QED
    BY <1>4, <1>5, <2>1
<1>8. IsEnd(b.keys, b.indexes[i], i, col)
  <2> DEFINE k == a.keys[col]
  <2>1. k \in Column /\ i \in Nat /\ type \in {"P", "U", "O"}
    BY <1>4
  <2> HIDE DEF k, type
  <2>2. LET j == Joined(k, i, type)
        IN j.index_id = i /\ j.implied_plan = ImpliedPlan[type]
           /\ j.next_in_key = None /\ j.next_in_key_serial = None
    BY <2>1, JoinedType
  <2>3. b.keys[col] = Joined(k, i, type)
    BY <1>7 DEF k, type
  <2>4. ImpliedPlan[type] = PlanOf(b.indexes[i])
    BY <1>4, <1>6 DEF PlanOf, type
  <2> QED
    BY <1>4, <1>5, <2>2, <2>3, <2>4 DEF IsEnd
<1>9. ASSUME NEW j \in DOMAIN b.indexes
      PROVE  ChainOK(b.keys, b.indexes[j], j, c[j]) /\ col \notin Cols(c[j])
  <2> DEFINE x == a.indexes[j]
             s == c[j]
  <2>1. ChainOK(a.keys, x, j, s) /\ x \in Index
    BY <1>1, <1>4, <1>6, ArraySize DEF Linked
  <2> HIDE DEF x, s
  <2>2. col \notin Cols(s)
    BY <1>5, <2>1, PlansAreGiven DEF ChainOK, Owned
  <2>3. Cols(s) \subseteq DOMAIN a.keys
    BY <2>1, ColsType DEF ChainOK
  <2>4. \A n \in Cols(s) : b.keys[n] = a.keys[n]
    BY <1>7, <2>2, <2>3
  <2>5. ChainOK(b.keys, x, j, s)
    BY <1>4, <2>1, <2>4, UntouchedChain DEF SameIndex
  <2> QED
    BY <1>4, <2>2, <2>5 DEF x, s
<1>10. \A n \in DOMAIN b.keys : n # col /\ b.keys[n].implied_plan # NoPlan =>
            \E j \in DOMAIN b.indexes : n \in Cols(c[j])
  BY <1>1, <1>4, <1>7 DEF Linked
<1>11. Joining(b.keys, b.indexes, c, i, col)
  BY <1>1, <1>4, <1>6, <1>8, <1>9, <1>10 DEF Joining, Linked
<1> QED
  BY <1>1, <1>4, <1>11 DEF a, b, c

\* The chains once column col is at the end of chain i
Extended(ch, i, col) == [j \in DOMAIN ch |-> IF j = i THEN Append(ch[i], col) ELSE ch[j]]

LEMMA FirstColumnLinks ==
    ASSUME NEW K, NEW I, NEW ch, NEW i, NEW col, Joining(K, I, ch, i, col),
           ch[i] = << >>, NEW J, DOMAIN J = DOMAIN I,
           \A j \in DOMAIN I : j # i => SameIndex(I[j], J[j]),
           J[i].name = I[i].name, J[i].first_col = col,
           J[i].first_col_serial = K[col].serial_no
    PROVE  Linked(K, J, Extended(ch, i, col))
<1> DEFINE e == Extended(ch, i, col)
<1>1. /\ DOMAIN e = DOMAIN I /\ e[i] = <<col>>
      /\ \A j \in DOMAIN I : j # i => e[j] = ch[j]
  BY DEF Extended, Joining
<1> HIDE DEF e
<1>2. ChainOK(K, J[i], i, e[i])
  <2>1. IsEnd(K, I[i], i, col)
    BY DEF Joining
  <2> QED
    BY <1>1, <2>1, StartedChain
<1>3. ASSUME NEW j \in DOMAIN I, j # i
      PROVE  ChainOK(K, J[j], j, e[j])
  <2>1. ChainOK(K, I[j], j, ch[j]) /\ SameIndex(I[j], J[j])
    BY <1>3 DEF Joining
  <2>2. ChainOK(K, J[j], j, ch[j])
    BY <2>1, UntouchedChain
  <2> QED
    BY <1>1, <1>3, <2>2
<1>4. ASSUME NEW n \in DOMAIN K, K[n].implied_plan # NoPlan
      PROVE  \E j \in DOMAIN J : n \in Cols(e[j])
  <2>1. CASE n = col
    <3>1. Len(e[i]) = 1 /\ e[i][1] = col /\ i \in DOMAIN J
      BY <1>1 DEF Joining
    <3> QED
      BY <2>1, <3>1 DEF Cols
  <2>2. CASE n # col
    <3>1. PICK j \in DOMAIN I : n \in Cols(ch[j])
      BY <1>4, <2>2 DEF Joining
    <3>2. j # i
      BY <3>1 DEF Cols
    <3> QED
      BY <1>1, <3>1, <3>2
  <2> QED
    BY <2>1, <2>2
<1>5. DOMAIN e = DOMAIN J /\ \A j \in DOMAIN J : ChainOK(K, J[j], j, e[j])
  BY <1>1, <1>2, <1>3
<1> QED
  BY <1>4, <1>5 DEF Linked, e

LEMMA NextColumnLinks ==
    ASSUME NEW K, KeysOK(K), NEW I, NEW ch, NEW i, NEW col, Joining(K, I, ch, i, col),
           NEW s, s = ch[i], s # << >>, NEW J, DOMAIN J = DOMAIN I,
           \A j \in DOMAIN I : SameIndex(I[j], J[j]),
           NEW L, Links(K, L, s[Len(s)], col)
    PROVE  Linked(L, J, Extended(ch, i, col))
<1> DEFINE e == Extended(ch, i, col)
           last == s[Len(s)]
<1>1. /\ DOMAIN e = DOMAIN I /\ e[i] = Append(s, col)
      /\ \A j \in DOMAIN I : j # i => e[j] = ch[j]
  BY DEF Extended, Joining
<1>2. /\ ChainOK(K, I[i], i, s) /\ IsEnd(K, I[i], i, col) /\ col \notin Cols(s)
      /\ i \in DOMAIN I
  BY DEF Joining
<1>3. s \in Seq(DOMAIN K) /\ Len(s) \in 1..Len(s) /\ Len(s) \in Nat
  BY <1>2 DEF ChainOK
<1>4. last \in Cols(s) /\ last \in DOMAIN K
  BY <1>3 DEF Cols
<1> HIDE DEF e, last
<1>5. /\ DOMAIN L = DOMAIN K /\ \A n \in DOMAIN K : n # last => L[n] = K[n]
      /\ \A n \in DOMAIN K : L[n].implied_plan = K[n].implied_plan
  <2>1. K \in [DOMAIN K -> Column]
    BY ArraySize DEF KeysOK
  <2> DEFINE f == Followed(K[last], col, K[col].serial_no)
  <2>2. f.implied_plan = K[last].implied_plan
    <3> DEFINE c == K[last]
               serial == K[col].serial_no
    <3>1. c \in Column /\ col \in Nat /\ serial \in Nat
      BY <1>2, <1>4, <2>1, PlacesAreColumns DEF Column, IsEnd
    <3> HIDE DEF c, serial
    <3>2. Followed(c, col, serial).implied_plan = c.implied_plan
      BY <3>1, FollowedType
    <3> QED
      BY <3>2 DEF c, serial
  <2>3. L = [K EXCEPT ![last] = f]
    BY DEF last, Links
  <2> HIDE DEF f
  <2> QED
    BY <1>4, <2>1, <2>2, <2>3
<1>6. ChainOK(L, J[i], i, e[i])
  BY <1>1, <1>2, FollowedChain
<1>7. ASSUME NEW j \in DOMAIN I, j # i
      PROVE  ChainOK(L, J[j], j, e[j])
  <2>1. ChainOK(K, I[j], j, ch[j]) /\ SameIndex(I[j], J[j])
    BY DEF Joining
  <2>2. Cols(ch[j]) \subseteq DOMAIN K
    BY <2>1, ColsType DEF ChainOK
  <2>3. K[last].index_id = i
    BY <1>2, <1>4 DEF ChainOK, Owned
  <2>4. last \notin Cols(ch[j])
    BY <1>7, <2>1, <2>3 DEF ChainOK, Owned
  <2>5. \A n \in Cols(ch[j]) : L[n] = K[n]
    BY <1>5, <2>2, <2>4
  <2>6. ChainOK(L, J[j], j, ch[j])
    BY <1>5, <2>1, <2>5, UntouchedChain
  <2> QED
    BY <1>1, <1>7, <2>6
<1>8. ASSUME NEW n \in DOMAIN L, L[n].implied_plan # NoPlan
      PROVE  \E j \in DOMAIN J : n \in Cols(e[j])
  <2>0. /\ Len(Append(s, col)) = Len(s) + 1
        /\ Append(s, col)[Len(s) + 1] = col
        /\ \A p \in 1..Len(s) : Append(s, col)[p] = s[p] /\ p \in 1..(Len(s) + 1)
        /\ Len(s) + 1 \in 1..(Len(s) + 1)
    BY <1>2, <1>3 DEF IsEnd
  <2>1. CASE n = col
    BY <1>1, <1>2, <2>0, <2>1 DEF Cols
  <2>2. CASE n # col
    <3>1. PICK j \in DOMAIN I : n \in Cols(ch[j])
      BY <1>5, <1>8, <2>2 DEF Joining
    <3>2. CASE j = i
      <4>1. n \in Cols(Append(s, col))
        BY <2>0, <3>1, <3>2 DEF Cols
      <4> QED
        BY <1>1, <3>2, <4>1
    <3> QED
      BY <1>1, <3>1, <3>2
  <2> QED
    BY <2>1, <2>2
<1>9. DOMAIN e = DOMAIN J /\ \A j \in DOMAIN J : ChainOK(L, J[j], j, e[j])
  BY <1>1, <1>6, <1>7
<1> QED
  BY <1>8, <1>9 DEF Linked, e

\* What a directive that names a column of an index does to the chains
LEMMA NamedLinks ==
    ASSUME NEW d, Good(d), ~d.hung, NEW i \in DOMAIN d.indexes, NEW name \in Columns,
           Free(d.keys, name), NEW ch, Linked(d.keys, d.indexes, ch)
    PROVE  LET b == add_column_to_index(d, i, name)
               r == named_idx(d, i, name)
           IN /\ Linked(r.keys, r.indexes,
                        Extended(AlongAll(Moved(d.keys, name), ch), i, b.id))
              /\ ~r.hung /\ r.pathinfo = b.pathinfo
<1> DEFINE b == add_column_to_index(d, i, name)
           r == named_idx(d, i, name)
           c == AlongAll(Moved(d.keys, name), ch)
           col == b.id
           serial == b.keys[col].serial_no
           K == b.keys
           I == b.indexes
           y == Counted(I[i])
           chain == Chain(K, y)
           last == Last(chain)
<1>1. Joining(K, I, c, i, col) /\ ~b.hung
  BY JoinedLinks
<1>2. Good(b) /\ b \in Section
  BY JoinedOK DEF JoinsIndex, Good
<1>3. NamesColumn(b, r, i)
  BY NamedCases
<1> HIDE DEF b, r, c
<1>4. /\ KeysOK(K) /\ I \in Array(Index) /\ i \in DOMAIN I /\ I[i] \in Index
      /\ DOMAIN c = DOMAIN I
  <2>1. KeysOK(K) /\ I \in Array(Index)
    BY <1>2 DEF Good, Section
  <2>2. i \in DOMAIN I /\ DOMAIN c = DOMAIN I
    BY <1>1 DEF Joining
  <2> HIDE DEF I
  <2>3. I[i] \in Index
    BY <2>1, <2>2, ArraySize
  <2> QED
    BY <2>1, <2>2, <2>3
<1>5. y.name = I[i].name /\ y.first_col = I[i].first_col
      /\ y.first_col_serial = I[i].first_col_serial /\ y \in Index
  BY <1>4, CountedType
<1>6. col \in DOMAIN K /\ col \in Nat /\ serial \in Nat
  <2>1. col \in DOMAIN K
    BY <1>1 DEF Joining, IsEnd
  <2>2. K[col] \in Column
    BY <1>4, <2>1, ArraySize DEF KeysOK
  <2> QED
    BY <1>4, <2>1, <2>2, PlacesAreColumns DEF Column
<1>7. ChainOK(K, I[i], i, c[i])
  BY <1>1, <1>4 DEF Joining
<1>8. PlaceLinks(K, y, c[i]) /\ c[i] \in Seq(DOMAIN K) /\ Distinct(c[i])
  BY <1>5, <1>7 DEF PlaceLinks, ChainOK
<1> HIDE DEF y
<1>9. chain = c[i] /\ ~Endless(K, c[i])
  BY <1>4, <1>8, PlaceChainFound
<1>10. (y.first_col = None) <=> (c[i] = << >>)
  <2>1. c[i] # << >> => c[i][1] \in DOMAIN K
    BY <1>8
  <2>2. c[i] # << >> => c[i][1] # None
    BY <1>4, <2>1, PlacesAreColumns
  <2> QED
    BY <1>8, <2>2 DEF PlaceLinks
<1> HIDE DEF chain
<1>11. I = [j \in DOMAIN I |-> I[j]]
  <2>1. I \in [DOMAIN I -> Index]
    BY <1>4, ArraySize
  <2> QED
    BY <2>1
<1>12. CASE /\ y.first_col = None
            /\ r = [b EXCEPT !.indexes = [I EXCEPT ![i] = Started(y, col, serial)]]
  <2> DEFINE z == Started(y, col, serial)
             J == [I EXCEPT ![i] = z]
  <2>1. z.name = y.name /\ z.first_col = col /\ z.first_col_serial = serial
    <3>1. y \in Index /\ col \in Nat /\ serial \in Nat
      BY <1>5, <1>6
    <3> HIDE DEF col, serial
    <3> QED
      BY <3>1, StartedType
  <2> HIDE DEF z
  <2>2. DOMAIN J = DOMAIN I /\ J[i] = z /\ \A j \in DOMAIN I : j # i => J[j] = I[j]
    BY <1>4, <1>11
  <2> HIDE DEF J
  <2>3. r.keys = K /\ r.indexes = J /\ r.hung = b.hung /\ r.pathinfo = b.pathinfo
    BY <1>2, <1>12 DEF Section, J, z
  <2>4. Linked(K, J, Extended(c, i, col))
    <3>1. J[i].name = I[i].name /\ J[i].first_col = col
          /\ J[i].first_col_serial = K[col].serial_no
      BY <1>5, <2>1, <2>2
    <3>2. \A j \in DOMAIN I : j # i => SameIndex(I[j], J[j])
      BY <2>2 DEF SameIndex
    <3>3. c[i] = << >>
      BY <1>10, <1>12
    <3> QED
      BY <1>1, <2>2, <3>1, <3>2, <3>3, FirstColumnLinks
  <2> QED
    BY <1>1, <2>3, <2>4 DEF b, r, c
<1>13. CASE /\ y.first_col # None
            /\ r = [b EXCEPT !.indexes = [I EXCEPT ![i] = y],
                       !.keys = [K EXCEPT ![last] = Followed(K[last], col, serial)]]
  <2> DEFINE J == [I EXCEPT ![i] = y]
             L == [K EXCEPT ![last] = Followed(K[last], col, serial)]
  <2>1. DOMAIN J = DOMAIN I /\ J[i] = y /\ \A j \in DOMAIN I : j # i => J[j] = I[j]
    BY <1>4, <1>11
  <2>2. Links(K, L, last, col)
    BY DEF Links
  <2> HIDE DEF J, L
  <2>3. r.keys = L /\ r.indexes = J /\ r.hung = b.hung /\ r.pathinfo = b.pathinfo
    BY <1>2, <1>13 DEF Section, J, L
  <2>4. last = c[i][Len(c[i])] /\ c[i] # << >>
    BY <1>9, <1>10, <1>13 DEF Last
  <2>5. \A j \in DOMAIN I : SameIndex(I[j], J[j])
    BY <1>5, <2>1 DEF SameIndex
  <2>6. Linked(L, J, Extended(c, i, col))
    BY <1>1, <1>4, <2>1, <2>2, <2>4, <2>5, NextColumnLinks
  <2> QED
    BY <1>1, <2>3, <2>6 DEF b, r, c
<1> QED
  <2>1. \/ /\ y.first_col = None
           /\ r = [b EXCEPT !.indexes = [I EXCEPT ![i] = Started(y, col, serial)]]
        \/ y.first_col # None /\ Endless(K, chain)
        \/ /\ y.first_col # None
           /\ r = [b EXCEPT !.indexes = [I EXCEPT ![i] = y],
                       !.keys = [K EXCEPT ![last] = Followed(K[last], col, serial)]]
    BY <1>3 DEF NamesColumn, y, chain
  <2> QED
    BY <1>9, <1>12, <1>13, <2>1

\* Joining and linking change neither the name, the serial number nor the
\* filter of a column.
SameNames(K, L) ==
    /\ DOMAIN L = DOMAIN K
    /\ \A n \in DOMAIN K : /\ L[n].name = K[n].name /\ L[n].serial_no = K[n].serial_no
                           /\ L[n].filter = K[n].filter

LEMMA NamedSameNames ==
    ASSUME NEW d, Good(d), NEW i \in DOMAIN d.indexes, NEW name \in Columns
    PROVE  LET a == add_key_column(d, name)
               b == add_column_to_index(d, i, name)
               r == named_idx(d, i, name)
           IN /\ SameNames(a.keys, r.keys) /\ b.id = a.id
              /\ b.pathinfo = a.pathinfo
<1> DEFINE a == add_key_column(d, name)
           b == add_column_to_index(d, i, name)
           r == named_idx(d, i, name)
           type == IndexType[d.indexes[i].name]
           col == b.id
           K == b.keys
           y == Counted(b.indexes[i])
           chain == Chain(K, y)
           last == Last(chain)
           serial == K[col].serial_no
<1>1. /\ JoinsIndex(a, b, i, type) /\ NamesColumn(b, r, i)
      /\ Good(a) /\ HasColumn(d, a, name) /\ Keeps(d, a, Moved(d.keys, name))
  BY JoinedOK, NamedCases, AddedOK
<1> HIDE DEF a, b, r
<1>2. /\ Good(b) /\ b \in Section /\ b.id = a.id /\ b.pathinfo = a.pathinfo
      /\ b.indexes = a.indexes
      /\ DOMAIN K = DOMAIN a.keys
      /\ K = [a.keys EXCEPT ![col] = Joined(a.keys[col], i, type)]
      /\ a.keys[col] \in Column /\ type \in {"P", "U", "O"} /\ i \in Nat
      /\ col \in DOMAIN a.keys
  BY <1>1 DEF JoinsIndex, HasColumn, Good
<1>3. SameNames(a.keys, K)
  <2> DEFINE c == a.keys[col]
             j == Joined(c, i, type)
  <2>1. a.keys \in [DOMAIN a.keys -> Column]
    BY <1>1, ArraySize DEF Good, KeysOK
  <2>2. c \in Column /\ i \in Nat /\ type \in {"P", "U", "O"}
    BY <1>2
  <2>3. K = [a.keys EXCEPT ![col] = j]
    BY <1>2
  <2> HIDE DEF c, type, K
  <2>4. j.name = c.name /\ j.serial_no = c.serial_no /\ j.filter = c.filter
    BY <2>2, JoinedType
  <2> HIDE DEF j
  <2> QED
    BY <1>2, <2>1, <2>3, <2>4 DEF SameNames, c
<1>4. KeysOK(K) /\ i \in DOMAIN b.indexes /\ b.indexes \in Array(Index)
      /\ IndexesOK(b.indexes, K)
  BY <1>1, <1>2 DEF Good, Section, Keeps
<1>5. r.keys = K => SameNames(a.keys, r.keys)
  BY <1>3
<1>6. ASSUME y.first_col # None,
             r.keys = [K EXCEPT ![last] = Followed(K[last], col, serial)]
      PROVE  SameNames(a.keys, r.keys)
  <2> DEFINE c == K[last]
             f == Followed(c, col, serial)
  <2>1. K \in [DOMAIN K -> Column] /\ None \notin DOMAIN K /\ DOMAIN K \subseteq Nat
    BY <1>4, ArraySize, PlacesAreColumns DEF KeysOK
  <2>2. b.indexes[i] \in Index
    BY <1>4, ArraySize
  <2>3. y.first_col \in DOMAIN K \union {None}
        /\ y.first_col_serial \in DOMAIN K \union {None}
    BY <1>4, <2>2, CountedType DEF IndexesOK
  <2> HIDE DEF K, y
  <2>4. chain \in Seq(DOMAIN K) /\ chain # << >>
    BY <1>4, <1>6, <2>3, ChainTypes DEF K
  <2>5. last \in DOMAIN K
    BY <2>4 DEF Last
  <2>6. c \in Column /\ col \in Nat /\ serial \in Nat
    BY <1>2, <2>1, <2>5 DEF Column, K
  <2> HIDE DEF c, col, serial, last
  <2>7. f.name = c.name /\ f.serial_no = c.serial_no /\ f.filter = c.filter
    BY <2>6, FollowedType
  <2> HIDE DEF f
  <2>8. r.keys = [K EXCEPT ![last] = f]
    BY <1>6 DEF f, c, col, serial, last
  <2>9. SameNames(K, r.keys)
    BY <2>1, <2>5, <2>7, <2>8 DEF SameNames, c
  <2> QED
    BY <1>3, <2>9 DEF SameNames, K
<1>7. r.keys = K \/ (y.first_col # None
          /\ r.keys = [K EXCEPT ![last] = Followed(K[last], col, serial)])
  BY <1>1, <1>2 DEF NamesColumn, Section
<1> QED
  BY <1>2, <1>5, <1>6, <1>7 DEF a, b, r

-----------------------------------------------------------------------------
(* The invariant of the links                                                *)

Chains(K, I) == [i \in DOMAIN I |-> Chain(K, I[i])]

\* The chains of a section are those a request follows.
LEMMA ChainsFound ==
    ASSUME NEW K, KeysOK(K), NEW I, NEW ch, Linked(K, I, ch)
    PROVE  /\ Linked(K, I, Chains(K, I))
           /\ DOMAIN Chains(K, I) = DOMAIN ch
           /\ \A i \in DOMAIN I : Chains(K, I)[i] = ch[i]
<1>1. ASSUME NEW i \in DOMAIN I PROVE Chain(K, I[i]) = ch[i]
  <2> DEFINE s == ch[i]
             x == I[i]
  <2>1. s \in Seq(DOMAIN K) /\ Distinct(s) /\ PlaceLinks(K, x, s)
    BY DEF Linked, ChainOK
  <2> HIDE DEF s, x
  <2>2. Chain(K, x) = s
    BY <2>1, PlaceChainFound
  <2> QED
    BY <2>2 DEF s, x
<1>2. \A i \in DOMAIN I : Chains(K, I)[i] = ch[i]
  BY <1>1 DEF Chains
<1>3. DOMAIN Chains(K, I) = DOMAIN I
  BY DEF Chains
<1> QED
  BY <1>2, <1>3 DEF Linked

LinkInv ==
    /\ SectionInv
    /\ ~ hung
    /\ Linked(keys, indexes, Chains(keys, indexes))
    /\ PathSerials(keys, pathinfo, DOMAIN pathinfo)

LEMMA BecomeLinks ==
    ASSUME NEW d, Good(d), Become(d), SectionInv', ~d.hung,
           NEW ch, Linked(d.keys, d.indexes, ch),
           PathSerials(d.keys, d.pathinfo, DOMAIN d.pathinfo)
    PROVE  LinkInv'
<1>1. keys' = d.keys /\ indexes' = d.indexes /\ pathinfo' = d.pathinfo /\ hung' = d.hung
  BY DEF Become
<1>2. Linked(d.keys, d.indexes, Chains(d.keys, d.indexes))
  BY ChainsFound DEF Good
<1> QED
  BY <1>1, <1>2 DEF LinkInv

LEMMA SameSerials ==
    ASSUME NEW K, NEW L, SameNames(K, L), NEW P, NEW M, PathSerials(K, P, M)
    PROVE  PathSerials(L, P, M)
BY DEF SameNames, PathSerials

\* An index that is new has an empty chain.
WithChain(ch, i) == [j \in DOMAIN ch \union {i} |-> IF j \in DOMAIN ch THEN ch[j] ELSE << >>]

LEMMA NewIndexLinks ==
    ASSUME NEW K, NEW I, NEW J, NEW i, NEW name, HasIndex(I, J, i, name),
           NEW ch, Linked(K, I, ch)
    PROVE  Linked(K, J, WithChain(ch, i))
<1> DEFINE c == WithChain(ch, i)
<1>1. /\ DOMAIN c = DOMAIN J
      /\ \A j \in DOMAIN I : c[j] = ch[j] /\ J[j] = I[j] /\ j \in DOMAIN J
      /\ \A j \in DOMAIN J : j \notin DOMAIN I => c[j] = << >> /\ J[j] = NewIndex(name)
  BY DEF WithChain, HasIndex, Linked
<1> HIDE DEF c
<1>2. ASSUME NEW j \in DOMAIN J PROVE ChainOK(K, J[j], j, c[j])
  <2>1. CASE j \in DOMAIN I
    BY <1>1, <2>1 DEF Linked
  <2>2. CASE j \notin DOMAIN I
    <3> DEFINE D == DOMAIN K
    <3>0. << >> \in Seq(D) /\ Len(<< >>) = 0
      OBVIOUS
    <3> HIDE DEF D
    <3>1. c[j] = << >> /\ Len(c[j]) = 0 /\ c[j] \in Seq(D)
      BY <1>1, <2>2, <3>0
    <3>2. J[j].first_col = None /\ J[j].first_col_serial = None
      BY <1>1, <2>2 DEF NewIndex
    <3>3. 1..Len(c[j]) = {}
      BY <3>1
    <3> QED
      BY <3>1, <3>2, <3>3
         DEF ChainOK, Distinct, SerialLinks, PlaceLinks, Owned, Cols, D
  <2> QED
    BY <2>1, <2>2
<1>3. \A n \in DOMAIN K : K[n].implied_plan # NoPlan => \E j \in DOMAIN J : n \in Cols(c[j])
  <2> SUFFICES ASSUME NEW n \in DOMAIN K, K[n].implied_plan # NoPlan
               PROVE  \E j \in DOMAIN J : n \in Cols(c[j])
    OBVIOUS
  <2>1. PICK j \in DOMAIN I : n \in Cols(ch[j])
    BY DEF Linked
  <2> QED
    BY <1>1, <2>1
<1> QED
  BY <1>1, <1>2, <1>3 DEF Linked, c

\* A column that an index has may only be named by that index, which has it on
\* its chain: the column is named twice.
LEMMA NamedAgain ==
    ASSUME LinkInv, Reuse = FALSE, NEW index \in Indexes, NEW name \in Columns,
           named_index(index, name), NEW n \in DOMAIN keys,
           keys[n].name = name, keys[n].implied_plan # NoPlan
    PROVE  /\ twice'
           /\ IndexId(indexes, index) \in DOMAIN indexes
           /\ n \in Cols(Chain(keys, indexes[IndexId(indexes, index)]))
<1> DEFINE i == IndexId(indexes, index)
           s == Chain(keys, indexes[i])
           d == Indexed(index)
<1>1. Linked(keys, indexes, Chains(keys, indexes)) /\ SectionInv
  BY DEF LinkInv
<1>2. PICK j \in DOMAIN indexes : n \in Cols(Chains(keys, indexes)[j])
  BY <1>1 DEF Linked
<1>3. keys[n].index_id = i
  BY DEF named_index
<1>4. j = i
  BY <1>1, <1>2, <1>3 DEF Linked, ChainOK, Owned
<1>5. i \in DOMAIN indexes /\ n \in Cols(s) /\ s \in Seq(DOMAIN keys)
  BY <1>1, <1>2, <1>4 DEF Chains, Linked, ChainOK
<1>6. d.indexes = WithIndex(indexes, index) /\ d.indexes[i] = indexes[i]
  <2>1. HasIndex(indexes, d.indexes, i, index)
    BY <1>1, IndexedOK
  <2>2. d.indexes[i] = indexes[i]
    BY <1>5, <2>1 DEF HasIndex
  <2> QED
    BY <2>2 DEF Indexed, Directory
<1>7. \E m \in Range(Chain(keys, d.indexes[i])) : keys[m].name = name
  <2> HIDE DEF s
  <2>1. n \in Range(s)
    BY <1>5 DEF Cols, Range
  <2> QED
    BY <1>6, <2>1 DEF s
<1>8. twice'
  BY <1>7 DEF named_index, Indexed
<1> QED
  BY <1>5, <1>8

LEMMA NamedIndexLinks ==
    ASSUME LinkInv, Reuse = FALSE, NEW index \in Indexes, NEW name \in Columns,
           named_index(index, name), ~ twice'
    PROVE  LinkInv'
<1> DEFINE d == Indexed(index)
           i == IndexId(indexes, index)
           a == add_key_column(d, name)
           b == add_column_to_index(d, i, name)
           r == named_idx(d, i, name)
           c == WithChain(Chains(keys, indexes), i)
<1>1. SectionInv /\ SectionInv'
  BY NamedIndexInv DEF LinkInv
<1>2. /\ Good(d) /\ d.keys = keys /\ d.pathinfo = pathinfo /\ d.hung = FALSE
      /\ HasIndex(indexes, d.indexes, i, index) /\ i \in DOMAIN d.indexes
  BY <1>1, IndexedOK DEF HasIndex
<1>3. Become(r) /\ Free(keys, name)
  <2>1. Free(keys, name)
    BY NamedAgain DEF Free
  <2> QED
    BY <2>1 DEF named_index, Indexed
<1> HIDE DEF d, i
<1>4. Linked(d.keys, d.indexes, c)
  BY <1>2, NewIndexLinks DEF LinkInv
<1>5. /\ Linked(r.keys, r.indexes, Extended(AlongAll(Moved(d.keys, name), c), i, b.id))
      /\ ~r.hung /\ r.pathinfo = b.pathinfo
  BY <1>2, <1>3, <1>4, NamedLinks
<1>6. SameNames(a.keys, r.keys) /\ b.pathinfo = a.pathinfo
  BY <1>2, NamedSameNames
<1>7. Keeps(d, a, Moved(d.keys, name))
  BY <1>2, AddedOK
<1>8. PathSerials(a.keys, a.pathinfo, DOMAIN d.pathinfo)
  BY <1>2, AddedPath DEF LinkInv
<1> HIDE DEF a, b, r
<1>9. PathSerials(r.keys, r.pathinfo, DOMAIN r.pathinfo)
  BY <1>5, <1>6, <1>7, <1>8, SameSerials DEF Keeps
<1>10. Good(r)
  BY <1>2, NamedOK DEF r
<1> QED
  BY <1>1, <1>3, <1>5, <1>9, <1>10, BecomeLinks

\* Columns that differ only in their filter have the same chains.
SameLinks(K, L) ==
    /\ DOMAIN L = DOMAIN K
    /\ \A n \in DOMAIN K :
          /\ L[n].serial_no = K[n].serial_no /\ L[n].index_id = K[n].index_id
          /\ L[n].implied_plan = K[n].implied_plan
          /\ L[n].next_in_key = K[n].next_in_key
          /\ L[n].next_in_key_serial = K[n].next_in_key_serial

LEMMA SameLinksChain ==
    ASSUME NEW K, NEW L, SameLinks(K, L), NEW x, NEW i, NEW s, ChainOK(K, x, i, s)
    PROVE  ChainOK(L, x, i, s)
<1>1. s \in Seq(DOMAIN K) /\ SerialLinks(K, x, s) /\ PlaceLinks(K, x, s)
      /\ Distinct(s) /\ Owned(K, s, i, PlanOf(x))
  BY DEF ChainOK
<1>2. /\ s # << >> => 1 \in 1..Len(s) /\ Len(s) \in 1..Len(s)
      /\ \A p \in 1..Len(s) : s[p] \in DOMAIN K /\ (p < Len(s) => p + 1 \in 1..Len(s))
  BY <1>1
<1>3. SerialLinks(L, x, s)
  BY <1>1, <1>2 DEF SerialLinks, SameLinks
<1>4. PlaceLinks(L, x, s)
  BY <1>1, <1>2 DEF PlaceLinks, SameLinks
<1>5. Owned(L, s, i, PlanOf(x))
  BY <1>1, ColsType DEF Owned, SameLinks
<1> QED
  BY <1>1, <1>3, <1>4, <1>5 DEF ChainOK, SameLinks

LEMMA FlaggedLinks ==
    ASSUME NEW K, NEW L, SameLinks(K, L), NEW I, NEW ch, Linked(K, I, ch)
    PROVE  Linked(L, I, ch)
<1>1. \A i \in DOMAIN I : ChainOK(L, I[i], i, ch[i])
  BY SameLinksChain DEF Linked
<1> QED
  BY <1>1 DEF Linked, SameLinks

LEMMA FlagsLinks ==
    ASSUME NEW d, NEW e, Flags(d, e), Good(d), d.id \in DOMAIN d.keys
    PROVE  SameLinks(d.keys, e.keys)
<1>1. d.keys \in [DOMAIN d.keys -> Column]
  BY ArraySize DEF Good, KeysOK
<1>2. e.keys = [d.keys EXCEPT ![d.id] = [d.keys[d.id] EXCEPT !.filter = TRUE]]
      /\ d.keys[d.id] \in Column
  BY DEF Flags
<1> DEFINE c == d.keys[d.id]
           f == [c EXCEPT !.filter = TRUE]
<1>3. f.serial_no = c.serial_no /\ f.index_id = c.index_id
      /\ f.implied_plan = c.implied_plan /\ f.next_in_key = c.next_in_key
      /\ f.next_in_key_serial = c.next_in_key_serial
  BY <1>2 DEF Column
<1>4. e.keys = [d.keys EXCEPT ![d.id] = f]
  BY <1>2
<1> HIDE DEF f
<1> QED
  BY <1>1, <1>3, <1>4 DEF SameLinks

LEMMA FilterLinks ==
    ASSUME LinkInv, NEW name \in Columns, filter(name)
    PROVE  LinkInv'
<1> DEFINE d == Directory
           a == add_key_column(d, name)
           e == Filtered(name)
           c == Chains(keys, indexes)
<1>1. SectionInv /\ SectionInv'
  BY FilterInv DEF LinkInv
<1>2. Good(d) /\ ~d.hung /\ d.keys = keys /\ d.indexes = indexes /\ d.pathinfo = pathinfo
  BY <1>1, DirectoryFields DEF SectionInv
<1>3. Become(e) /\ Flags(a, e)
  BY <1>1, FilteredOK DEF filter, Filtered
<1> HIDE DEF d, e
<1>4. Linked(d.keys, d.indexes, c)
  BY <1>2 DEF LinkInv
<1>5. Linked(a.keys, a.indexes, AlongAll(Moved(d.keys, name), c)) /\ ~a.hung
  BY <1>2, <1>4, AddedLinks
<1>6. Good(a) /\ Keeps(d, a, Moved(d.keys, name)) /\ HasColumn(d, a, name)
  BY <1>2, AddedOK
<1>7. PathSerials(a.keys, a.pathinfo, DOMAIN d.pathinfo)
  BY <1>2, AddedPath DEF LinkInv
<1> HIDE DEF a
<1>8. SameLinks(a.keys, e.keys)
  BY <1>3, <1>6, FlagsLinks DEF HasColumn
<1>9. Good(e) /\ e.indexes = a.indexes /\ e.pathinfo = a.pathinfo /\ e.hung = a.hung
  BY <1>3 DEF Flags
<1>10. Linked(e.keys, e.indexes, AlongAll(Moved(d.keys, name), c))
  BY <1>5, <1>8, <1>9, FlaggedLinks
<1>11. PathSerials(e.keys, e.pathinfo, DOMAIN e.pathinfo)
  BY <1>6, <1>7, <1>8, <1>9 DEF Keeps, PathSerials, SameLinks
<1> QED
  BY <1>1, <1>3, <1>5, <1>9, <1>10, <1>11, BecomeLinks

-----------------------------------------------------------------------------
(* PathInfo                                                                  *)

\* The section when the first n columns of a path are known
PathLinked(d, n) ==
    /\ ~ d.hung
    /\ Linked(d.keys, d.indexes, Chains(d.keys, d.indexes))
    /\ PathSerials(d.keys, d.pathinfo, 1..n)

LEMMA FilledLinks ==
    ASSUME NEW d, Good(d), NEW n \in 1..Len(d.pathinfo), NEW name \in Columns,
           PathLinked(d, n - 1)
    PROVE  PathLinked(Filled(d, n, name), n)
<1> DEFINE a == add_key_column(d, name)
           e == Filled(d, n, name)
           c == Chains(d.keys, d.indexes)
           t == Moved(d.keys, name)
<1>1. Good(a) /\ Keeps(d, a, t) /\ HasColumn(d, a, name)
  BY AddedOK
<1>2. Linked(a.keys, a.indexes, AlongAll(t, c)) /\ ~a.hung
  BY AddedLinks DEF PathLinked
<1>3. FillsPath(a, e, n)
  BY FilledOK
<1>4. d.pathinfo \in Seq(Reference) /\ 1..(n - 1) \subseteq DOMAIN d.pathinfo
  BY DEF Good, Section
<1>5. PathSerials(a.keys, a.pathinfo, 1..(n - 1))
  BY <1>4, AddedPath DEF PathLinked
<1> HIDE DEF a, e, t, c
<1>6. Linked(a.keys, a.indexes, Chains(a.keys, a.indexes))
  BY <1>1, <1>2, ChainsFound DEF Good
<1>7. /\ e.keys = a.keys /\ e.indexes = a.indexes /\ e.hung = a.hung
      /\ e.pathinfo = [a.pathinfo EXCEPT ![n] =
                           [id |-> a.id, serial |-> a.keys[a.id].serial_no]]
      /\ a.id \in DOMAIN a.keys /\ n \in 1..Len(a.pathinfo) /\ a.pathinfo \in Seq(Reference)
  BY <1>3 DEF FillsPath
<1>8. PathSerials(e.keys, e.pathinfo, 1..n)
  <2> SUFFICES ASSUME NEW m \in 1..n
               PROVE  /\ e.pathinfo[m].id \in DOMAIN a.keys
                      /\ a.keys[e.pathinfo[m].id].serial_no = e.pathinfo[m].serial
    BY <1>7 DEF PathSerials
  <2>1. CASE m = n
    <3>1. e.pathinfo[m] = [id |-> a.id, serial |-> a.keys[a.id].serial_no]
      BY <1>7, <2>1
    <3> QED
      BY <1>7, <3>1
  <2>2. CASE m # n
    <3>1. e.pathinfo[m] = a.pathinfo[m] /\ m \in 1..(n - 1)
      BY <1>7, <2>2
    <3> QED
      BY <1>5, <3>1 DEF PathSerials
  <2> QED
    BY <2>1, <2>2
<1>9. PathLinked(e, n)
  BY <1>2, <1>6, <1>7, <1>8 DEF PathLinked
<1> QED
  BY <1>9 DEF e

LEMMA EmptyPathLinked ==
    ASSUME LinkInv, NEW spec
    PROVE  PathLinked([Directory EXCEPT !.pathinfo = EmptyPath(spec)], 0)
<1> DEFINE d == [Directory EXCEPT !.pathinfo = EmptyPath(spec)]
<1>1. d.keys = keys /\ d.indexes = indexes /\ d.hung = FALSE
  BY DEF Directory
<1>2. 1..0 = {}
  OBVIOUS
<1> HIDE DEF d
<1>3. PathLinked(d, 0)
  BY <1>1, <1>2 DEF PathLinked, LinkInv, PathSerials
<1> QED
  BY <1>3 DEF d

\* The loop of a PathInfo directive, up to its last column
LEMMA LoopLinks ==
    ASSUME NEW spec \in Seq(Columns), NEW d, PathLinked(d, 0), NEW I,
           NEW f, PathLoop(f, d, spec),
           \A n \in 0..Len(spec) : f[n] \in GoodPath(Len(spec), I)
    PROVE  \A n \in 0..Len(spec) : PathLinked(f[n], n)
<1> DEFINE N == Len(spec)
           S == {n \in Nat : n <= N => PathLinked(f[n], n)}
<1>1. N \in Nat /\ \A n \in 1..N : spec[n] \in Columns
  OBVIOUS
<1>2. 0 \in S
  BY DEF PathLoop
<1>3. ASSUME NEW n \in Nat, n \in S PROVE n + 1 \in S
  <2> SUFFICES ASSUME n + 1 <= N PROVE PathLinked(f[n + 1], n + 1)
    OBVIOUS
  <2> DEFINE m == n + 1
             e == f[n]
  <2>1. n \in 0..N /\ m \in 1..N /\ m - 1 = n /\ spec[m] \in Columns /\ n <= N
    BY <1>1
  <2>2. Good(e) /\ Len(e.pathinfo) = N
    BY <2>1 DEF GoodPath
  <2>3. PathLinked(e, m - 1)
    BY <1>3, <2>1
  <2>4. f[m] = Filled(e, m, spec[m])
    BY <2>1 DEF PathLoop
  <2> HIDE DEF m, e, N, S
  <2>5. m \in 1..Len(e.pathinfo)
    BY <2>1, <2>2
  <2>6. PathLinked(Filled(e, m, spec[m]), m)
    BY <2>1, <2>2, <2>3, <2>5, FilledLinks
  <2> QED
    BY <2>4, <2>6 DEF m
<1> HIDE DEF S
<1>4. Nat \subseteq S
  BY <1>2, <1>3, Induction
<1> QED
  BY <1>1, <1>4 DEF S

LEMMA PathInfoLinks ==
    ASSUME LinkInv, NEW spec \in PathSpecs, PathInfo(spec)
    PROVE  LinkInv'
<1> DEFINE N == Len(spec)
           d == [Directory EXCEPT !.pathinfo = EmptyPath(spec)]
<1>1. SectionInv /\ SectionInv'
  BY PathInfoInv DEF LinkInv
<1>2. spec \in Seq(Columns) /\ N \in Nat /\ d \in GoodPath(Len(spec), indexes)
  BY <1>1, EmptyPathOK
<1>3. PathLinked(d, 0)
  BY EmptyPathLinked
<1>4. PICK f : /\ PathLoop(f, d, spec)
               /\ \A n \in 0..Len(spec) : f[n] \in GoodPath(Len(spec), indexes)
               /\ Become(f[Len(spec)])
  BY <1>2, PathIsLoop
<1> HIDE DEF d
<1>5. \A n \in 0..Len(spec) : PathLinked(f[n], n)
  BY <1>2, <1>3, <1>4, LoopLinks
<1> DEFINE e == f[N]
<1>6. N \in 0..Len(spec)
  BY <1>2
<1>7. e \in GoodPath(N, indexes) /\ PathLinked(e, N) /\ Become(e)
  BY <1>4, <1>5, <1>6
<1> HIDE DEF N, e
<1>8. Good(e) /\ Len(e.pathinfo) = N /\ e.pathinfo \in Seq(Reference)
  BY <1>7 DEF GoodPath, Good, Section
<1>9. DOMAIN e.pathinfo = 1..N
  BY <1>8
<1>10. PathSerials(e.keys, e.pathinfo, DOMAIN e.pathinfo)
  BY <1>7, <1>9 DEF PathLinked
<1> QED
  BY <1>1, <1>7, <1>8, <1>10, BecomeLinks DEF PathLinked

-----------------------------------------------------------------------------
(* The links agree                                                           *)

LEMMA InitLinks == Init => LinkInv
<1> SUFFICES ASSUME Init PROVE LinkInv
  OBVIOUS
<1>1. keys = << >> /\ indexes = << >> /\ pathinfo = << >> /\ hung = FALSE
  BY DEF Init
<1>2. DOMAIN keys = {} /\ DOMAIN indexes = {} /\ DOMAIN pathinfo = {}
  BY <1>1
<1>3. SectionInv
  BY InitSection
<1>4. DOMAIN Chains(keys, indexes) = {}
  BY <1>2 DEF Chains
<1>5. Linked(keys, indexes, Chains(keys, indexes))
  BY <1>2, <1>4 DEF Linked
<1>6. PathSerials(keys, pathinfo, DOMAIN pathinfo)
  BY <1>2 DEF PathSerials
<1> QED
  BY <1>1, <1>3, <1>5, <1>6 DEF LinkInv

\* The links of a section in which no index has named a column twice
SectionLinks == /\ SectionInv
                /\ twice \in BOOLEAN
                /\ ~ twice => LinkInv

LEMMA LinkNext ==
    ASSUME Reuse = FALSE, LinkInv, [Next]_vars, ~ twice'
    PROVE  LinkInv'
<1>1. CASE \E i \in Indexes, c \in Columns : named_index(i, c)
  BY <1>1, NamedIndexLinks
<1>2. CASE \E c \in Columns : filter(c)
  BY <1>2, FilterLinks
<1>3. CASE \E s \in PathSpecs : PathInfo(s)
  BY <1>3, PathInfoLinks
<1>4. CASE UNCHANGED vars
  <2>1. Directory' = Directory /\ hung' = hung /\ indexes' = indexes
        /\ pathinfo' = pathinfo /\ keys' = keys
    BY <1>4 DEF vars, Directory
  <2>2. SectionInv'
    BY <2>1 DEF LinkInv, SectionInv, IndexNames, Good, KeysOK, Section, IndexesOK, PathOK
  <2> QED
    BY <2>1, <2>2 DEF LinkInv
<1> QED
  BY <1>1, <1>2, <1>3, <1>4 DEF Next

LEMMA SectionLinksNext ==
    ASSUME Reuse = FALSE, SectionLinks, [Next]_vars
    PROVE  SectionLinks'
<1>1. SectionInv' /\ twice' \in BOOLEAN /\ (twice => twice')
  BY SectionNext, TwiceStays DEF SectionLinks
<1>2. ASSUME ~ twice' PROVE LinkInv'
  BY <1>1, <1>2, LinkNext DEF SectionLinks
<1> QED
  BY <1>1, <1>2 DEF SectionLinks

\* The invariant: as long as no index names a column that is another's
\* (~Reuse) or its own (~twice), every index has one chain, which ends, its
\* columns in it once and in no other, the same by place and by serial number,
\* and each entry of PathInfo has the place of its serial number, through every
\* insertion (add_key_column(), config.cc:238) and every link (named_idx(),
\* config.cc:603).
THEOREM SectionIsLinked == Reuse = FALSE => (Spec => []SectionLinks)
<1> SUFFICES ASSUME Reuse = FALSE PROVE Spec => []SectionLinks
  OBVIOUS
<1>1. Init => SectionLinks
  BY InitLinks, InitSection DEF SectionLinks, Init
<1>2. SectionLinks /\ [Next]_vars => SectionLinks'
  BY SectionLinksNext
<1> QED
  BY <1>1, <1>2, PTL DEF Spec

LEMMA LinkedAgree ==
    ASSUME LinkInv
    PROVE  LinksAgree
<1>1. ASSUME NEW i \in DOMAIN indexes
      PROVE  /\ Chain(keys, indexes[i]) = SerialChain(keys, indexes[i])
             /\ ~ Endless(keys, Chain(keys, indexes[i]))
  <2> DEFINE s == Chains(keys, indexes)[i]
             x == indexes[i]
  <2>1. KeysOK(keys)
    BY DirectoryFields DEF LinkInv, SectionInv, Good
  <2>2. s \in Seq(DOMAIN keys) /\ Distinct(s) /\ PlaceLinks(keys, x, s)
        /\ SerialLinks(keys, x, s)
    BY DEF LinkInv, Linked, ChainOK
  <2> HIDE DEF s, x
  <2>3. Chain(keys, x) = s /\ ~Endless(keys, s) /\ SerialChain(keys, x) = s
    BY <2>1, <2>2, PlaceChainFound, SerialChainFound
  <2> QED
    BY <2>3 DEF x
<1>2. \A n \in DOMAIN pathinfo : keys[pathinfo[n].id].serial_no = pathinfo[n].serial
  BY DEF LinkInv, PathSerials
<1> QED
  BY <1>1, <1>2 DEF LinksAgree, LinkInv

\* In every section whose indexes share no column, however many columns and
\* indexes it has and in whatever order they are named, until an index names a
\* column of its own again the links by place are those by serial number, no
\* chain is endless and no directive hangs: what an insertion rebuilds from the
\* one (config.cc:278) is what requests read of the other.  That repetition is
\* so the only cause of a directive that never returns (config.cc:648).
THEOREM LinksAlwaysAgree == Reuse = FALSE => (Spec => []LinksAgree)
<1> SUFFICES ASSUME Reuse = FALSE PROVE Spec => []LinksAgree
  OBVIOUS
<1>1. Spec => []SectionLinks
  BY SectionIsLinked
<1>2. SectionLinks => LinksAgree
  BY LinkedAgree DEF SectionLinks, LinksAgree
<1> QED
  BY <1>1, <1>2, PTL

-----------------------------------------------------------------------------
(* What the section declares                                                 *)

NamesOf(K, s) == [p \in DOMAIN s |-> K[s[p]].name]

PartsOf(K, I) ==
    [x \in Indexes |->
        IF \E n \in DOMAIN I : I[n].name = x
        THEN NamesOf(K, Chain(K, I[IndexId(I, x)]))
        ELSE << >>]

FiltersOf(K) == {K[n].name : n \in {m \in DOMAIN K : K[m].filter}}

PathOf(K, P) == [n \in DOMAIN P |-> K[P[n].id].name]

\* The parts of an index are the names along its chain.
LEMMA PartsAreNames ==
    ASSUME NEW K, KeysOK(K), NEW I, IndexNames(I), NEW ch, Linked(K, I, ch)
    PROVE  \A i \in DOMAIN I : I[i].name \in Indexes =>
               PartsOf(K, I)[I[i].name] = NamesOf(K, ch[i])
<1> SUFFICES ASSUME NEW i \in DOMAIN I, I[i].name \in Indexes
             PROVE  PartsOf(K, I)[I[i].name] = NamesOf(K, ch[i])
  OBVIOUS
<1>1. IndexId(I, I[i].name) = i
  BY DEF IndexId, IndexNames
<1>2. Chains(K, I)[i] = ch[i]
  BY ChainsFound
<1>3. Chain(K, I[i]) = ch[i]
  BY <1>2 DEF Chains
<1>4. PartsOf(K, I)[I[i].name] = NamesOf(K, Chain(K, I[IndexId(I, I[i].name)]))
  BY DEF PartsOf
<1> QED
  BY <1>1, <1>3, <1>4

\* Sections that have the same names on the chains of the same indexes
LEMMA SameParts ==
    ASSUME NEW K, KeysOK(K), NEW I, IndexNames(I), NEW ch, Linked(K, I, ch),
           NEW L, KeysOK(L), NEW J, SameIndexes(J, I), NEW dh, Linked(L, J, dh),
           \A i \in DOMAIN I : NamesOf(L, dh[i]) = NamesOf(K, ch[i])
    PROVE  PartsOf(L, J) = PartsOf(K, I)
<1>1. IndexNames(J)
  BY DEF SameIndexes, IndexNames
<1>2. \A i \in DOMAIN I : I[i].name \in Indexes =>
          PartsOf(K, I)[I[i].name] = NamesOf(K, ch[i])
  BY PartsAreNames
<1>3. \A i \in DOMAIN J : J[i].name \in Indexes =>
          PartsOf(L, J)[J[i].name] = NamesOf(L, dh[i])
  BY <1>1, PartsAreNames
<1>4. ASSUME NEW x \in Indexes PROVE PartsOf(L, J)[x] = PartsOf(K, I)[x]
  <2>1. CASE \E n \in DOMAIN I : I[n].name = x
    <3>1. PICK n \in DOMAIN I : I[n].name = x
      BY <2>1
    <3>2. n \in DOMAIN J /\ J[n].name = x
      BY <3>1 DEF SameIndexes
    <3> QED
      BY <1>2, <1>3, <3>1, <3>2
  <2>2. CASE ~ \E n \in DOMAIN I : I[n].name = x
    <3>1. ~ \E n \in DOMAIN J : J[n].name = x
      BY <2>2 DEF SameIndexes
    <3> QED
      BY <2>2, <3>1 DEF PartsOf
  <2> QED
    BY <2>1, <2>2
<1>5. PartsOf(L, J) = [x \in Indexes |-> PartsOf(L, J)[x]]
      /\ PartsOf(K, I) = [x \in Indexes |-> PartsOf(K, I)[x]]
  BY DEF PartsOf
<1> HIDE DEF PartsOf
<1> QED
  BY <1>4, <1>5

LEMMA NamesAlong ==
    ASSUME NEW K, NEW A, NEW t, Moves(K, A, t), NEW s \in Seq(DOMAIN K)
    PROVE  NamesOf(A, Along(t, s)) = NamesOf(K, s)
<1> DEFINE a == Along(t, s)
           n == Len(s)
<1>1. a \in Seq(DOMAIN A) /\ Len(a) = n /\ \A p \in 1..n : a[p] = t[s[p]]
  BY AlongType
<1>2. n \in Nat /\ DOMAIN s = 1..n /\ \A p \in 1..n : s[p] \in DOMAIN K
  OBVIOUS
<1> HIDE DEF a, n
<1>3. DOMAIN a = 1..n
  BY <1>1
<1>4. \A p \in 1..n : A[a[p]].name = K[s[p]].name
  BY <1>1, <1>2 DEF Moves, Alike
<1>5. NamesOf(A, a) = [p \in 1..n |-> A[a[p]].name] /\ NamesOf(K, s) = [p \in 1..n |-> K[s[p]].name]
  BY <1>2, <1>3 DEF NamesOf
<1>6. NamesOf(A, a) = NamesOf(K, s)
  BY <1>4, <1>5
<1> QED
  BY <1>6 DEF a

\* A column that is added is no part of an index, no filter and not in the path.
LEMMA AddedParts ==
    ASSUME NEW d, Good(d), NEW name \in Columns, ~d.hung, IndexNames(d.indexes),
           NEW ch, Linked(d.keys, d.indexes, ch)
    PROVE  LET a == add_key_column(d, name)
           IN PartsOf(a.keys, a.indexes) = PartsOf(d.keys, d.indexes)
<1> DEFINE a == add_key_column(d, name)
           t == Moved(d.keys, name)
           c == AlongAll(t, ch)
<1>1. Good(a) /\ Keeps(d, a, t)
  BY AddedOK
<1>2. Linked(a.keys, a.indexes, c)
  BY AddedLinks
<1> HIDE DEF a, t
<1>3. KeysOK(a.keys) /\ KeysOK(d.keys) /\ SameIndexes(a.indexes, d.indexes)
  BY <1>1 DEF Good, Keeps, SameIndexes
<1>4. ASSUME NEW i \in DOMAIN d.indexes
      PROVE  NamesOf(a.keys, c[i]) = NamesOf(d.keys, ch[i])
  <2>1. c[i] = Along(t, ch[i])
    BY DEF AlongAll, Linked
  <2>2. ch[i] \in Seq(DOMAIN d.keys)
    BY DEF Linked, ChainOK
  <2>3. Moves(d.keys, a.keys, t)
    BY <1>1, KeepsMoves
  <2> QED
    BY <2>1, <2>2, <2>3, NamesAlong
<1> HIDE DEF c
<1>5. PartsOf(a.keys, a.indexes) = PartsOf(d.keys, d.indexes)
  BY <1>2, <1>3, <1>4, SameParts
<1> QED
  BY <1>5 DEF a

LEMMA AddedFilters ==
    ASSUME NEW d, Good(d), NEW name \in Columns
    PROVE  FiltersOf(add_key_column(d, name).keys) = FiltersOf(d.keys)
<1> DEFINE a == add_key_column(d, name)
           t == Moved(d.keys, name)
           A == a.keys
           K == d.keys
<1>1. Keeps(d, a, t) /\ HasColumn(d, a, name)
  BY AddedOK
<1> HIDE DEF a, t
<1>2. CASE a.exists
  BY <1>1, <1>2 DEF HasColumn, a
<1>3. CASE ~a.exists
  <2>1. A[a.id].filter = FALSE
    BY <1>1, <1>3 DEF HasColumn, Alike, NewColumn
  <2>2. \A n \in DOMAIN K : t[n] \in DOMAIN A /\ A[t[n]].name = K[n].name
                            /\ A[t[n]].filter = K[n].filter
    BY <1>1 DEF Keeps, Alike
  <2>3. \A n \in DOMAIN A : n # a.id => \E m \in DOMAIN K : n = t[m]
    BY <1>1 DEF Keeps
  <2> HIDE DEF A, K
  <2>4. FiltersOf(A) \subseteq FiltersOf(K)
    <3> SUFFICES ASSUME NEW n \in DOMAIN A, A[n].filter
                 PROVE  A[n].name \in FiltersOf(K)
      BY DEF FiltersOf
    <3>1. PICK m \in DOMAIN K : n = t[m]
      BY <2>1, <2>3
    <3> QED
      BY <2>2, <3>1 DEF FiltersOf
  <2>5. FiltersOf(K) \subseteq FiltersOf(A)
    <3> SUFFICES ASSUME NEW n \in DOMAIN K, K[n].filter
                 PROVE  K[n].name \in FiltersOf(A)
      BY DEF FiltersOf
    <3> QED
      BY <2>2 DEF FiltersOf
  <2> QED
    BY <2>4, <2>5 DEF A, K, a
<1> QED
  BY <1>2, <1>3

LEMMA AddedPathNames ==
    ASSUME NEW d, Good(d), NEW name \in Columns,
           NEW M, M \subseteq DOMAIN d.pathinfo, PathSerials(d.keys, d.pathinfo, M)
    PROVE  LET a == add_key_column(d, name)
           IN \A n \in M : a.keys[a.pathinfo[n].id].name = d.keys[d.pathinfo[n].id].name
<1> DEFINE a == add_key_column(d, name)
           t == Moved(d.keys, name)
<1>1. \A n \in M : a.pathinfo[n].id = t[d.pathinfo[n].id]
  BY AddedPath
<1>2. Keeps(d, a, t)
  BY AddedOK
<1> HIDE DEF a, t
<1>3. \A n \in M : d.pathinfo[n].id \in DOMAIN d.keys
  BY DEF PathSerials
<1>4. \A n \in M : a.keys[a.pathinfo[n].id].name = d.keys[d.pathinfo[n].id].name
  BY <1>1, <1>2, <1>3 DEF Keeps, Alike
<1> QED
  BY <1>4 DEF a

\* An index that is new has no parts.
LEMMA NewIndexParts ==
    ASSUME NEW K, NEW I \in Array(Index), NEW name \in Indexes, IndexNames(I),
           NEW J, NEW i, HasIndex(I, J, i, name), IndexNames(J), KeysOK(K)
    PROVE  PartsOf(K, J) = PartsOf(K, I)
<1>1. DOMAIN I \subseteq DOMAIN J /\ \A j \in DOMAIN I : J[j] = I[j]
  BY DEF HasIndex
<1>2. ASSUME NEW x \in Indexes PROVE PartsOf(K, J)[x] = PartsOf(K, I)[x]
  <2>1. CASE \E n \in DOMAIN I : I[n].name = x
    <3>1. PICK n \in DOMAIN I : I[n].name = x
      BY <2>1
    <3>2. n \in DOMAIN J /\ J[n] = I[n]
      BY <1>1
    <3>3. IndexId(I, x) = n /\ IndexId(J, x) = n
      BY <3>1, <3>2 DEF IndexId, IndexNames
    <3> QED
      BY <3>1, <3>2, <3>3 DEF PartsOf
  <2>2. CASE /\ ~ \E n \in DOMAIN I : I[n].name = x
             /\ \E n \in DOMAIN J : J[n].name = x
    <3>1. PICK n \in DOMAIN J : J[n].name = x
      BY <2>2
    <3>2. n \notin DOMAIN I
      BY <1>1, <2>2, <3>1
    <3>3. J[n].first_col = None
      BY <3>2 DEF HasIndex, NewIndex
    <3>4. IndexId(J, x) = n
      BY <3>1 DEF IndexId, IndexNames
    <3>5. PartsOf(K, J)[x] = NamesOf(K, Chain(K, J[n]))
      BY <3>1, <3>4 DEF PartsOf
    <3>6. Chain(K, J[n]) = << >>
      <4> DEFINE s == << >>
      <4>1. s \in Seq(DOMAIN K) /\ Len(s) = 0
        OBVIOUS
      <4>2. Distinct(s) /\ PlaceLinks(K, J[n], s)
        BY <3>3, <4>1 DEF Distinct, PlaceLinks
      <4> HIDE DEF s
      <4>3. Chain(K, J[n]) = s
        BY <4>1, <4>2, PlaceChainFound
      <4> QED
        BY <4>3 DEF s
    <3>7. NamesOf(K, << >>) = << >>
      BY DEF NamesOf
    <3>8. PartsOf(K, I)[x] = << >>
      BY <2>2 DEF PartsOf
    <3> QED
      BY <3>5, <3>6, <3>7, <3>8
  <2>3. CASE ~ \E n \in DOMAIN J : J[n].name = x
    <3>1. ~ \E n \in DOMAIN I : I[n].name = x
      BY <1>1, <2>3
    <3> QED
      BY <2>3, <3>1 DEF PartsOf
  <2> QED
    BY <2>1, <2>2, <2>3
<1>3. PartsOf(K, J) = [x \in Indexes |-> PartsOf(K, J)[x]]
      /\ PartsOf(K, I) = [x \in Indexes |-> PartsOf(K, I)[x]]
  BY DEF PartsOf
<1> HIDE DEF PartsOf
<1> QED
  BY <1>2, <1>3

LEMMA SameNamesOf ==
    ASSUME NEW K, NEW L, SameNames(K, L), NEW s \in Seq(DOMAIN K)
    PROVE  NamesOf(L, s) = NamesOf(K, s)
<1>1. \A p \in DOMAIN s : s[p] \in DOMAIN K
  OBVIOUS
<1>2. \A p \in DOMAIN s : L[s[p]].name = K[s[p]].name
  BY <1>1 DEF SameNames
<1> QED
  BY <1>2 DEF NamesOf

LEMMA NamesAppend ==
    ASSUME NEW K, NEW D, NEW s \in Seq(D), NEW col \in D
    PROVE  NamesOf(K, Append(s, col)) = Append(NamesOf(K, s), K[col].name)
<1> DEFINE n == Len(s)
           r == Append(s, col)
           N == NamesOf(K, s)
           c == K[col].name
<1>1. /\ n \in Nat /\ DOMAIN s = 1..n
      /\ DOMAIN r = 1..(n + 1) /\ r[n + 1] = col /\ \A p \in 1..n : r[p] = s[p]
  OBVIOUS
<1>2. N = [p \in 1..n |-> K[s[p]].name]
  BY <1>1 DEF NamesOf
<1>3. NamesOf(K, r) = [p \in 1..(n + 1) |-> K[r[p]].name]
  BY <1>1 DEF NamesOf
<1> HIDE DEF n, r, N
<1>4. N \in Seq({K[s[p]].name : p \in 1..n}) /\ Len(N) = n
  BY <1>1, <1>2
<1>5. Append(N, c) = [p \in 1..(n + 1) |-> IF p = n + 1 THEN c ELSE N[p]]
  <2> DEFINE S == {K[s[p]].name : p \in 1..n}
  <2>1. N \in Seq(S) /\ Len(N) = n
    BY <1>4
  <2> HIDE DEF S
  <2> QED
    BY <1>1, <2>1
<1>6. \A p \in 1..(n + 1) : K[r[p]].name = IF p = n + 1 THEN c ELSE N[p]
  <2> SUFFICES ASSUME NEW p \in 1..(n + 1)
               PROVE  K[r[p]].name = IF p = n + 1 THEN c ELSE N[p]
    OBVIOUS
  <2>1. CASE p = n + 1
    BY <1>1, <2>1
  <2>2. CASE p # n + 1
    <3>1. p \in 1..n
      BY <1>1, <2>2
    <3> QED
      BY <1>1, <1>2, <2>2, <3>1
  <2> QED
    BY <2>1, <2>2
<1>7. NamesOf(K, r) = Append(N, c)
  BY <1>3, <1>5, <1>6
<1> QED
  BY <1>7 DEF r, N

\* The names of a chain, with one more at the end of the chain of index i
LEMMA ExtendedParts ==
    ASSUME NEW K, KeysOK(K), NEW I, IndexNames(I), NEW ch, Linked(K, I, ch),
           NEW L, KeysOK(L), SameNames(K, L), NEW J, SameIndexes(J, I),
           NEW i \in DOMAIN I, I[i].name \in Indexes,
           NEW col \in DOMAIN K, Linked(L, J, Extended(ch, i, col))
    PROVE  PartsOf(L, J) =
              [PartsOf(K, I) EXCEPT ![I[i].name] = Append(@, K[col].name)]
<1> DEFINE e == Extended(ch, i, col)
           P == PartsOf(K, I)
           Q == PartsOf(L, J)
           x == I[i].name
<1>1. IndexNames(J)
  BY DEF SameIndexes, IndexNames
<1>2. \A j \in DOMAIN I : I[j].name \in Indexes => P[I[j].name] = NamesOf(K, ch[j])
  BY PartsAreNames
<1>3. \A j \in DOMAIN J : J[j].name \in Indexes => Q[J[j].name] = NamesOf(L, e[j])
  BY <1>1, PartsAreNames
<1>4. ASSUME NEW y \in Indexes, y # x
      PROVE  Q[y] = P[y]
  <2>1. CASE \E n \in DOMAIN I : I[n].name = y
    <3>1. PICK n \in DOMAIN I : I[n].name = y
      BY <2>1
    <3>2. n # i /\ n \in DOMAIN J /\ J[n].name = y
      BY <1>4, <3>1 DEF SameIndexes
    <3>3. e[n] = ch[n] /\ ch[n] \in Seq(DOMAIN K)
      BY <3>2 DEF Extended, Linked, ChainOK
    <3>4. NamesOf(L, ch[n]) = NamesOf(K, ch[n])
      BY <3>3, SameNamesOf
    <3> QED
      BY <1>2, <1>3, <3>1, <3>2, <3>3, <3>4
  <2>2. CASE ~ \E n \in DOMAIN I : I[n].name = y
    <3>1. ~ \E n \in DOMAIN J : J[n].name = y
      BY <2>2 DEF SameIndexes
    <3> QED
      BY <2>2, <3>1 DEF PartsOf
  <2> QED
    BY <2>1, <2>2
<1>5. Q[x] = Append(P[x], K[col].name)
  <2>1. i \in DOMAIN J /\ J[i].name = x
    BY DEF SameIndexes
  <2>2. e[i] = Append(ch[i], col) /\ ch[i] \in Seq(DOMAIN K)
    BY DEF Extended, Linked, ChainOK
  <2>3. Q[x] = NamesOf(L, e[i]) /\ P[x] = NamesOf(K, ch[i])
    BY <1>2, <1>3, <2>1
  <2>4. NamesOf(L, Append(ch[i], col)) = NamesOf(K, Append(ch[i], col))
    <3> DEFINE D == DOMAIN K
    <3>1. Append(ch[i], col) \in Seq(D)
      BY <2>2
    <3> HIDE DEF D
    <3>2. Append(ch[i], col) \in Seq(DOMAIN K)
      BY <3>1 DEF D
    <3> QED
      BY <3>2, SameNamesOf
  <2>5. NamesOf(K, Append(ch[i], col)) = Append(NamesOf(K, ch[i]), K[col].name)
    BY <2>2, NamesAppend
  <2> QED
    BY <2>2, <2>3, <2>4, <2>5
<1>6. P = [y \in Indexes |-> P[y]] /\ Q = [y \in Indexes |-> Q[y]]
  BY DEF PartsOf
<1> HIDE DEF P, Q, x
<1>7. x \in Indexes
  BY DEF x
<1>8. Q = [P EXCEPT ![x] = Append(P[x], K[col].name)]
  BY <1>4, <1>5, <1>6, <1>7
<1> QED
  BY <1>8 DEF P, Q, x

-----------------------------------------------------------------------------
(* Each directive does what it declares                                      *)

LEMMA SameFilters ==
    ASSUME NEW K, NEW L, SameNames(K, L)
    PROVE  FiltersOf(L) = FiltersOf(K)
BY DEF SameNames, FiltersOf

LEMMA SamePath ==
    ASSUME NEW K, NEW P, NEW L, NEW Q, DOMAIN Q = DOMAIN P,
           \A n \in DOMAIN P : L[Q[n].id].name = K[P[n].id].name
    PROVE  PathOf(L, Q) = PathOf(K, P)
BY DEF PathOf

LEMMA NamedIndexDeclares ==
    ASSUME LinkInv, Reuse = FALSE, NEW index \in Indexes, NEW name \in Columns,
           named_index(index, name), ~ twice'
    PROVE  /\ Free(keys, name)
           /\ PartsOf(keys', indexes') =
                 [PartsOf(keys, indexes) EXCEPT ![index] = Append(@, name)]
           /\ FiltersOf(keys') = FiltersOf(keys)
           /\ PathOf(keys', pathinfo') = PathOf(keys, pathinfo)
<1> DEFINE d == Indexed(index)
           i == IndexId(indexes, index)
           a == add_key_column(d, name)
           b == add_column_to_index(d, i, name)
           r == named_idx(d, i, name)
           c == WithChain(Chains(keys, indexes), i)
           t == Moved(d.keys, name)
<1>1. SectionInv /\ KeysOK(keys) /\ IndexNames(indexes) /\ indexes \in Array(Index)
  BY DirectoryFields DEF LinkInv, SectionInv, Good, Section
<1>2. /\ Good(d) /\ d.keys = keys /\ d.pathinfo = pathinfo /\ d.hung = FALSE
      /\ HasIndex(indexes, d.indexes, i, index) /\ i \in DOMAIN d.indexes
      /\ IndexNames(d.indexes) /\ d.indexes[i].name = index
  BY <1>1, IndexedOK DEF HasIndex
<1>3. keys' = r.keys /\ indexes' = r.indexes /\ pathinfo' = r.pathinfo /\ Free(keys, name)
  <2>1. Free(keys, name)
    BY NamedAgain DEF Free
  <2> QED
    BY <2>1 DEF named_index, Indexed, Become
<1> HIDE DEF d, i
<1>4. Linked(d.keys, d.indexes, c)
  BY <1>2, NewIndexLinks DEF LinkInv
<1>5. PartsOf(d.keys, d.indexes) = PartsOf(keys, indexes)
  BY <1>1, <1>2, NewIndexParts
<1>6. /\ Linked(r.keys, r.indexes, Extended(AlongAll(t, c), i, b.id))
      /\ r.pathinfo = b.pathinfo
  BY <1>2, <1>3, <1>4, NamedLinks
<1>7. SameNames(a.keys, r.keys) /\ b.pathinfo = a.pathinfo /\ b.id = a.id
  BY <1>2, NamedSameNames
<1>8. Linked(a.keys, a.indexes, AlongAll(t, c))
  BY <1>2, <1>4, AddedLinks
<1>9. Good(a) /\ Keeps(d, a, t) /\ HasColumn(d, a, name)
  BY <1>2, AddedOK
<1>10. Good(r) /\ SameIndexes(r.indexes, d.indexes)
  BY <1>2, NamedOK
<1>11. PartsOf(a.keys, a.indexes) = PartsOf(d.keys, d.indexes)
  BY <1>2, <1>4, AddedParts
<1>12. FiltersOf(a.keys) = FiltersOf(d.keys)
  BY <1>2, AddedFilters
<1>13. PathSerials(d.keys, d.pathinfo, DOMAIN d.pathinfo)
  BY <1>2 DEF LinkInv
<1>14. /\ PathSerials(a.keys, a.pathinfo, DOMAIN d.pathinfo)
       /\ \A n \in DOMAIN d.pathinfo :
             a.keys[a.pathinfo[n].id].name = d.keys[d.pathinfo[n].id].name
  BY <1>2, <1>13, AddedPath, AddedPathNames
<1> HIDE DEF a, b, r, c, t
<1>15. PartsOf(r.keys, r.indexes) = [PartsOf(a.keys, a.indexes) EXCEPT ![index] = Append(@, name)]
  <2> DEFINE e == AlongAll(t, c)
             col == b.id
             I == a.indexes
             K == a.keys
  <2>1. KeysOK(K) /\ KeysOK(r.keys)
    BY <1>9, <1>10 DEF Good
  <2>2. IndexNames(I) /\ SameIndexes(r.indexes, I) /\ i \in DOMAIN I /\ I[i].name = index
    BY <1>2, <1>9, <1>10 DEF IndexNames, SameIndexes, Keeps
  <2>3. col \in DOMAIN K /\ K[col].name = name
    BY <1>7, <1>9 DEF HasColumn
  <2>4. Linked(K, I, e) /\ Linked(r.keys, r.indexes, Extended(e, i, col)) /\ SameNames(K, r.keys)
    BY <1>6, <1>7, <1>8
  <2> HIDE DEF e, col, I, K
  <2>5. PartsOf(r.keys, r.indexes) = [PartsOf(K, I) EXCEPT ![I[i].name] = Append(@, K[col].name)]
    BY <2>1, <2>2, <2>3, <2>4, ExtendedParts
  <2> QED
    BY <2>2, <2>3, <2>5 DEF I, K
<1>16. FiltersOf(r.keys) = FiltersOf(keys)
  BY <1>2, <1>7, <1>12, SameFilters
<1>17. PathOf(r.keys, r.pathinfo) = PathOf(keys, pathinfo)
  <2>1. \A n \in DOMAIN pathinfo : r.keys[r.pathinfo[n].id].name = keys[pathinfo[n].id].name
    BY <1>2, <1>6, <1>7, <1>14 DEF SameNames, PathSerials
  <2>2. DOMAIN r.pathinfo = DOMAIN pathinfo
    BY <1>2, <1>6, <1>7, <1>9 DEF Keeps
  <2> QED
    BY <2>1, <2>2, SamePath
<1> QED
  BY <1>3, <1>5, <1>11, <1>15, <1>16, <1>17

LEMMA FilterDeclares ==
    ASSUME LinkInv, NEW name \in Columns, filter(name)
    PROVE  /\ PartsOf(keys', indexes') = PartsOf(keys, indexes)
           /\ FiltersOf(keys') = FiltersOf(keys) \union {name}
           /\ PathOf(keys', pathinfo') = PathOf(keys, pathinfo)
<1> DEFINE d == Directory
           a == add_key_column(d, name)
           e == Filtered(name)
           c == Chains(keys, indexes)
           t == Moved(d.keys, name)
<1>1. SectionInv /\ IndexNames(indexes)
  BY DEF LinkInv, SectionInv
<1>2. Good(d) /\ ~d.hung /\ d.keys = keys /\ d.indexes = indexes /\ d.pathinfo = pathinfo
  BY <1>1, DirectoryFields DEF SectionInv
<1>3. /\ keys' = e.keys /\ indexes' = e.indexes /\ pathinfo' = e.pathinfo
      /\ Flags(a, e)
  BY <1>1, FilteredOK DEF filter, Filtered, Become
<1> HIDE DEF d, e
<1>4. Linked(d.keys, d.indexes, c)
  BY <1>2 DEF LinkInv
<1>5. Linked(a.keys, a.indexes, AlongAll(t, c))
  BY <1>2, <1>4, AddedLinks
<1>6. Good(a) /\ Keeps(d, a, t) /\ HasColumn(d, a, name)
  BY <1>2, AddedOK
<1>7. PartsOf(a.keys, a.indexes) = PartsOf(d.keys, d.indexes)
  BY <1>1, <1>2, <1>4, AddedParts
<1>8. FiltersOf(a.keys) = FiltersOf(d.keys)
  BY <1>2, AddedFilters
<1>9. \A n \in DOMAIN d.pathinfo :
          a.keys[a.pathinfo[n].id].name = d.keys[d.pathinfo[n].id].name
  <2>1. PathSerials(d.keys, d.pathinfo, DOMAIN d.pathinfo)
    BY <1>2 DEF LinkInv
  <2> QED
    BY <1>2, <2>1, AddedPathNames
<1> HIDE DEF a, c, t
<1> DEFINE K == a.keys
           L == e.keys
<1>10. /\ DOMAIN L = DOMAIN K /\ e.indexes = a.indexes /\ e.pathinfo = a.pathinfo
       /\ L = [K EXCEPT ![a.id] = [K[a.id] EXCEPT !.filter = TRUE]]
       /\ K \in [DOMAIN K -> Column] /\ a.id \in DOMAIN K /\ K[a.id].name = name
       /\ Good(e)
  BY <1>3, <1>6, ArraySize DEF Flags, Good, KeysOK, HasColumn
<1>11. /\ \A n \in DOMAIN K : L[n].name = K[n].name
       /\ \A n \in DOMAIN K : L[n].filter = IF n = a.id THEN TRUE ELSE K[n].filter
  <2> DEFINE k == K[a.id]
             f == [k EXCEPT !.filter = TRUE]
  <2>1. k \in Column
    BY <1>10
  <2>2. f.name = k.name /\ f.filter = TRUE
    BY <2>1 DEF Column
  <2>3. L = [K EXCEPT ![a.id] = f]
    BY <1>10
  <2> HIDE DEF f
  <2> QED
    BY <1>10, <2>2, <2>3
<1>12. SameLinks(K, L)
  BY <1>3, <1>6, FlagsLinks DEF HasColumn
<1>13. Linked(L, e.indexes, AlongAll(t, c))
  BY <1>5, <1>10, <1>12, FlaggedLinks
<1>14. KeysOK(K) /\ KeysOK(L) /\ IndexNames(a.indexes) /\ SameIndexes(e.indexes, a.indexes)
  BY <1>1, <1>2, <1>6, <1>10 DEF Good, IndexNames, Keeps, SameIndexes
<1> HIDE DEF K, L
<1>15. PartsOf(L, e.indexes) = PartsOf(K, a.indexes)
  <2> DEFINE ch == AlongAll(t, c)
  <2>1. Linked(K, a.indexes, ch) /\ Linked(L, e.indexes, ch)
    BY <1>5, <1>13 DEF K
  <2> HIDE DEF ch
  <2>2. \A i \in DOMAIN a.indexes : NamesOf(L, ch[i]) = NamesOf(K, ch[i])
    <3> SUFFICES ASSUME NEW i \in DOMAIN a.indexes
                 PROVE  NamesOf(L, ch[i]) = NamesOf(K, ch[i])
      OBVIOUS
    <3>1. ch[i] \in Seq(DOMAIN K)
      BY <2>1 DEF Linked, ChainOK
    <3>2. \A p \in DOMAIN ch[i] : ch[i][p] \in DOMAIN K
      BY <3>1
    <3> QED
      BY <1>11, <3>2 DEF NamesOf
  <2> QED
    BY <1>14, <2>1, <2>2, SameParts
<1>16. FiltersOf(L) = FiltersOf(K) \union {name}
  BY <1>10, <1>11 DEF FiltersOf
<1>17. PathOf(L, e.pathinfo) = PathOf(keys, pathinfo)
  <2>1. \A n \in DOMAIN pathinfo : L[e.pathinfo[n].id].name = keys[pathinfo[n].id].name
    <3> SUFFICES ASSUME NEW n \in DOMAIN pathinfo
                 PROVE  L[e.pathinfo[n].id].name = keys[pathinfo[n].id].name
      OBVIOUS
    <3>1. a.pathinfo[n].id \in DOMAIN K
      <4>1. PathSerials(d.keys, d.pathinfo, DOMAIN d.pathinfo)
        BY <1>2 DEF LinkInv
      <4>2. PathSerials(a.keys, a.pathinfo, DOMAIN d.pathinfo)
        BY <1>2, <4>1, AddedPath DEF a
      <4> QED
        BY <1>2, <4>2 DEF PathSerials, K
    <3> QED
      BY <1>2, <1>9, <1>10, <1>11, <3>1 DEF K
  <2>2. DOMAIN e.pathinfo = DOMAIN pathinfo
    BY <1>2, <1>6, <1>10 DEF Keeps
  <2> QED
    BY <2>1, <2>2, SamePath
<1> QED
  BY <1>2, <1>3, <1>7, <1>8, <1>15, <1>16, <1>17 DEF K, L

\* While a path is filled, the parts and the filters stay P and F, and the
\* first n columns of the path are those of spec.
PathDeclared(d, n, spec, P, F) ==
    /\ PathLinked(d, n) /\ PartsOf(d.keys, d.indexes) = P /\ FiltersOf(d.keys) = F
    /\ \A m \in 1..n : d.keys[d.pathinfo[m].id].name = spec[m]

LEMMA FilledDeclares ==
    ASSUME NEW d, Good(d), NEW n \in 1..Len(d.pathinfo), IndexNames(d.indexes),
           NEW spec, spec[n] \in Columns, NEW P, NEW F,
           PathDeclared(d, n - 1, spec, P, F)
    PROVE  PathDeclared(Filled(d, n, spec[n]), n, spec, P, F)
<1> DEFINE name == spec[n]
           a == add_key_column(d, name)
           e == Filled(d, n, name)
           c == Chains(d.keys, d.indexes)
           M == 1..(n - 1)
<1>1. /\ ~d.hung /\ Linked(d.keys, d.indexes, c) /\ PathSerials(d.keys, d.pathinfo, M)
      /\ PathLinked(d, n - 1)
      /\ PartsOf(d.keys, d.indexes) = P /\ FiltersOf(d.keys) = F
      /\ \A m \in M : d.keys[d.pathinfo[m].id].name = spec[m]
  BY DEF PathDeclared, PathLinked
<1>2. M \subseteq DOMAIN d.pathinfo /\ n \in Nat
  BY DEF Good, Section
<1>3. PathLinked(e, n)
  BY <1>1, FilledLinks
<1>4. FillsPath(a, e, n) /\ HasColumn(d, a, name)
  BY FilledOK, AddedOK
<1>5. PartsOf(a.keys, a.indexes) = P /\ FiltersOf(a.keys) = F
  BY <1>1, AddedParts, AddedFilters
<1> HIDE DEF M, c
<1>6. \A m \in M : a.keys[a.pathinfo[m].id].name = spec[m]
  BY <1>1, <1>2, AddedPathNames
<1> HIDE DEF a, e, name
<1>7. /\ e.keys = a.keys /\ e.indexes = a.indexes
      /\ e.pathinfo = [a.pathinfo EXCEPT ![n] =
                           [id |-> a.id, serial |-> a.keys[a.id].serial_no]]
      /\ n \in 1..Len(a.pathinfo) /\ a.pathinfo \in Seq(Reference)
      /\ a.keys[a.id].name = name
  BY <1>4 DEF FillsPath, HasColumn
<1>8. \A m \in 1..n : e.keys[e.pathinfo[m].id].name = spec[m]
  <2> SUFFICES ASSUME NEW m \in 1..n PROVE e.keys[e.pathinfo[m].id].name = spec[m]
    OBVIOUS
  <2>1. CASE m = n
    BY <1>7, <2>1 DEF name
  <2>2. CASE m # n
    <3>1. e.pathinfo[m] = a.pathinfo[m] /\ m \in M
      BY <1>2, <1>7, <2>2 DEF M
    <3> QED
      BY <1>6, <1>7, <3>1
  <2> QED
    BY <2>1, <2>2
<1>9. PathDeclared(e, n, spec, P, F)
  BY <1>3, <1>5, <1>7, <1>8 DEF PathDeclared
<1> QED
  BY <1>9 DEF e, name

LEMMA LoopDeclares ==
    ASSUME NEW spec \in Seq(Columns), NEW d, NEW I, IndexNames(I), NEW P, NEW F,
           PathDeclared(d, 0, spec, P, F),
           NEW f, PathLoop(f, d, spec),
           \A n \in 0..Len(spec) : f[n] \in GoodPath(Len(spec), I)
    PROVE  \A n \in 0..Len(spec) : PathDeclared(f[n], n, spec, P, F)
<1> DEFINE N == Len(spec)
           S == {n \in Nat : n <= N => PathDeclared(f[n], n, spec, P, F)}
<1>1. N \in Nat /\ \A n \in 1..N : spec[n] \in Columns
  OBVIOUS
<1>2. 0 \in S
  BY DEF PathLoop
<1>3. ASSUME NEW n \in Nat, n \in S PROVE n + 1 \in S
  <2> SUFFICES ASSUME n + 1 <= N PROVE PathDeclared(f[n + 1], n + 1, spec, P, F)
    OBVIOUS
  <2> DEFINE m == n + 1
             e == f[n]
  <2>1. n \in 0..N /\ m \in 1..N /\ m - 1 = n /\ spec[m] \in Columns /\ n <= N
    BY <1>1
  <2>2. Good(e) /\ Len(e.pathinfo) = N /\ IndexNames(e.indexes)
    BY <2>1 DEF GoodPath, SameIndexes, IndexNames
  <2>3. PathDeclared(e, m - 1, spec, P, F)
    BY <1>3, <2>1
  <2>4. f[m] = Filled(e, m, spec[m])
    BY <2>1 DEF PathLoop
  <2> HIDE DEF m, e, N, S
  <2>5. m \in 1..Len(e.pathinfo)
    BY <2>1, <2>2
  <2>6. PathDeclared(Filled(e, m, spec[m]), m, spec, P, F)
    BY <2>1, <2>2, <2>3, <2>5, FilledDeclares
  <2> QED
    BY <2>4, <2>6 DEF m
<1> HIDE DEF S
<1>4. Nat \subseteq S
  BY <1>2, <1>3, Induction
<1> QED
  BY <1>1, <1>4 DEF S

LEMMA PathInfoDeclares ==
    ASSUME LinkInv, NEW spec \in PathSpecs, PathInfo(spec)
    PROVE  /\ PartsOf(keys', indexes') = PartsOf(keys, indexes)
           /\ FiltersOf(keys') = FiltersOf(keys)
           /\ PathOf(keys', pathinfo') = spec
<1> DEFINE N == Len(spec)
           d == [Directory EXCEPT !.pathinfo = EmptyPath(spec)]
           P == PartsOf(keys, indexes)
           F == FiltersOf(keys)
<1>1. SectionInv /\ IndexNames(indexes)
  BY DEF LinkInv, SectionInv
<1>2. /\ spec \in Seq(Columns) /\ N \in Nat /\ d \in GoodPath(Len(spec), indexes)
      /\ d.keys = keys /\ d.indexes = indexes
  BY <1>1, EmptyPathOK
<1>3. PathDeclared(d, 0, spec, P, F)
  <2>1. PathLinked(d, 0)
    BY EmptyPathLinked
  <2>2. 1..0 = {}
    OBVIOUS
  <2> HIDE DEF d
  <2> QED
    BY <1>2, <2>1, <2>2 DEF PathDeclared
<1>4. PICK f : /\ PathLoop(f, d, spec)
               /\ \A n \in 0..Len(spec) : f[n] \in GoodPath(Len(spec), indexes)
               /\ Become(f[Len(spec)])
  BY <1>2, PathIsLoop
<1> HIDE DEF d, P, F
<1>5. \A n \in 0..Len(spec) : PathDeclared(f[n], n, spec, P, F)
  BY <1>1, <1>2, <1>3, <1>4, LoopDeclares
<1> DEFINE e == f[N]
<1>6. N \in 0..Len(spec)
  BY <1>2
<1>7. e \in GoodPath(N, indexes) /\ PathDeclared(e, N, spec, P, F) /\ Become(e)
  BY <1>4, <1>5, <1>6
<1>8. DOMAIN spec = 1..N
  BY <1>2
<1> HIDE DEF N, e
<1>9. Len(e.pathinfo) = N /\ e.pathinfo \in Seq(Reference)
  BY <1>7 DEF GoodPath, Good, Section
<1>10. DOMAIN e.pathinfo = 1..N
  BY <1>9
<1>11. PathOf(e.keys, e.pathinfo) = spec
  <2>1. PathOf(e.keys, e.pathinfo) = [m \in 1..N |-> spec[m]]
    BY <1>7, <1>10 DEF PathOf, PathDeclared
  <2> QED
    BY <1>2, <1>8, <2>1
<1> QED
  BY <1>7, <1>11 DEF Become, PathDeclared, P, F

-----------------------------------------------------------------------------
(* The indexes and the names of their columns                                *)

LEMMA IndexChain ==
    ASSUME LinkInv, NEW i \in DOMAIN indexes
    PROVE  LET s == Chain(keys, indexes[i])
           IN /\ indexes[i].name \in Indexes /\ i \in Nat
              /\ s \in Seq(DOMAIN keys) /\ Distinct(s)
              /\ PlaceLinks(keys, indexes[i], s)
              /\ Owned(keys, s, i, PlanOf(indexes[i]))
              /\ PlanOf(indexes[i]) # NoPlan
              /\ DeclaredParts[indexes[i].name] = NamesOf(keys, s)
<1> DEFINE s == Chain(keys, indexes[i])
<1>1. /\ SectionInv /\ KeysOK(keys) /\ indexes \in Array(Index)
      /\ IndexNames(indexes) /\ Linked(keys, indexes, Chains(keys, indexes))
  BY DirectoryFields DEF LinkInv, SectionInv, Good, Section
<1>2. i \in Nat /\ indexes[i] \in Index
  BY <1>1, ArraySize
<1>3. indexes[i].name \in Indexes
  BY <1>2 DEF Index
<1>4. Chains(keys, indexes)[i] = s
  BY DEF Chains
<1>5. ChainOK(keys, indexes[i], i, s)
  BY <1>1, <1>4 DEF Linked
<1>6. DeclaredParts = PartsOf(keys, indexes)
  BY DEF DeclaredParts, PartsOf, Names, NamesOf
<1>7. PartsOf(keys, indexes)[indexes[i].name] = NamesOf(keys, s)
  BY <1>1, <1>3, <1>4, PartsAreNames
<1>8. PlanOf(indexes[i]) # NoPlan
  BY <1>2, PlansAreGiven
<1> QED
  BY <1>2, <1>3, <1>5, <1>6, <1>7, <1>8 DEF ChainOK

\* An index has its chain or no part.
LEMMA PartsHaveChain ==
    ASSUME NEW x \in Indexes
    PROVE  \/ DeclaredParts[x] = << >>
           \/ \E i \in DOMAIN indexes : indexes[i].name = x
BY DEF DeclaredParts

\* A column with a plan is on the chain of the index it names, and its name is
\* that of a part.
LEMMA ColumnsHaveParts ==
    ASSUME LinkInv, NEW n \in DOMAIN keys, keys[n].implied_plan # NoPlan
    PROVE  /\ keys[n].index_id \in DOMAIN indexes
           /\ n \in Cols(Chain(keys, indexes[keys[n].index_id]))
           /\ keys[n].implied_plan = PlanOf(indexes[keys[n].index_id])
<1>1. Linked(keys, indexes, Chains(keys, indexes))
  BY DEF LinkInv
<1>2. PICK i \in DOMAIN indexes : n \in Cols(Chains(keys, indexes)[i])
  BY <1>1 DEF Linked
<1>3. Chains(keys, indexes)[i] = Chain(keys, indexes[i])
  BY DEF Chains
<1>4. Owned(keys, Chain(keys, indexes[i]), i, PlanOf(indexes[i]))
  BY IndexChain
<1> QED
  BY <1>2, <1>3, <1>4 DEF Owned

LEMMA PartsHaveColumns ==
    ASSUME LinkInv, NEW x \in Indexes, NEW p \in DOMAIN DeclaredParts[x]
    PROVE  \E i \in DOMAIN indexes :
              LET s == Chain(keys, indexes[i])
              IN /\ indexes[i].name = x /\ p \in DOMAIN s /\ s[p] \in DOMAIN keys
                 /\ s[p] \in Cols(s) /\ keys[s[p]].name = DeclaredParts[x][p]
                 /\ keys[s[p]].implied_plan = PlanOf(indexes[i])
                 /\ keys[s[p]].implied_plan # NoPlan
<1>1. DeclaredParts[x] # << >>
  OBVIOUS
<1>2. PICK i \in DOMAIN indexes : indexes[i].name = x
  BY <1>1, PartsHaveChain
<1> DEFINE s == Chain(keys, indexes[i])
<1>3. /\ s \in Seq(DOMAIN keys) /\ Owned(keys, s, i, PlanOf(indexes[i]))
      /\ PlanOf(indexes[i]) # NoPlan /\ DeclaredParts[x] = NamesOf(keys, s)
  BY <1>2, IndexChain
<1> HIDE DEF s
<1>4. p \in DOMAIN s /\ DeclaredParts[x][p] = keys[s[p]].name
  BY <1>3 DEF NamesOf
<1>5. s[p] \in DOMAIN keys /\ s[p] \in Cols(s)
  BY <1>3, <1>4 DEF Cols
<1>6. keys[s[p]].implied_plan = PlanOf(indexes[i])
  BY <1>3, <1>5 DEF Owned
<1> QED
  BY <1>2, <1>3, <1>4, <1>5, <1>6 DEF s

-----------------------------------------------------------------------------
(* The refinement                                                            *)

LEMMA AgainHasPart ==
    ASSUME LinkInv, Reuse = FALSE, NEW index \in Indexes, NEW name \in Columns,
           named_index(index, name), ~ twice, twice'
    PROVE  DeclaredParts[index] # << >>
<1> DEFINE i == IndexId(indexes, index)
           s == Chain(keys, Indexed(index).indexes[i])
<1>1. PICK n \in Range(s) : keys[n].name = name
  BY DEF named_index, Indexed
<1>2. HasIndex(indexes, Indexed(index).indexes, i, index)
  BY IndexedOK DEF LinkInv
<1>3. CASE i \in DOMAIN indexes
  <2>1. Indexed(index).indexes[i] = indexes[i] /\ indexes[i].name = index
    BY <1>2, <1>3 DEF HasIndex
  <2>2. DeclaredParts[index] = NamesOf(keys, s)
    BY <1>3, <2>1, IndexChain
  <2> HIDE DEF s
  <2>3. s # << >>
    BY <1>1 DEF Range
  <2>4. PICK p \in DOMAIN s : TRUE
    BY <1>1 DEF Range
  <2> QED
    BY <2>2, <2>4 DEF NamesOf
<1>4. CASE i \notin DOMAIN indexes
  <2>1. Indexed(index).indexes[i].first_col = None
    BY <1>2, <1>4 DEF HasIndex, NewIndex
  <2>2. Chain(keys, Indexed(index).indexes[i]) = << >>
    <3> DEFINE x == Indexed(index).indexes[i]
               D == DOMAIN keys
    <3>1. << >> \in Seq(D) /\ 1..Len(<< >>) = {}
      OBVIOUS
    <3> HIDE DEF x
    <3>2. x.first_col = None
      BY <2>1 DEF x
    <3>3. Distinct(<< >>) /\ PlaceLinks(keys, x, << >>)
      BY <3>1, <3>2 DEF Distinct, PlaceLinks
    <3>4. KeysOK(keys)
      BY DirectoryFields DEF LinkInv, SectionInv, Good
    <3>5. Chain(keys, x) = << >>
      BY <3>1, <3>3, <3>4, PlaceChainFound
    <3> QED
      BY <3>5 DEF x
  <2> QED
    BY <1>1, <2>2 DEF Range
<1> QED
  BY <1>3, <1>4

LEMMA InitDeclares == Init => Declared!Init
<1> SUFFICES ASSUME Init PROVE Declared!Init
  OBVIOUS
<1>1. keys = << >> /\ indexes = << >> /\ pathinfo = << >> /\ twice = FALSE
  BY DEF Init
<1>2. DOMAIN keys = {} /\ DOMAIN indexes = {} /\ DOMAIN pathinfo = {}
  BY <1>1
<1>3. DeclaredParts = [i \in Indexes |-> << >>]
  BY <1>2 DEF DeclaredParts
<1>4. {keys[n].name : n \in {m \in DOMAIN keys : keys[m].filter}} = {}
  BY <1>2
<1>5. [n \in DOMAIN pathinfo |-> keys[pathinfo[n].id].name] = << >>
  BY <1>2
<1> QED
  BY <1>1, <1>3, <1>4, <1>5 DEF Declared!Init

\* KeyColumns implements Declarations: in a section whose indexes share no
\* column and name none twice, every directive adds its column at the end of the index it names,
\* adds its filter or replaces the path, and no insertion loses, swaps or
\* redirects a column of another directive (add_key_column(), config.cc:238;
\* named_idx(), config.cc:603; filter(), config.cc:458; pathinfo(), config.cc:325).
THEOREM SectionsAreDeclared == Reuse = FALSE => (Spec => ImplementsDeclarations)
<1> SUFFICES ASSUME Reuse = FALSE PROVE Spec => ImplementsDeclarations
  OBVIOUS
<1>1. Init => Declared!Init
  BY InitDeclares
<1> DEFINE F == {keys[n].name : n \in {m \in DOMAIN keys : keys[m].filter}}
           P == [n \in DOMAIN pathinfo |-> keys[pathinfo[n].id].name]
<1>2. /\ DeclaredParts = PartsOf(keys, indexes) /\ F = FiltersOf(keys)
      /\ P = PathOf(keys, pathinfo)
      /\ DeclaredParts' = PartsOf(keys', indexes') /\ F' = FiltersOf(keys')
      /\ P' = PathOf(keys', pathinfo')
  BY DEF DeclaredParts, PartsOf, Names, NamesOf, FiltersOf, PathOf
<1>3. SectionLinks /\ [Next]_vars => [Declared!Next]_(Declared!declarations)
  <2> SUFFICES ASSUME SectionLinks, [Next]_vars
               PROVE  [Declared!Next]_(Declared!declarations)
    OBVIOUS
  <2>0. twice \in BOOLEAN /\ twice' \in BOOLEAN /\ (twice => twice')
    BY TwiceStays DEF SectionLinks
  <2>1. ASSUME twice PROVE Declared!Repeat
    BY <2>0, <2>1 DEF Declared!Repeat
  <2>2. ASSUME ~ twice, twice' PROVE Declared!Repeat
    <3>1. PICK i \in Indexes, c \in Columns : named_index(i, c)
      BY <2>2 DEF Next, vars, filter, PathInfo
    <3>2. DeclaredParts[i] # << >>
      BY <2>2, <3>1, AgainHasPart DEF SectionLinks
    <3> QED
      BY <2>2, <3>2 DEF Declared!Repeat
  <2>3. ASSUME ~ twice, ~ twice'
        PROVE  Declared!Directive \/ UNCHANGED Declared!declarations
    <3>0. LinkInv /\ twice' = twice
      BY <2>0, <2>3 DEF SectionLinks
    <3>1. ASSUME NEW i \in Indexes, NEW c \in Columns, named_index(i, c)
          PROVE  Declared!Part
      <4>1. /\ PartsOf(keys', indexes') = [PartsOf(keys, indexes) EXCEPT ![i] = Append(@, c)]
            /\ FiltersOf(keys') = FiltersOf(keys)
            /\ PathOf(keys', pathinfo') = PathOf(keys, pathinfo)
            /\ Free(keys, c)
        BY <2>3, <3>0, <3>1, NamedIndexDeclares
      <4>2. /\ DeclaredParts' = [DeclaredParts EXCEPT ![i] = Append(@, c)]
            /\ F' = F /\ P' = P
        BY <1>2, <4>1
      <4> DEFINE D == DeclaredParts
                 extended(x) == {[D EXCEPT ![x] = Append(D[x], e)] :
                                     e \in Columns \ Declared!Range(D[x])}
      <4>3. c \in Columns \ Declared!Range(D[i])
        <5>1. \A p \in DOMAIN D[i] : D[i][p] # c
          BY <3>0, <4>1, PartsHaveColumns DEF Free
        <5> QED
          BY <5>1 DEF Declared!Range
      <4>4. D' \in extended(i)
        BY <4>2, <4>3
      <4>5. D' \in UNION {extended(x) : x \in Indexes}
        BY <4>4
      <4> QED
        BY <4>2, <4>5 DEF Declared!Part
    <3>2. ASSUME NEW c \in Columns, filter(c)
          PROVE  Declared!Filter
      <4>1. DeclaredParts' = DeclaredParts /\ F' = F \union {c} /\ P' = P
        BY <1>2, <3>0, <3>2, FilterDeclares
      <4> QED
        BY <4>1 DEF Declared!Filter
    <3>3. ASSUME NEW s \in PathSpecs, PathInfo(s)
          PROVE  Declared!PathInfo
      <4>1. DeclaredParts' = DeclaredParts /\ F' = F /\ P' = s
        BY <1>2, <3>0, <3>3, PathInfoDeclares
      <4> QED
        BY <4>1 DEF Declared!PathInfo, PathSpecs
    <3>4. CASE UNCHANGED vars
      <4>1. DeclaredParts' = DeclaredParts /\ F' = F /\ P' = P
        BY <1>2, <3>4 DEF vars
      <4> QED
        BY <3>0, <4>1 DEF Declared!declarations
    <3> QED
      BY <2>3, <3>0, <3>1, <3>2, <3>3, <3>4 DEF Next, Declared!Directive
  <2> QED
    BY <2>1, <2>2, <2>3 DEF Declared!Next
<1>4. Spec => []SectionLinks
  BY SectionIsLinked
<1> QED
  BY <1>1, <1>3, <1>4, PTL DEF Spec, Declared!Spec, ImplementsDeclarations

-----------------------------------------------------------------------------
(* Query items                                                               *)

Values == {NULL} \union {Arg(n) : n \in Nat} \union {PathPart(n) : n \in Nat}

Plans == {0, 2, 3, 4, 5}

QueryItems == [value : [DOMAIN keys -> Values], used : Nat, filters : Seq(DOMAIN keys),
               plan : Plans, active_index : Int]

\* the columns that a request has given a value
GivenColumns(q) == {n \in DOMAIN keys : q.value[n] # NULL}

\* the items that a request starts with: no value, and perhaps a plan and an index
StartOK(s) == /\ s \in QueryItems
              /\ \A n \in DOMAIN keys : s.value[n] = NULL
              /\ s.used = 0 /\ s.filters = << >>

\* The plan is at least that of each given column; plan and index are those of
\* the start or of a given column; a column counts as used at least once.
PlanOK(q, s) ==
    /\ \A n \in GivenColumns(q) : keys[n].implied_plan <= q.plan
    /\ \/ q.active_index = s.active_index /\ q.plan = s.plan
       \/ \E n \in GivenColumns(q) : /\ keys[n].implied_plan = q.plan
                                     /\ keys[n].implied_plan # NoPlan
                                     /\ keys[n].index_id = q.active_index
    /\ Cardinality(GivenColumns(q)) <= q.used

QueryOK(q, s) == q \in QueryItems /\ PlanOK(q, s)

LEMMA ValuesAreThere ==
    /\ NULL \in Values
    /\ \A n \in Nat : /\ Arg(n) \in Values /\ Arg(n) # NULL
                      /\ PathPart(n) \in Values /\ PathPart(n) # NULL
BY DEF Values, Arg, PathPart, NULL

LEMMA ColumnsAreFinite ==
    ASSUME SectionInv
    PROVE  IsFiniteSet(DOMAIN keys) /\ \A n \in DOMAIN keys : keys[n] \in Column
<1>1. KeysOK(keys)
  BY DirectoryFields DEF SectionInv, Good
<1>2. Size(keys) \in Nat /\ DOMAIN keys = 0..(Size(keys) - 1)
      /\ \A n \in DOMAIN keys : keys[n] \in Column
  BY <1>1, ArraySize DEF KeysOK
<1>3. IsFiniteSet(0..(Size(keys) - 1))
  BY <1>2, FS_Interval
<1> QED
  BY <1>2, <1>3

LEMMA NoItemsOK ==
    ASSUME SectionInv
    PROVE  StartOK(NoItems) /\ NoItems.plan = NoPlan /\ NoItems.active_index = None
<1>1. /\ NoItems.value = [n \in DOMAIN keys |-> NULL] /\ NoItems.used = 0
      /\ NoItems.plan = NoPlan /\ NoItems.active_index = None
      /\ NoItems.filters = << >>
  BY DEF NoItems
<1>2. NoItems \in QueryItems
  <2>1. [n \in DOMAIN keys |-> NULL] \in [DOMAIN keys -> Values]
    BY ValuesAreThere
  <2>2. << >> \in Seq(DOMAIN keys)
    OBVIOUS
  <2> HIDE DEF Values
  <2> QED
    BY <2>1, <2>2 DEF NoItems, QueryItems, NoPlan, None, Plans
<1> QED
  BY <1>1, <1>2 DEF StartOK

LEMMA StartIsOK ==
    ASSUME NEW s, StartOK(s)
    PROVE  QueryOK(s, s) /\ \A n \in DOMAIN keys : s.value[n] = NULL
<1>1. GivenColumns(s) = {}
  BY DEF GivenColumns, StartOK
<1>2. Cardinality({}) = 0
  BY FS_EmptySet
<1> QED
  BY <1>1, <1>2 DEF QueryOK, PlanOK, StartOK

\* What set_key() makes of the items
LEMMA SetKeyOK ==
    ASSUME SectionInv, NEW q, NEW s, QueryOK(q, s), NEW n \in DOMAIN keys,
           NEW v \in Values, v # NULL
    PROVE  LET r == set_key(q, n, v)
           IN /\ QueryOK(r, s) /\ r.value[n] = v /\ r.used = q.used + 1
              /\ \A m \in DOMAIN keys : m # n => r.value[m] = q.value[m]
<1> DEFINE r == set_key(q, n, v)
           c == keys[n]
           better == c.implied_plan > q.plan
<1>1. q \in QueryItems /\ PlanOK(q, s)
  BY DEF QueryOK
<1>2. c \in Column /\ IsFiniteSet(DOMAIN keys) /\ \A m \in DOMAIN keys : keys[m] \in Column
  BY ColumnsAreFinite
<1>3. /\ r.value = [q.value EXCEPT ![n] = v] /\ r.used = q.used + 1
      /\ r.filters = (IF c.filter THEN Append(q.filters, n) ELSE q.filters)
      /\ r.plan = (IF better THEN c.implied_plan ELSE q.plan)
      /\ r.active_index = (IF better THEN c.index_id ELSE q.active_index)
      /\ r = [value |-> r.value, used |-> r.used, filters |-> r.filters,
              plan |-> r.plan, active_index |-> r.active_index]
  BY DEF set_key
<1> HIDE DEF r
<1>4. /\ q.value \in [DOMAIN keys -> Values] /\ q.used \in Nat
      /\ q.filters \in Seq(DOMAIN keys) /\ q.plan \in {0, 2, 3, 4, 5}
      /\ q.active_index \in Int
  BY <1>1 DEF QueryItems, Plans
<1>5. c.implied_plan \in {0, 2, 3, 5} /\ c.index_id \in Nat /\ c.filter \in BOOLEAN
  BY <1>2 DEF Column
<1> HIDE DEF c
<1>6. r.value \in [DOMAIN keys -> Values] /\ r.value[n] = v
      /\ \A m \in DOMAIN keys : m # n => r.value[m] = q.value[m]
  BY <1>3, <1>4
<1>7. r.used \in Nat /\ r.plan \in {0, 2, 3, 4, 5} /\ r.active_index \in Int
  BY <1>3, <1>4, <1>5
<1>8. r.filters \in Seq(DOMAIN keys)
  <2> DEFINE D == DOMAIN keys
  <2>1. q.filters \in Seq(D) /\ n \in D
    BY <1>4
  <2> HIDE DEF D
  <2>2. Append(q.filters, n) \in Seq(D)
    BY <2>1
  <2> QED
    BY <1>3, <2>1, <2>2 DEF D
<1>9. r \in QueryItems
  BY <1>3, <1>6, <1>7, <1>8 DEF QueryItems, Plans
<1> DEFINE G == GivenColumns(q)
           H == GivenColumns(r)
<1>10. H = G \union {n} /\ G \subseteq DOMAIN keys /\ n \in H
  BY <1>6 DEF GivenColumns
<1> HIDE DEF G, H
<1>11. Cardinality(H) <= r.used
  <2>1. IsFiniteSet(G)
    BY <1>2, <1>10, FS_Subset
  <2>2. Cardinality(H) = IF n \in G THEN Cardinality(G) ELSE Cardinality(G) + 1
    BY <1>10, <2>1, FS_AddElement
  <2>3. Cardinality(G) \in Nat
    BY <2>1, FS_CardinalityType
  <2>4. Cardinality(G) <= q.used
    BY <1>1 DEF PlanOK, G
  <2> QED
    BY <1>3, <1>4, <2>2, <2>3, <2>4
<1>12. \A m \in H : keys[m].implied_plan <= r.plan
  <2> SUFFICES ASSUME NEW m \in H PROVE keys[m].implied_plan <= r.plan
    OBVIOUS
  <2>1. CASE m = n
    BY <1>3, <1>4, <1>5, <2>1 DEF c
  <2>2. CASE m # n
    <3>1. m \in G /\ m \in DOMAIN keys
      BY <1>10, <2>2
    <3>2. keys[m].implied_plan <= q.plan /\ keys[m].implied_plan \in {0, 2, 3, 5}
      BY <1>1, <1>2, <3>1 DEF PlanOK, G, Column
    <3> QED
      BY <1>3, <1>4, <1>5, <3>2
  <2> QED
    BY <2>1, <2>2
<1>13. \/ r.active_index = s.active_index /\ r.plan = s.plan
       \/ \E m \in H : /\ keys[m].implied_plan = r.plan
                       /\ keys[m].implied_plan # NoPlan
                       /\ keys[m].index_id = r.active_index
  <2>1. CASE better
    <3>1. r.plan = c.implied_plan /\ r.active_index = c.index_id /\ c.implied_plan # 0
      BY <1>3, <1>4, <1>5, <2>1
    <3> QED
      BY <1>10, <3>1 DEF c, NoPlan
  <2>2. CASE ~better
    <3>1. r.plan = q.plan /\ r.active_index = q.active_index
      BY <1>3, <2>2
    <3> QED
      BY <1>1, <1>10, <3>1 DEF PlanOK, G
  <2> QED
    BY <2>1, <2>2
<1>14. QueryOK(r, s)
  BY <1>9, <1>11, <1>12, <1>13 DEF QueryOK, PlanOK, H
<1> QED
  BY <1>3, <1>6, <1>14 DEF r

-----------------------------------------------------------------------------
(* The arguments                                                             *)

Taken(q, a, name) ==
    LET n == key_col_bin_search(name)
    IN IF n = None THEN q ELSE set_key(q, n, Arg(a))

\* v is the value that arguments 1 to m give a column: that of the last one
\* with the column's name.
ArgValue(v, args, name, m) ==
    \/ v = NULL /\ \A a \in 1..m : args[a] # name
    \/ \E a \in 1..m : /\ args[a] = name /\ v = Arg(a)
                       /\ \A b \in 1..m : args[b] = name => b <= a

\* the first m arguments name columns of the section
AreColumns(args, m) == \A a \in 1..m : \E n \in DOMAIN keys : keys[n].name = args[a]

ArgsTaken(q, s, args, m) ==
    /\ QueryOK(q, s)
    /\ \A n \in DOMAIN keys : ArgValue(q.value[n], args, keys[n].name, m)
    /\ AreColumns(args, m) => q.used = m

LEMMA TakenOK ==
    ASSUME SectionInv, NEW args \in Seq(Columns), NEW m \in 1..Len(args),
           NEW q, NEW s, ArgsTaken(q, s, args, m - 1)
    PROVE  ArgsTaken(Taken(q, m, args[m]), s, args, m)
<1> DEFINE name == args[m]
           n == key_col_bin_search(name)
           r == Taken(q, m, name)
<1>1. m \in Nat /\ m >= 1 /\ name \in Columns /\ KeysOK(keys)
  BY DirectoryFields DEF SectionInv, Good
<1>2. \/ n = None /\ \A c \in DOMAIN keys : keys[c].name # name
      \/ n # None /\ n \in DOMAIN keys /\ keys[n].name = name
  BY <1>1, SearchOK
<1>3. r = IF n = None THEN q ELSE set_key(q, n, Arg(m))
  BY DEF Taken
<1>4. QueryOK(q, s) /\ \A c \in DOMAIN keys : ArgValue(q.value[c], args, keys[c].name, m - 1)
  BY DEF ArgsTaken
<1> HIDE DEF n, r
<1>8. ASSUME AreColumns(args, m) PROVE q.used = m - 1 /\ n # None
  <2>1. AreColumns(args, m - 1)
    <3>1. \A a \in 1..(m - 1) : a \in 1..m
      BY <1>1
    <3> QED
      BY <1>8, <3>1 DEF AreColumns
  <2>2. m \in 1..m
    BY <1>1
  <2> QED
    BY <1>2, <1>8, <2>1, <2>2 DEF ArgsTaken, AreColumns
\* a column that the argument does not name keeps its value
<1>5. ASSUME NEW c \in DOMAIN keys, keys[c].name # name
      PROVE  ArgValue(q.value[c], args, keys[c].name, m)
  <2>1. ArgValue(q.value[c], args, keys[c].name, m - 1)
    BY <1>4
  <2>2. \A a \in 1..m : args[a] = keys[c].name => a \in 1..(m - 1)
    BY <1>1, <1>5
  <2>3. \A a \in 1..(m - 1) : a \in 1..m
    BY <1>1
  <2> HIDE DEF name
  <2> QED
    BY <2>1, <2>2, <2>3 DEF ArgValue
<1>6. CASE n = None
  BY <1>2, <1>3, <1>4, <1>5, <1>6, <1>8 DEF ArgsTaken, r
<1>7. CASE n # None
  <2>1. n \in DOMAIN keys /\ keys[n].name = name /\ Arg(m) \in Values /\ Arg(m) # NULL
    BY <1>1, <1>2, <1>7, ValuesAreThere
  <2> DEFINE e == set_key(q, n, Arg(m))
  <2>2. /\ QueryOK(e, s) /\ e.value[n] = Arg(m) /\ e.used = q.used + 1
        /\ \A c \in DOMAIN keys : c # n => e.value[c] = q.value[c]
    BY <1>4, <2>1, SetKeyOK
  <2> HIDE DEF e
  <2>3. ASSUME NEW c \in DOMAIN keys
        PROVE  ArgValue(e.value[c], args, keys[c].name, m)
    <3>1. CASE c = n
      <4>1. m \in 1..m /\ \A b \in 1..m : b <= m
        BY <1>1
      <4> QED
        BY <2>1, <2>2, <3>1, <4>1 DEF ArgValue
    <3>2. CASE c # n
      <4>1. keys[c].name # name
        BY <1>1, <2>1, <3>2, NamesTellColumns
      <4> QED
        BY <1>5, <2>2, <3>2, <4>1
    <3> QED
      BY <3>1, <3>2
  <2>4. r = e
    BY <1>3, <1>7 DEF e
  <2> QED
    <3>1. AreColumns(args, m) => e.used = m
      BY <1>1, <1>8, <2>2
    <3> QED
      BY <2>2, <2>3, <2>4, <3>1 DEF ArgsTaken, r
<1> QED
  BY <1>6, <1>7

\* setArguments() ends with the last of the steps.
LEMMA ArgumentsTaken ==
    ASSUME SectionInv, NEW args \in Seq(Columns), NEW q, StartOK(q)
    PROVE  ArgsTaken(setArguments(q, args), q, args, Len(args))
<1> DEFINE S == QueryItems
           N == Len(args)
           take(p, a) == Taken(p, a, args[a])
           IsTaken(f) == f = [n \in 0..N |-> IF n = 0 THEN q ELSE take(f[n - 1], n)]
           taken == CHOOSE f : IsTaken(f)
           T == {p \in S : QueryOK(p, q)}
           step == [n \in 1..N |-> [p \in T |-> take(p, n)]]
<1>1. N \in Nat /\ \A n \in 1..N : args[n] \in Columns
  OBVIOUS
<1>2. setArguments(q, args) = taken[N]
  BY DEF setArguments, Taken
<1>3. \A n \in 1..N, p \in T : take(p, n) \in T
  <2> SUFFICES ASSUME NEW n \in 1..N, NEW p \in T PROVE QueryOK(take(p, n), q)
    BY DEF QueryOK
  <2> DEFINE k == key_col_bin_search(args[n])
  <2>1. take(p, n) = IF k = None THEN p ELSE set_key(p, k, Arg(n))
    BY DEF Taken
  <2>2. k # None => k \in DOMAIN keys
    BY <1>1, SearchOK
  <2>3. Arg(n) \in Values /\ Arg(n) # NULL
    BY <1>1, ValuesAreThere
  <2>4. QueryOK(p, q)
    OBVIOUS
  <2> HIDE DEF k, take, T
  <2>5. k # None => QueryOK(set_key(p, k, Arg(n)), q)
    BY <2>2, <2>3, <2>4, SetKeyOK
  <2> QED
    BY <2>1, <2>4, <2>5
<1>4. q \in T /\ q.used = 0 /\ \A n \in DOMAIN keys : q.value[n] = NULL
  BY StartIsOK DEF QueryOK, StartOK
<1> HIDE DEF T, S, N, take
<1>5. step \in [1..N -> [T -> T]] /\ \A n \in 1..N, p \in T : step[n][p] = take(p, n)
  BY <1>3
<1> HIDE DEF step
<1>6. PICK g \in [0..N -> T] : UpTo(g, N, q, step)
  BY <1>1, <1>4, <1>5, LoopExists
<1>7. IsTaken(g)
  <2>1. \A n \in 0..N : n # 0 => n \in 1..N /\ n - 1 \in 0..N
    BY <1>1
  <2>2. \A n \in 1..N : n - 1 \in 0..N
    BY <1>1
  <2>3. \A n \in 1..N : g[n] = take(g[n - 1], n)
    BY <1>5, <1>6, <2>2 DEF UpTo
  <2>4. \A n \in 0..N : g[n] = IF n = 0 THEN q ELSE take(g[n - 1], n)
    BY <1>6, <2>1, <2>3 DEF UpTo
  <2> QED
    BY <2>4
<1>8. IsTaken(taken)
  BY <1>7
<1> HIDE DEF taken
<1>9. taken[0] = q /\ \A n \in 1..N : taken[n] = take(taken[n - 1], n)
  <2>1. 0 \in 0..N /\ \A n \in 1..N : n \in 0..N /\ n # 0
    BY <1>1
  <2> QED
    BY <1>8, <2>1
<1> HIDE DEF IsTaken
<1> DEFINE R == {n \in Nat : n <= N => ArgsTaken(taken[n], q, args, n)}
<1>10. 0 \in R
  <2>1. 1..0 = {}
    OBVIOUS
  <2>2. QueryOK(q, q)
    BY <1>4 DEF T
  <2> QED
    BY <1>4, <1>9, <2>1, <2>2 DEF ArgsTaken, ArgValue
<1>11. ASSUME NEW n \in Nat, n \in R PROVE n + 1 \in R
  <2> SUFFICES ASSUME n + 1 <= N PROVE ArgsTaken(taken[n + 1], q, args, n + 1)
    OBVIOUS
  <2> DEFINE m == n + 1
  <2>1. m \in 1..N /\ m - 1 = n /\ n <= N
    BY <1>1
  <2>2. ArgsTaken(taken[n], q, args, m - 1)
    BY <1>11, <2>1
  <2>3. taken[m] = Taken(taken[n], m, args[m])
    BY <1>9, <2>1 DEF take
  <2> HIDE DEF m, R
  <2>4. ArgsTaken(Taken(taken[n], m, args[m]), q, args, m)
    BY <2>1, <2>2, TakenOK DEF N
  <2> QED
    BY <2>3, <2>4 DEF m
<1> HIDE DEF R
<1>12. Nat \subseteq R
  BY <1>10, <1>11, Induction
<1>13. ArgsTaken(taken[N], q, args, N)
  BY <1>1, <1>12 DEF R
<1> QED
  BY <1>2, <1>13 DEF N

-----------------------------------------------------------------------------
(* The path                                                                  *)

\* the places of the last k parts of the path that name column n
PathPlaces(n, k) == {p \in 1..Len(pathinfo) : p > Len(pathinfo) - k /\ pathinfo[p].id = n}

\* v is the value of column n after the last k parts of the path, w before them.
PathValue(v, w, n, k) ==
    \/ v = w /\ PathPlaces(n, k) = {}
    \/ \E p \in PathPlaces(n, k) : /\ v = PathPart(p)
                                   /\ \A r \in PathPlaces(n, k) : p <= r

PathTaken(r, q, s, k) ==
    /\ QueryOK(r, s)
    /\ \A n \in DOMAIN keys : PathValue(r.value[n], q.value[n], n, k)
    /\ r.used = q.used + k

PartTaken(q, k) == LET p == Len(pathinfo) + 1 - k
                   IN set_key(q, pathinfo[p].id, PathPart(p))

LEMMA PathIsThere ==
    ASSUME LinkInv
    PROVE  /\ SectionInv /\ KeysOK(keys) /\ pathinfo \in Seq(Reference)
           /\ Len(pathinfo) \in Nat /\ DOMAIN pathinfo = 1..Len(pathinfo)
           /\ \A p \in 1..Len(pathinfo) : pathinfo[p].id \in DOMAIN keys
<1>1. SectionInv /\ KeysOK(keys) /\ pathinfo \in Seq(Reference)
  BY DirectoryFields DEF LinkInv, SectionInv, Good, Section
<1>2. Len(pathinfo) \in Nat /\ DOMAIN pathinfo = 1..Len(pathinfo)
  BY <1>1
<1> QED
  BY <1>1, <1>2 DEF LinkInv, PathSerials

\* The last k of N places are the last k - 1 and the one before them.
LEMMA LastPlaces ==
    ASSUME NEW N \in Nat, NEW k \in 1..N, NEW p, p = N + 1 - k
    PROVE  /\ p \in 1..N /\ p \in Nat /\ p > N - k
           /\ \A u \in 1..N : u > N - k => u = p \/ u > N - (k - 1)
           /\ \A u \in 1..N : u > N - (k - 1) => u > N - k /\ p <= u
OBVIOUS

LEMMA PartTakenOK ==
    ASSUME LinkInv, NEW k \in 1..Len(pathinfo), NEW q, NEW s, NEW r, PathTaken(r, q, s, k - 1),
           q.used \in Nat
    PROVE  PathTaken(PartTaken(r, k), q, s, k)
<1> DEFINE N == Len(pathinfo)
           p == N + 1 - k
           n == pathinfo[p].id
           e == set_key(r, n, PathPart(p))
<1>1. /\ SectionInv /\ N \in Nat /\ k \in 1..N /\ p \in 1..N /\ p \in Nat
      /\ p > N - k /\ n \in DOMAIN keys
      /\ \A u \in 1..N : u > N - k => u = p \/ u > N - (k - 1)
      /\ \A u \in 1..N : u > N - (k - 1) => u > N - k /\ p <= u
  <2>1. SectionInv /\ N \in Nat /\ k \in 1..N
        /\ \A u \in 1..N : pathinfo[u].id \in DOMAIN keys
    BY PathIsThere
  <2> HIDE DEF N, n
  <2>2. p \in 1..N /\ p \in Nat /\ p > N - k
        /\ (\A u \in 1..N : u > N - k => u = p \/ u > N - (k - 1))
        /\ (\A u \in 1..N : u > N - (k - 1) => u > N - k /\ p <= u)
    BY <2>1, LastPlaces
  <2> QED
    BY <2>1, <2>2 DEF N, n
<1>2. QueryOK(r, s) /\ r.used = q.used + (k - 1)
      /\ \A c \in DOMAIN keys : PathValue(r.value[c], q.value[c], c, k - 1)
  BY DEF PathTaken
<1>3. PathPart(p) \in Values /\ PathPart(p) # NULL
  BY <1>1, ValuesAreThere
<1> HIDE DEF n
<1>4. /\ QueryOK(e, s) /\ e.value[n] = PathPart(p) /\ e.used = r.used + 1
      /\ \A c \in DOMAIN keys : c # n => e.value[c] = r.value[c]
  BY <1>1, <1>2, <1>3, SetKeyOK
<1> HIDE DEF e
<1>5. /\ \A c : c # n => PathPlaces(c, k) = PathPlaces(c, k - 1)
      /\ p \in PathPlaces(n, k) /\ \A u \in PathPlaces(n, k) : p <= u
  <2> HIDE DEF p
  <2>1. \A c : c # n => PathPlaces(c, k) = PathPlaces(c, k - 1)
    <3> SUFFICES ASSUME NEW c, c # n PROVE PathPlaces(c, k) = PathPlaces(c, k - 1)
      OBVIOUS
    <3>1. \A u \in 1..N : pathinfo[u].id = c => u # p
      BY DEF n
    <3> QED
      BY <1>1, <3>1 DEF PathPlaces
  <2>2. p \in PathPlaces(n, k)
    BY <1>1 DEF PathPlaces, n
  <2>3. \A u \in PathPlaces(n, k) : p <= u
    BY <1>1 DEF PathPlaces
  <2> QED
    BY <2>1, <2>2, <2>3
<1>6. ASSUME NEW c \in DOMAIN keys PROVE PathValue(e.value[c], q.value[c], c, k)
  <2>1. CASE c = n
    BY <1>4, <1>5, <2>1 DEF PathValue
  <2>2. CASE c # n
    BY <1>2, <1>4, <1>5, <2>2 DEF PathValue
  <2> QED
    BY <2>1, <2>2
<1>7. e.used = q.used + k
  BY <1>1, <1>2, <1>4
<1>8. PathTaken(e, q, s, k)
  BY <1>4, <1>6, <1>7 DEF PathTaken
<1> QED
  BY <1>8 DEF PartTaken, e, n

\* setPath() ends with the leftmost of the parts that the path has.
LEMMA PathIsTaken ==
    ASSUME LinkInv, NEW q, NEW s, QueryOK(q, s), NEW depth \in Nat
    PROVE  PathTaken(setPath(q, depth), q, s,
                     IF depth < Len(pathinfo) THEN depth ELSE Len(pathinfo))
<1> DEFINE N == IF depth < Len(pathinfo) THEN depth ELSE Len(pathinfo)
           take(r, k) == PartTaken(r, k)
           IsTaken(f) == f = [n \in 0..N |-> IF n = 0 THEN q ELSE take(f[n - 1], n)]
           taken == CHOOSE f : IsTaken(f)
           T == {r \in QueryItems : QueryOK(r, s)}
           step == [n \in 1..N |-> [r \in T |-> take(r, n)]]
<1>1. SectionInv /\ N \in Nat /\ N <= Len(pathinfo) /\ Len(pathinfo) \in Nat
  BY PathIsThere
<1>2. setPath(q, depth) = taken[N]
  BY DEF setPath, PartTaken
<1>3. \A n \in 1..N, r \in T : take(r, n) \in T
  <2> SUFFICES ASSUME NEW n \in 1..N, NEW r \in T PROVE QueryOK(take(r, n), s)
    BY DEF QueryOK
  <2> DEFINE p == Len(pathinfo) + 1 - n
             c == pathinfo[p].id
  <2>1. p \in 1..Len(pathinfo) /\ p \in Nat
    BY <1>1
  <2>2. c \in DOMAIN keys /\ PathPart(p) \in Values /\ PathPart(p) # NULL
    BY <2>1, PathIsThere, ValuesAreThere
  <2>3. take(r, n) = set_key(r, c, PathPart(p)) /\ QueryOK(r, s)
    BY DEF PartTaken
  <2> HIDE DEF p, c, take, T
  <2> QED
    BY <1>1, <2>2, <2>3, SetKeyOK
<1>4. q \in T /\ q.used \in Nat
  BY DEF QueryOK, QueryItems
<1> HIDE DEF T, N, take
<1>5. step \in [1..N -> [T -> T]] /\ \A n \in 1..N, r \in T : step[n][r] = take(r, n)
  BY <1>3
<1> HIDE DEF step
<1>6. PICK g \in [0..N -> T] : UpTo(g, N, q, step)
  BY <1>1, <1>4, <1>5, LoopExists
<1>7. IsTaken(g)
  <2>1. \A n \in 0..N : n # 0 => n \in 1..N /\ n - 1 \in 0..N
    BY <1>1
  <2>2. \A n \in 1..N : n - 1 \in 0..N
    BY <1>1
  <2>3. \A n \in 1..N : g[n] = take(g[n - 1], n)
    BY <1>5, <1>6, <2>2 DEF UpTo
  <2>4. \A n \in 0..N : g[n] = IF n = 0 THEN q ELSE take(g[n - 1], n)
    BY <1>6, <2>1, <2>3 DEF UpTo
  <2> QED
    BY <2>4
<1>8. IsTaken(taken)
  BY <1>7
<1> HIDE DEF taken
<1>9. taken[0] = q /\ \A n \in 1..N : taken[n] = take(taken[n - 1], n)
  <2>1. 0 \in 0..N /\ \A n \in 1..N : n \in 0..N /\ n # 0
    BY <1>1
  <2> QED
    BY <1>8, <2>1
<1> HIDE DEF IsTaken
<1> DEFINE R == {n \in Nat : n <= N => PathTaken(taken[n], q, s, n)}
<1>10. 0 \in R
  <2>1. \A n : PathPlaces(n, 0) = {}
    BY <1>1 DEF PathPlaces
  <2> QED
    BY <1>4, <1>9, <2>1 DEF PathTaken, PathValue
<1>11. ASSUME NEW n \in Nat, n \in R PROVE n + 1 \in R
  <2> SUFFICES ASSUME n + 1 <= N PROVE PathTaken(taken[n + 1], q, s, n + 1)
    OBVIOUS
  <2> DEFINE m == n + 1
  <2>1. m \in 1..N /\ m - 1 = n /\ n <= N /\ m \in 1..Len(pathinfo)
    BY <1>1
  <2>2. PathTaken(taken[n], q, s, m - 1)
    BY <1>11, <2>1
  <2>3. taken[m] = PartTaken(taken[n], m)
    BY <1>9, <2>1 DEF take
  <2> HIDE DEF m, R
  <2>4. PathTaken(PartTaken(taken[n], m), q, s, m)
    BY <1>4, <2>1, <2>2, PartTakenOK
  <2> QED
    BY <2>3, <2>4 DEF m
<1> HIDE DEF R
<1>12. Nat \subseteq R
  BY <1>10, <1>11, Induction
<1>13. PathTaken(taken[N], q, s, N)
  BY <1>1, <1>12 DEF R
<1> QED
  BY <1>2, <1>13 DEF N

-----------------------------------------------------------------------------
(* The names of the indexes' columns                                         *)

LEMMA KeyNamesHavePlans ==
    ASSUME LinkInv
    PROVE  /\ \A n \in DOMAIN keys :
                 keys[n].implied_plan # NoPlan => keys[n].name \in KeyNames
           /\ \A c \in KeyNames : \E n \in DOMAIN keys :
                 keys[n].name = c /\ keys[n].implied_plan # NoPlan
<1>1. ASSUME NEW n \in DOMAIN keys, keys[n].implied_plan # NoPlan
      PROVE  keys[n].name \in KeyNames
  <2> DEFINE i == keys[n].index_id
             s == Chain(keys, indexes[i])
             x == indexes[i].name
  <2>1. i \in DOMAIN indexes /\ n \in Cols(s)
    BY <1>1, ColumnsHaveParts
  <2>2. s \in Seq(DOMAIN keys) /\ x \in Indexes /\ DeclaredParts[x] = NamesOf(keys, s)
    BY <2>1, IndexChain
  <2> HIDE DEF i, s, x
  <2>3. PICK p \in DOMAIN s : s[p] = n
    BY <2>1, <2>2 DEF Cols
  <2>4. p \in DOMAIN DeclaredParts[x] /\ DeclaredParts[x][p] = keys[n].name
    BY <2>2, <2>3 DEF NamesOf
  <2>5. keys[n].name \in Range(DeclaredParts[x])
    BY <2>4 DEF Range
  <2> QED
    BY <2>2, <2>5 DEF KeyNames
<1>2. ASSUME NEW c \in KeyNames
      PROVE  \E n \in DOMAIN keys : keys[n].name = c /\ keys[n].implied_plan # NoPlan
  <2>1. PICK x \in Indexes : c \in Range(DeclaredParts[x])
    BY DEF KeyNames
  <2>2. PICK p \in DOMAIN DeclaredParts[x] : DeclaredParts[x][p] = c
    BY <2>1 DEF Range
  <2> QED
    BY <2>2, PartsHaveColumns
<1> QED
  BY <1>1, <1>2

-----------------------------------------------------------------------------
(* The values of a request                                                   *)

OnPath(req) == req.always \/ ~ \E a \in DOMAIN req.args : req.args[a] \in KeyNames

Entries(req, c) == {n \in DOMAIN pathinfo : /\ OnPath(req)
                                            /\ n > Len(pathinfo) - req.depth
                                            /\ keys[pathinfo[n].id].name = c}

ArgsOf(req, c) == {a \in DOMAIN req.args : req.args[a] = c}

FirstOf(S) == CHOOSE n \in S : \A m \in S : n <= m

LastOf(S) == CHOOSE n \in S : \A m \in S : n >= m

LEMMA GivenIs ==
    ASSUME NEW req, NEW c \in Columns
    PROVE  Given(req, KeyNames)[c] =
              IF Entries(req, c) # {} THEN PathPart(FirstOf(Entries(req, c)))
              ELSE IF ArgsOf(req, c) # {} THEN Arg(LastOf(ArgsOf(req, c)))
              ELSE NULL
BY DEF Given, OnPath, Entries, ArgsOf, FirstOf, LastOf

LEMMA FirstIs ==
    ASSUME NEW S, S \subseteq Nat, NEW p \in S, \A r \in S : p <= r
    PROVE  FirstOf(S) = p
<1>1. FirstOf(S) \in S /\ \A m \in S : FirstOf(S) <= m
  BY DEF FirstOf
<1>2. FirstOf(S) <= p /\ p <= FirstOf(S) /\ p \in Nat /\ FirstOf(S) \in Nat
  BY <1>1
<1> HIDE DEF FirstOf
<1> QED
  BY <1>2

LEMMA LastIs ==
    ASSUME NEW S, S \subseteq Nat, NEW p \in S, \A r \in S : r <= p
    PROVE  LastOf(S) = p
<1>1. \A m \in S : p >= m
  OBVIOUS
<1>2. LastOf(S) \in S /\ \A m \in S : LastOf(S) >= m
  BY <1>1 DEF LastOf
<1>3. LastOf(S) >= p /\ p >= LastOf(S) /\ p \in Nat /\ LastOf(S) \in Nat
  BY <1>1, <1>2
<1> QED
  BY <1>3

\* a request's arguments and path
IsRequest(req) ==
    req.args \in Seq(Columns) /\ req.depth \in Nat /\ req.always \in BOOLEAN

LEMMA RequestType ==
    ASSUME NEW req \in Requests
    PROVE  IsRequest(req)
<1>1. /\ req.args \in UNION {[1..n -> Columns] : n \in 0..MaxArgs}
      /\ req.depth \in 0..MaxPath /\ req.always \in BOOLEAN
  BY DEF Requests
<1>2. MaxArgs \in Nat /\ MaxPath \in Nat
  BY LookupAssumption, KeyColumnsAssumption
<1>3. PICK n \in 0..MaxArgs : req.args \in [1..n -> Columns]
  BY <1>1
<1>4. req.args \in Seq(Columns)
  BY <1>2, <1>3
<1> QED
  BY <1>1, <1>2, <1>4 DEF IsRequest

LEMMA ArgumentsGive ==
    ASSUME NEW args \in Seq(Columns), NEW req, req.args = args,
           NEW v, NEW c, ArgValue(v, args, c, Len(args))
    PROVE  v = IF ArgsOf(req, c) # {} THEN Arg(LastOf(ArgsOf(req, c))) ELSE NULL
<1>1. Len(args) \in Nat /\ DOMAIN args = 1..Len(args)
  OBVIOUS
<1> DEFINE S == ArgsOf(req, c)
<1>2. S = {a \in 1..Len(args) : args[a] = c} /\ S \subseteq Nat
  BY <1>1 DEF ArgsOf
<1> HIDE DEF S
<1>3. CASE v = NULL /\ \A a \in 1..Len(args) : args[a] # c
  BY <1>2, <1>3 DEF S
<1>4. CASE \E a \in 1..Len(args) : /\ args[a] = c /\ v = Arg(a)
                                   /\ \A b \in 1..Len(args) : args[b] = c => b <= a
  <2>1. PICK a \in 1..Len(args) : /\ args[a] = c /\ v = Arg(a)
                                  /\ \A b \in 1..Len(args) : args[b] = c => b <= a
    BY <1>4
  <2>2. a \in S /\ \A b \in S : b <= a
    BY <1>2, <2>1
  <2>3. LastOf(S) = a
    BY <1>2, <2>2, LastIs
  <2> QED
    BY <2>1, <2>2, <2>3 DEF S
<1> QED
  BY <1>3, <1>4 DEF ArgValue

\* An argument that names a part of an index brings a plan.
LEMMA KeyNamePlans ==
    ASSUME LinkInv, NEW args \in Seq(Columns), NEW q, NEW s,
           ArgsTaken(q, s, args, Len(args)), NEW a \in DOMAIN args, args[a] \in KeyNames
    PROVE  q.plan # NoPlan
<1>1. Len(args) \in Nat /\ DOMAIN args = 1..Len(args)
  OBVIOUS
<1>2. QueryOK(q, s) /\ \A n \in DOMAIN keys : ArgValue(q.value[n], args, keys[n].name, Len(args))
  BY DEF ArgsTaken
<1>3. PlanOK(q, s) /\ q.plan \in {0, 2, 3, 4, 5}
  BY <1>2 DEF QueryOK, QueryItems, Plans
<1>4. PICK n \in DOMAIN keys : keys[n].name = args[a] /\ keys[n].implied_plan # NoPlan
  BY KeyNamesHavePlans
<1>5. ArgValue(q.value[n], args, keys[n].name, Len(args))
  BY <1>2
<1>6. PICK b \in 1..Len(args) : q.value[n] = Arg(b)
  BY <1>1, <1>4, <1>5 DEF ArgValue
<1>7. q.value[n] # NULL
  BY <1>1, <1>6, ValuesAreThere
<1>8. keys[n].implied_plan <= q.plan
  BY <1>3, <1>7 DEF PlanOK, GivenColumns
<1>9. SectionInv
  BY DEF LinkInv
<1>10. keys[n].implied_plan \in {0, 2, 3, 5}
  BY <1>9, ColumnsAreFinite DEF Column
<1> QED
  BY <1>3, <1>4, <1>8, <1>10 DEF NoPlan

\* The path is read unless an argument names a part of an index.
LEMMA PathIsUsed ==
    ASSUME LinkInv, NEW req, IsRequest(req), NEW s, s.plan = NoPlan,
           s.active_index = None,
           NEW q, ArgsTaken(q, s, req.args, Len(req.args))
    PROVE  usesPath(q, req.always) <=> Len(pathinfo) > 0 /\ OnPath(req)
<1> DEFINE args == req.args
<1>1. args \in Seq(Columns) /\ Len(args) \in Nat /\ DOMAIN args = 1..Len(args)
  BY DEF IsRequest
<1>2. QueryOK(q, s) /\ \A n \in DOMAIN keys : ArgValue(q.value[n], args, keys[n].name, Len(args))
  BY DEF ArgsTaken
<1>3. PlanOK(q, s) /\ q.plan \in {0, 2, 3, 4, 5}
  BY <1>2 DEF QueryOK, QueryItems, Plans
<1> HIDE DEF args
<1>4. ASSUME q.plan # NoPlan
      PROVE  \E a \in DOMAIN args : args[a] \in KeyNames
  <2>1. PICK n \in GivenColumns(q) : keys[n].implied_plan # NoPlan
    BY <1>3, <1>4 DEF PlanOK
  <2>2. n \in DOMAIN keys /\ q.value[n] # NULL
    BY DEF GivenColumns
  <2>3. PICK a \in 1..Len(args) : args[a] = keys[n].name
    BY <1>2, <2>2 DEF ArgValue
  <2>4. keys[n].name \in KeyNames
    BY <2>1, <2>2, KeyNamesHavePlans
  <2> QED
    BY <1>1, <2>3, <2>4
<1>5. ASSUME NEW a \in DOMAIN args, args[a] \in KeyNames
      PROVE  q.plan # NoPlan
  BY <1>1, <1>5, KeyNamePlans DEF args
<1>6. q.plan = NoPlan <=> ~ \E a \in DOMAIN args : args[a] \in KeyNames
  BY <1>4, <1>5
<1> QED
  BY <1>6 DEF usesPath, OnPath, args

\* The places of PathInfo that name a column, and that the request's path has
LEMMA EntriesAre ==
    ASSUME LinkInv, NEW req, IsRequest(req), NEW n \in DOMAIN keys
    PROVE  Entries(req, keys[n].name) =
              IF OnPath(req)
              THEN PathPlaces(n, IF req.depth < Len(pathinfo) THEN req.depth
                                 ELSE Len(pathinfo))
              ELSE {}
<1> DEFINE N == Len(pathinfo)
           k == IF req.depth < N THEN req.depth ELSE N
           c == keys[n].name
<1>1. /\ N \in Nat /\ DOMAIN pathinfo = 1..N /\ KeysOK(keys) /\ SectionInv
      /\ \A p \in 1..N : pathinfo[p].id \in DOMAIN keys
  BY PathIsThere
<1>2. req.depth \in Nat
  BY DEF IsRequest
<1>3. \A p \in 1..N : p > N - req.depth <=> p > N - k
  BY <1>1, <1>2
<1>4. \A p \in 1..N : keys[pathinfo[p].id].name = c <=> pathinfo[p].id = n
  BY <1>1, NamesTellColumns
<1> HIDE DEF k, c, N
<1>5. CASE OnPath(req)
  BY <1>1, <1>3, <1>4, <1>5 DEF Entries, PathPlaces, N, k, c
<1>6. CASE ~OnPath(req)
  BY <1>6 DEF Entries
<1> QED
  BY <1>5, <1>6 DEF N, k, c

LEMMA PathGives ==
    ASSUME NEW v, NEW w, NEW n, NEW k, PathValue(v, w, n, k), Len(pathinfo) \in Nat
    PROVE  v = IF PathPlaces(n, k) # {} THEN PathPart(FirstOf(PathPlaces(n, k))) ELSE w
<1> DEFINE S == PathPlaces(n, k)
<1>1. S \subseteq Nat
  BY DEF PathPlaces
<1> HIDE DEF S
<1>2. CASE \E p \in S : v = PathPart(p) /\ \A r \in S : p <= r
  <2>1. PICK p \in S : v = PathPart(p) /\ \A r \in S : p <= r
    BY <1>2
  <2>2. FirstOf(S) = p
    BY <1>1, <2>1, FirstIs
  <2> QED
    BY <2>1, <2>2 DEF S
<1> QED
  BY <1>2 DEF PathValue, S

\* q, which starts as s, holds the values that g gives by name.
HoldsGiven(q, s, g) ==
    QueryOK(q, s) /\ \A n \in DOMAIN keys : g[keys[n].name] = q.value[n]

\* The query items hold the values that the request gives.
LEMMA TakenAreGiven ==
    ASSUME LinkInv, NEW req, IsRequest(req), NEW s, StartOK(s),
           NEW a, a = setArguments(s, req.args),
           NEW q, q = IF usesPath(a, req.always) THEN setPath(a, req.depth) ELSE a,
           usesPath(a, req.always) <=> Len(pathinfo) > 0 /\ OnPath(req)
    PROVE  HoldsGiven(q, s, Given(req, KeyNames))
<1> DEFINE k == IF req.depth < Len(pathinfo) THEN req.depth ELSE Len(pathinfo)
<1>1. SectionInv /\ KeysOK(keys) /\ Len(pathinfo) \in Nat
  BY PathIsThere
<1>2. req.args \in Seq(Columns) /\ req.depth \in Nat
  BY DEF IsRequest
<1>3. ArgsTaken(a, s, req.args, Len(req.args))
  BY <1>1, <1>2, ArgumentsTaken
<1>6. QueryOK(a, s) /\ \A n \in DOMAIN keys :
                        ArgValue(a.value[n], req.args, keys[n].name, Len(req.args))
  BY <1>3 DEF ArgsTaken
<1>7. PathTaken(setPath(a, req.depth), a, s, k)
  BY <1>2, <1>6, PathIsTaken
<1>8. QueryOK(q, s)
  BY <1>6, <1>7 DEF PathTaken
<1>9. ASSUME NEW n \in DOMAIN keys PROVE Given(req, KeyNames)[keys[n].name] = q.value[n]
  <2> DEFINE c == keys[n].name
             E == Entries(req, c)
             w == IF ArgsOf(req, c) # {} THEN Arg(LastOf(ArgsOf(req, c))) ELSE NULL
  <2>1. c \in Columns
    BY <1>1, NamesAreNumbers
  <2>2. Given(req, KeyNames)[c] = IF E # {} THEN PathPart(FirstOf(E)) ELSE w
    BY <2>1, GivenIs
  <2>3. ArgValue(a.value[n], req.args, c, Len(req.args))
    BY <1>6
  <2> HIDE DEF c
  <2>4. a.value[n] = w
    BY <1>2, <2>3, ArgumentsGive
  <2>5. E = IF OnPath(req) THEN PathPlaces(n, k) ELSE {}
    BY EntriesAre DEF c
  <2> HIDE DEF E, w, k
  <2>6. CASE usesPath(a, req.always)
    <3>1. PathValue(q.value[n], a.value[n], n, k)
      BY <1>7, <2>6 DEF PathTaken
    <3>2. q.value[n] = IF PathPlaces(n, k) # {} THEN PathPart(FirstOf(PathPlaces(n, k)))
                       ELSE a.value[n]
      BY <1>1, <3>1, PathGives
    <3> QED
      BY <2>2, <2>4, <2>5, <2>6, <3>2 DEF c
  <2>7. CASE ~usesPath(a, req.always)
    <3>1. Len(pathinfo) = 0 => PathPlaces(n, k) = {}
      BY DEF PathPlaces
    <3>2. E = {}
      BY <1>1, <2>5, <2>7, <3>1
    <3> QED
      BY <2>2, <2>4, <2>7, <3>2 DEF c
  <2> QED
    BY <2>6, <2>7
<1> QED
  BY <1>8, <1>9 DEF HoldsGiven

LEMMA ItemsAreGiven ==
    ASSUME LinkInv, NEW req \in Requests
    PROVE  HoldsGiven(Items(req), NoItems, Given(req, KeyNames))
<1> DEFINE a == setArguments(NoItems, req.args)
           q == Items(req)
<1>1. IsRequest(req) /\ SectionInv
  BY RequestType DEF LinkInv
<1>2. StartOK(NoItems) /\ NoItems.plan = NoPlan /\ NoItems.active_index = None
  BY <1>1, NoItemsOK
<1>3. ArgsTaken(a, NoItems, req.args, Len(req.args))
  BY <1>1, <1>2, ArgumentsTaken DEF IsRequest
<1>4. q = IF usesPath(a, req.always) THEN setPath(a, req.depth) ELSE a
  BY DEF Items
<1> HIDE DEF q
<1>5. a = setArguments(NoItems, req.args)
  OBVIOUS
<1> HIDE DEF a
<1>6. usesPath(a, req.always) <=> Len(pathinfo) > 0 /\ OnPath(req)
  BY <1>1, <1>2, <1>3, PathIsUsed
<1>7. HoldsGiven(q, NoItems, Given(req, KeyNames))
  BY <1>1, <1>2, <1>4, <1>5, <1>6, TakenAreGiven
<1> QED
  BY <1>7 DEF q

-----------------------------------------------------------------------------
(* The index and its key                                                     *)

PlanOfIndex(x) == ImpliedPlan[IndexType[x]]

Named(g) == {x \in Indexes : \E p \in DOMAIN DeclaredParts[x] :
                                 g[DeclaredParts[x][p]] # NULL}

\* An index with a part that is named has a column with a value.
LEMMA NamedHasColumn ==
    ASSUME LinkInv, NEW q, NEW start, NEW g, HoldsGiven(q, start, g), NEW x \in Named(g)
    PROVE  \E n \in GivenColumns(q) : /\ keys[n].implied_plan = PlanOfIndex(x)
                                      /\ keys[n].implied_plan # NoPlan
<1>1. PICK p \in DOMAIN DeclaredParts[x] : g[DeclaredParts[x][p]] # NULL
  BY DEF Named
<1>2. x \in Indexes
  BY DEF Named
<1>3. PICK i \in DOMAIN indexes :
              LET s == Chain(keys, indexes[i])
              IN /\ indexes[i].name = x /\ p \in DOMAIN s /\ s[p] \in DOMAIN keys
                 /\ s[p] \in Cols(s) /\ keys[s[p]].name = DeclaredParts[x][p]
                 /\ keys[s[p]].implied_plan = PlanOf(indexes[i])
                 /\ keys[s[p]].implied_plan # NoPlan
  BY <1>1, <1>2, PartsHaveColumns
<1> DEFINE n == Chain(keys, indexes[i])[p]
<1>4. /\ n \in DOMAIN keys /\ keys[n].name = DeclaredParts[x][p]
      /\ keys[n].implied_plan = PlanOf(indexes[i]) /\ keys[n].implied_plan # NoPlan
      /\ indexes[i].name = x
  BY <1>3
<1> HIDE DEF n
<1>5. q.value[n] # NULL
  BY <1>1, <1>4 DEF HoldsGiven
<1> QED
  BY <1>4, <1>5 DEF GivenColumns, PlanOf, PlanOfIndex

\* An index that is not that of the start is the one of a column with a value.
LEMMA ActiveIndex ==
    ASSUME LinkInv, NEW q, NEW start, NEW g, HoldsGiven(q, start, g),
           ~ (q.active_index = start.active_index /\ q.plan = start.plan)
    PROVE  /\ q.active_index \in DOMAIN indexes
           /\ indexes[q.active_index].name \in Named(g)
           /\ q.plan = PlanOfIndex(indexes[q.active_index].name)
<1> DEFINE i == q.active_index
           s == Chain(keys, indexes[i])
           x == indexes[i].name
<1>1. PICK n \in GivenColumns(q) : /\ keys[n].implied_plan = q.plan
                                   /\ keys[n].implied_plan # NoPlan
                                   /\ keys[n].index_id = i
  BY DEF HoldsGiven, QueryOK, PlanOK
<1>2. n \in DOMAIN keys /\ q.value[n] # NULL
  BY DEF GivenColumns
<1>3. i \in DOMAIN indexes /\ n \in Cols(s) /\ keys[n].implied_plan = PlanOf(indexes[i])
  BY <1>1, <1>2, ColumnsHaveParts
<1>4. s \in Seq(DOMAIN keys) /\ x \in Indexes /\ DeclaredParts[x] = NamesOf(keys, s)
  BY <1>3, IndexChain
<1>5. q.plan = PlanOfIndex(x)
  BY <1>1, <1>3 DEF PlanOf, PlanOfIndex
<1> HIDE DEF i, s, x
<1>6. PICK p \in DOMAIN s : s[p] = n
  BY <1>3, <1>4 DEF Cols
<1>7. p \in DOMAIN DeclaredParts[x] /\ DeclaredParts[x][p] = keys[n].name
  BY <1>4, <1>6 DEF NamesOf
<1>8. g[DeclaredParts[x][p]] # NULL
  BY <1>2, <1>7 DEF HoldsGiven
<1>9. x \in Named(g)
  BY <1>4, <1>7, <1>8 DEF Named
<1> QED
  BY <1>3, <1>5, <1>9 DEF i, s, x

LEMMA BestIndexChosen ==
    ASSUME LinkInv, NEW q, NEW start, NEW g, HoldsGiven(q, start, g),
           start.plan = NoPlan, start.active_index = None
    PROVE  IF q.active_index = None
           THEN Named(g) = {}
           ELSE /\ indexes[q.active_index].name \in Named(g)
                /\ q.plan = PlanOfIndex(indexes[q.active_index].name)
                /\ \A x \in Named(g) : PlanOfIndex(x) <= q.plan
<1>1. ASSUME NEW x \in Named(g)
      PROVE  /\ PlanOfIndex(x) <= q.plan /\ PlanOfIndex(x) \in {2, 3, 5}
             /\ q.plan \in {0, 2, 3, 4, 5}
  <2>1. PICK n \in GivenColumns(q) : /\ keys[n].implied_plan = PlanOfIndex(x)
                                     /\ keys[n].implied_plan # NoPlan
    BY NamedHasColumn
  <2>2. n \in DOMAIN keys /\ SectionInv
    BY DEF GivenColumns, LinkInv
  <2>3. keys[n].implied_plan \in {0, 2, 3, 5}
    BY <2>2, ColumnsAreFinite DEF Column
  <2>4. keys[n].implied_plan <= q.plan /\ q.plan \in {0, 2, 3, 4, 5}
    BY DEF HoldsGiven, QueryOK, PlanOK, QueryItems, Plans
  <2> QED
    BY <2>1, <2>3, <2>4 DEF NoPlan
<1>2. CASE q.active_index = None
  <2>1. q.plan = 0
    <3>1. CASE q.plan = start.plan
      BY <3>1 DEF NoPlan
    <3>2. CASE q.plan # start.plan
      <4>1. None \in DOMAIN indexes
        BY <1>2, <3>2, ActiveIndex
      <4> QED
        BY <4>1, IndexChain DEF None
    <3> QED
      BY <3>1, <3>2
  <2>2. Named(g) = {}
    BY <1>1, <2>1
  <2> QED
    BY <1>2, <2>2
<1>3. CASE q.active_index # None
  BY <1>1, <1>3, ActiveIndex
<1> QED
  BY <1>2, <1>3

LEMMA KeyIsBound ==
    ASSUME LinkInv, NEW q, NEW start, NEW g, HoldsGiven(q, start, g), q.active_index \in DOMAIN indexes,
           NEW key, key = DeclaredParts[indexes[q.active_index].name],
           \A p \in DOMAIN key : g[key[p]] # NULL
    PROVE  Bound(q) = [p \in DOMAIN key |-> <<key[p], g[key[p]]>>]
<1> DEFINE i == q.active_index
           s == Chain(keys, indexes[i])
           N == Len(s)
           G == GivenColumns(q)
<1>1. i \in DOMAIN indexes
  OBVIOUS
<1>2. s \in Seq(DOMAIN keys) /\ Distinct(s) /\ key = NamesOf(keys, s)
  BY <1>1, IndexChain
<1>3. Bound(q) = [p \in 1..(IF q.used < N THEN q.used ELSE N) |->
                     <<keys[s[p]].name, q.value[s[p]]>>]
  BY DEF Bound
<1> HIDE DEF i, s
<1>4. /\ N \in Nat /\ DOMAIN s = 1..N /\ DOMAIN key = 1..N
      /\ \A p \in 1..N : s[p] \in DOMAIN keys /\ key[p] = keys[s[p]].name
  BY <1>2 DEF NamesOf
<1>5. \A p \in 1..N : g[key[p]] = q.value[s[p]] /\ q.value[s[p]] # NULL
  BY <1>4 DEF HoldsGiven
<1>6. s \in [1..N -> G]
  <2>1. \A p \in 1..N : s[p] \in G
    BY <1>4, <1>5 DEF GivenColumns
  <2>2. s = [p \in 1..N |-> s[p]]
    BY <1>2
  <2> QED
    BY <2>1, <2>2
<1>7. IsFiniteSet(G) /\ Cardinality(G) \in Nat /\ Cardinality(G) <= q.used /\ q.used \in Nat
  <2>1. SectionInv
    BY DEF LinkInv
  <2>2. G \subseteq DOMAIN keys
    BY DEF GivenColumns
  <2>3. IsFiniteSet(G)
    BY <2>1, <2>2, ColumnsAreFinite, FS_Subset
  <2>4. Cardinality(G) \in Nat
    BY <2>3, FS_CardinalityType
  <2> QED
    BY <2>3, <2>4 DEF HoldsGiven, QueryOK, PlanOK, QueryItems
<1> HIDE DEF G, N
<1>8. N <= Cardinality(G)
  <2>1. IsFiniteSet(1..N) /\ Cardinality(1..N) = N
    BY <1>4, FS_Interval
  <2>2. \A x, y \in 1..N : s[x] = s[y] => x = y
    BY <1>2 DEF Distinct, N
  <2>3. ASSUME Cardinality(G) < Cardinality(1..N) PROVE FALSE
    <3> DEFINE S == 1..N
    <3>1. /\ IsFiniteSet(S) /\ IsFiniteSet(G) /\ Cardinality(G) < Cardinality(S)
          /\ s \in [S -> G]
      BY <1>6, <1>7, <2>1, <2>3
    <3> HIDE DEF S
    <3>2. \E x, y \in S : x # y /\ s[x] = s[y]
      BY <3>1, FS_PigeonHole
    <3> QED
      BY <2>2, <3>2 DEF S
  <2> QED
    BY <1>4, <1>7, <2>1, <2>3
<1>9. (IF q.used < N THEN q.used ELSE N) = N
  BY <1>4, <1>7, <1>8
<1> QED
  BY <1>3, <1>4, <1>5, <1>9

\* A request uses the best index that it names a part of.
LEMMA LinkedChoose == SectionLinks => BestIndexIsUsed
<1> SUFFICES ASSUME LinkInv, NEW req \in Requests
             PROVE  LET q == Items(req)
                        g == Given(req, KeyNames)
                    IN IF q.active_index = None
                       THEN Named(g) = {}
                       ELSE /\ indexes[q.active_index].name \in Named(g)
                            /\ q.plan = PlanOfIndex(indexes[q.active_index].name)
                            /\ \A x \in Named(g) : PlanOfIndex(x) <= q.plan
  BY DEF BestIndexIsUsed, EveryLookup, Named, PlanOfIndex, SectionLinks
<1> DEFINE q == Items(req)
           g == Given(req, KeyNames)
<1>0. NoItems.plan = NoPlan /\ NoItems.active_index = None
  BY DEF NoItems
<1>1. HoldsGiven(q, NoItems, g)
  BY ItemsAreGiven
<1> HIDE DEF q, g
<1>2. IF q.active_index = None
      THEN Named(g) = {}
      ELSE /\ indexes[q.active_index].name \in Named(g)
           /\ q.plan = PlanOfIndex(indexes[q.active_index].name)
           /\ \A x \in Named(g) : PlanOfIndex(x) <= q.plan
  BY <1>0, <1>1, BestIndexChosen
<1> QED
  BY <1>2 DEF q, g

LEMMA LinkedBind == SectionLinks => CompleteKeyIsBound
<1> SUFFICES ASSUME LinkInv, NEW req \in Requests, Items(req).active_index # None,
                    NEW key, key = DeclaredParts[indexes[Items(req).active_index].name],
                    \A p \in DOMAIN key : Given(req, KeyNames)[key[p]] # NULL
             PROVE  Bound(Items(req)) =
                       [p \in DOMAIN key |-> <<key[p], Given(req, KeyNames)[key[p]]>>]
  BY DEF CompleteKeyIsBound, EveryLookup, SectionLinks
<1> DEFINE q == Items(req)
           g == Given(req, KeyNames)
<1>0. NoItems.plan = NoPlan /\ NoItems.active_index = None
  BY DEF NoItems
<1>1. HoldsGiven(q, NoItems, g)
  BY ItemsAreGiven
<1> HIDE DEF q, g
<1>2. q.active_index \in DOMAIN indexes
  BY <1>0, <1>1, ActiveIndex DEF q
<1> HIDE DEF q, g
<1>3. Bound(q) = [p \in DOMAIN key |-> <<key[p], g[key[p]]>>]
  BY <1>1, <1>2, KeyIsBound DEF q, g
<1> QED
  BY <1>3 DEF q, g

\* The best index is used: in every section whose indexes share no column, of
\* any number of columns and indexes, and for every request, the index chosen
\* by set_key() (Query.cc:170) has a part among the names the request gives and
\* no name belongs to an index of a better kind.
THEOREM RequestUsesBestIndex == Reuse = FALSE => (Spec => []BestIndexIsUsed)
<1> SUFFICES ASSUME Reuse = FALSE PROVE Spec => []BestIndexIsUsed
  OBVIOUS
<1>1. Spec => []SectionLinks
  BY SectionIsLinked
<1>2. SectionLinks => BestIndexIsUsed
  BY LinkedChoose
<1> QED
  BY <1>1, <1>2, PTL

\* The key is bound: a request that gives every part of its index looks up that
\* key, each part bound to the value the URL gives it in the order the parts
\* are declared (Query.cc:429).
THEOREM RequestBindsKey == Reuse = FALSE => (Spec => []CompleteKeyIsBound)
<1> SUFFICES ASSUME Reuse = FALSE PROVE Spec => []CompleteKeyIsBound
  OBVIOUS
<1>1. Spec => []SectionLinks
  BY SectionIsLinked
<1>2. SectionLinks => CompleteKeyIsBound
  BY LinkedBind
<1> QED
  BY <1>1, <1>2, PTL
=============================================================================
