---------------------------- MODULE SectionProofs ----------------------------
(* Theorems about the key columns of a section: KeyColumns and Lookup, for   *)
(* every number of columns, indexes and arguments.                           *)
EXTENDS Lookup, Recurrence

-----------------------------------------------------------------------------
(* Arrays                                                                    *)

Array(S) == UNION {[0..(n - 1) -> S] : n \in Nat}

Column == [name : Columns, serial_no : Nat, index_id : Nat, filter : BOOLEAN,
           implied_plan : {0, 2, 3, 5}, next_in_key : Nat \union {None},
           next_in_key_serial : Nat \union {None}]

Index == [name : Indexes, first_col : Nat \union {None},
          first_col_serial : Nat \union {None}, n_columns : Nat]

\* An array of n elements has the places from 0 to n - 1.
LEMMA ArraySize ==
    ASSUME NEW S, NEW K \in Array(S)
    PROVE  /\ Size(K) \in Nat
           /\ K \in [0..(Size(K) - 1) -> S]
           /\ DOMAIN K = 0..(Size(K) - 1)
<1>1. PICK n \in Nat : K \in [0..(n - 1) -> S]
  BY DEF Array
<1>2. Cardinality(0..(n - 1)) = n
  BY FS_Interval
<1> QED
  BY <1>1, <1>2 DEF Size

LEMMA IsArray ==
    ASSUME NEW S, NEW n \in Nat, NEW K \in [0..(n - 1) -> S]
    PROVE  K \in Array(S) /\ Size(K) = n
<1>1. Cardinality(0..(n - 1)) = n
  BY FS_Interval
<1> QED
  BY <1>1 DEF Array, Size

\* The array of columns is sorted, its serial numbers are a permutation of its
\* places, and its links lead to columns.
Sorted(K) == \A m, n \in DOMAIN K : m < n => K[m].name < K[n].name

SerialsOK(K) ==
    /\ \A n \in DOMAIN K : K[n].serial_no \in DOMAIN K
    /\ \A m, n \in DOMAIN K : K[m].serial_no = K[n].serial_no => m = n
    /\ \A s \in DOMAIN K : \E n \in DOMAIN K : K[n].serial_no = s

LinksOK(K) ==
    \A n \in DOMAIN K : /\ K[n].next_in_key \in DOMAIN K \union {None}
                        /\ K[n].next_in_key_serial \in DOMAIN K \union {None}

KeysOK(K) == K \in Array(Column) /\ Sorted(K) /\ SerialsOK(K) /\ LinksOK(K)

-----------------------------------------------------------------------------
(* add_key_column() on the array of columns                                  *)

LEMMA NamesAreNumbers ==
    ASSUME NEW K, KeysOK(K), NEW n \in DOMAIN K
    PROVE  K[n].name \in Columns /\ K[n].name \in Nat
<1>1. K[n] \in Column
  BY ArraySize DEF KeysOK
<1> QED
  BY <1>1, KeyColumnsAssumption DEF Column

\* The search stops at the first column that does not sort before the name.
LEMMA PlaceIsFirst ==
    ASSUME NEW K, KeysOK(K), NEW name \in Columns
    PROVE  LET p == Place(K, name)
           IN /\ p \in 0..Size(K)
              /\ p = Size(K) \/ name <= K[p].name
              /\ \A m \in 0..(p - 1) : name > K[m].name
<1>1. /\ Size(K) \in Nat /\ K \in [0..(Size(K) - 1) -> Column]
      /\ Columns \subseteq Nat
  BY ArraySize, KeyColumnsAssumption DEF KeysOK
<1> DEFINE S == {n \in 0..Size(K) : n = Size(K) \/ name <= K[n].name}
<1>2. S \in SUBSET Nat /\ S # {}
  BY <1>1
<1>3. PICK p \in S : \A k \in S : p <= k
  BY <1>2, LeastNatural
<1>4. ASSUME NEW m \in 0..(p - 1) PROVE name > K[m].name
  <2>1. p \in 0..Size(K) /\ m \in 0..Size(K) /\ m # Size(K) /\ m \notin S
    BY <1>1, <1>3
  <2>2. m \in 0..(Size(K) - 1) /\ K[m] \in Column
    BY <1>1, <2>1
  <2> QED
    BY <1>1, <2>1, <2>2, NamesAreNumbers
<1> QED
  BY <1>3, <1>4 DEF Place

LEMMA BucketIsPlace ==
    ASSUME NEW K, KeysOK(K), NEW s \in DOMAIN K
    PROVE  Bucket(K, s) \in DOMAIN K /\ K[Bucket(K, s)].serial_no = s
BY DEF KeysOK, SerialsOK, Bucket

LEMMA BucketOfSerial ==
    ASSUME NEW K, KeysOK(K), NEW n \in DOMAIN K
    PROVE  Bucket(K, K[n].serial_no) = n
<1>1. K[n].serial_no \in DOMAIN K
  BY DEF KeysOK, SerialsOK
<1>2. /\ Bucket(K, K[n].serial_no) \in DOMAIN K
      /\ K[Bucket(K, K[n].serial_no)].serial_no = K[n].serial_no
  BY <1>1, BucketIsPlace
<1> QED
  BY <1>2 DEF KeysOK, SerialsOK

\* Where a column is once the name is in the array
Shift(K, name, n) == IF n < Place(K, name) THEN n ELSE n + 1

\* A new column goes to its place, and those behind it move by one.
LEMMA InsertedOK ==
    ASSUME NEW K, KeysOK(K), NEW name \in Columns, ~Exists(K, name)
    PROVE  LET I == Inserted(K, name)
               p == Place(K, name)
           IN /\ KeysOK(I) /\ Size(I) = Size(K) + 1
              /\ p \in DOMAIN I /\ I[p] = NewColumn(name, Size(K))
              /\ \A n \in DOMAIN K : /\ Shift(K, name, n) \in DOMAIN I
                                     /\ Shift(K, name, n) # p
                                     /\ I[Shift(K, name, n)] = K[n]
              /\ \A n \in DOMAIN I : n # p => \E m \in DOMAIN K : n = Shift(K, name, m)
<1> DEFINE I == Inserted(K, name)
           p == Place(K, name)
           N == Size(K)
<1>1. /\ N \in Nat /\ K \in [0..(N - 1) -> Column] /\ DOMAIN K = 0..(N - 1)
      /\ Columns \subseteq Nat
  BY ArraySize, KeyColumnsAssumption DEF KeysOK
<1>2. p \in 0..N /\ (p < N => name < K[p].name) /\ \A m \in 0..(p - 1) : name > K[m].name
  <2>1. p \in 0..N /\ (p = N \/ name <= K[p].name) /\ \A m \in 0..(p - 1) : name > K[m].name
    BY PlaceIsFirst
  <2>2. p < N => K[p].name # name
    BY DEF Exists
  <2>3. p < N => K[p].name \in Nat
    BY <1>1, <2>1, NamesAreNumbers
  <2> QED
    BY <1>1, <2>1, <2>2, <2>3
<1> HIDE DEF p, N
<1>3. I = [n \in 0..N |-> IF n < p THEN K[n] ELSE IF n = p THEN NewColumn(name, N) ELSE K[n - 1]]
  BY DEF Inserted, p, N
<1> HIDE DEF I
<1>4. NewColumn(name, N) \in Column
  BY <1>1 DEF NewColumn, Column, NoPlan
<1>5. I \in [0..N -> Column]
  BY <1>1, <1>2, <1>3, <1>4
<1>6. I \in Array(Column) /\ Size(I) = N + 1 /\ DOMAIN I = 0..N
  <2>1. N + 1 \in Nat /\ 0..N = 0..((N + 1) - 1)
    BY <1>1
  <2> QED
    BY <1>5, <2>1, IsArray
<1>7. p \in DOMAIN I /\ I[p] = NewColumn(name, N)
  BY <1>1, <1>2, <1>3
<1>8. \A n \in DOMAIN K : /\ Shift(K, name, n) \in DOMAIN I
                          /\ Shift(K, name, n) # p
                          /\ I[Shift(K, name, n)] = K[n]
  BY <1>1, <1>2, <1>3 DEF Shift, p
<1>9. \A n \in DOMAIN I : n # p => \E m \in DOMAIN K : n = Shift(K, name, m)
  <2> SUFFICES ASSUME NEW n \in 0..N, n # p
               PROVE  \E m \in 0..(N - 1) : n = Shift(K, name, m)
    BY <1>1, <1>6
  <2>1. CASE n < p
    <3>1. n \in 0..(N - 1) /\ n = Shift(K, name, n)
      BY <1>1, <1>2, <2>1 DEF Shift, p
    <3> QED
      BY <3>1
  <2>2. CASE n > p
    <3>1. n - 1 \in 0..(N - 1) /\ n = Shift(K, name, n - 1)
      BY <1>1, <1>2, <2>2 DEF Shift, p
    <3> QED
      BY <3>1
  <2> QED
    BY <1>1, <1>2, <2>1, <2>2
<1>10. Sorted(I)
  <2> SUFFICES ASSUME NEW m \in 0..N, NEW n \in 0..N, m < n
               PROVE  I[m].name < I[n].name
    BY <1>6 DEF Sorted
  <2>0. \A i, j \in 0..(N - 1) : i < j => K[i].name < K[j].name
    BY <1>1 DEF KeysOK, Sorted
  <2>1. \A i \in 0..(N - 1) : K[i].name \in Nat
    BY <1>1, NamesAreNumbers
  <2>2. NewColumn(name, N).name = name /\ name \in Nat
    BY <1>1 DEF NewColumn
  <2>3. CASE n < p
    BY <1>1, <1>2, <1>3, <2>0, <2>3
  <2>4. CASE n = p
    BY <1>1, <1>2, <1>3, <2>1, <2>2, <2>4
  <2>5. CASE n > p /\ m < p
    BY <1>1, <1>2, <1>3, <2>0, <2>5
  <2>6. CASE n > p /\ m = p
    <3>1. I[n] = K[n - 1] /\ n - 1 \in 0..(N - 1) /\ p \in 0..(N - 1) /\ p <= n - 1
      BY <1>1, <1>2, <1>3, <2>6
    <3>2. K[p].name <= K[n - 1].name
      BY <2>0, <2>1, <3>1, <1>2
    <3> QED
      <4>1. name < K[p].name
        BY <1>1, <1>2, <3>1
      <4> QED
        BY <1>7, <2>1, <2>2, <2>6, <3>1, <3>2, <4>1
  <2>7. CASE n > p /\ m > p
    BY <1>1, <1>2, <1>3, <2>0, <2>7
  <2> QED
    BY <1>1, <1>2, <2>3, <2>4, <2>5, <2>6, <2>7
<1>11. SerialsOK(I)
  <2>1. NewColumn(name, N).serial_no = N
    BY DEF NewColumn
  <2>2. \A n \in 0..(N - 1) : K[n].serial_no \in 0..(N - 1)
    BY <1>1 DEF KeysOK, SerialsOK
  <2>3. \A n \in DOMAIN I : I[n].serial_no \in DOMAIN I
    BY <1>1, <1>6, <1>7, <1>8, <1>9, <2>1, <2>2
  <2>4. ASSUME NEW m \in DOMAIN I, NEW n \in DOMAIN I, I[m].serial_no = I[n].serial_no
        PROVE  m = n
    <3>1. CASE m = p \/ n = p
      BY <1>1, <1>6, <1>7, <1>8, <1>9, <2>1, <2>2, <2>4, <3>1
    <3>2. CASE m # p /\ n # p
      <4>1. PICK i \in DOMAIN K, j \in DOMAIN K :
                m = Shift(K, name, i) /\ n = Shift(K, name, j)
        BY <1>9, <3>2
      <4>2. K[i].serial_no = K[j].serial_no
        BY <1>8, <2>4, <4>1
      <4> QED
        BY <4>1, <4>2 DEF KeysOK, SerialsOK
    <3> QED
      BY <3>1, <3>2
  <2>5. ASSUME NEW s \in DOMAIN I PROVE \E n \in DOMAIN I : I[n].serial_no = s
    <3>1. CASE s = N
      BY <1>7, <2>1, <3>1
    <3>2. CASE s # N
      <4>1. PICK n \in DOMAIN K : K[n].serial_no = s
        <5>1. s \in DOMAIN K
          BY <1>1, <1>6, <3>2
        <5> QED
          BY <5>1 DEF KeysOK, SerialsOK
      <4> QED
        BY <1>8, <4>1
    <3> QED
      BY <3>1, <3>2
  <2> QED
    BY <2>3, <2>4, <2>5 DEF SerialsOK
<1>12. LinksOK(I)
  <2>1. /\ NewColumn(name, N).next_in_key = 0
        /\ NewColumn(name, N).next_in_key_serial = 0
    BY DEF NewColumn
  <2>2. \A n \in DOMAIN K : /\ K[n].next_in_key \in DOMAIN I \union {None}
                            /\ K[n].next_in_key_serial \in DOMAIN I \union {None}
    BY <1>1, <1>6 DEF KeysOK, LinksOK
  <2>3. 0 \in DOMAIN I
    BY <1>1, <1>6
  <2> QED
    BY <1>7, <1>8, <1>9, <2>1, <2>2, <2>3 DEF LinksOK
<1> QED
  BY <1>6, <1>7, <1>8, <1>9, <1>10, <1>11, <1>12 DEF KeysOK, I, p, N

-----------------------------------------------------------------------------
(* Chains of columns                                                         *)

\* Walk() is a recurrence: it takes one link at a time.
Longer(w, next) == IF w = << >> \/ next[Last(w)] = None
                   THEN w ELSE Append(w, next[Last(w)])

Steps(walk, c, next) ==
    /\ walk[0] = IF c = None THEN << >> ELSE <<c>>
    /\ \A n \in Nat : walk[n + 1] = Longer(walk[n], next)

AreIn(walk, S) == \A n \in Nat : walk[n] \in S

LEMMA LongerType ==
    ASSUME NEW D, NEW next \in [D -> D \union {None}], NEW w \in Seq(D)
    PROVE  /\ Longer(w, next) \in Seq(D)
           /\ w # << >> => Longer(w, next) # << >>
<1>1. CASE w = << >> \/ next[Last(w)] = None
  BY <1>1 DEF Longer
<1>2. CASE ~(w = << >> \/ next[Last(w)] = None)
  <2>1. Last(w) \in D
    BY <1>2 DEF Last
  <2>2. next[Last(w)] \in D
    BY <1>2, <2>1
  <2> DEFINE x == next[Last(w)]
  <2> HIDE DEF x
  <2>3. Append(w, x) \in Seq(D) /\ Len(Append(w, x)) = Len(w) + 1 /\ Len(w) \in Nat
    BY <2>2 DEF x
  <2>4. Append(w, x) # << >>
    BY <2>3
  <2> QED
    BY <1>2, <2>3, <2>4 DEF Longer, x
<1> QED
  BY <1>1, <1>2

LEMMA WalkSteps ==
    ASSUME NEW D, NEW next \in [D -> D \union {None}],
           NEW c \in D \union {None}, NEW K, Size(K) \in Nat
    PROVE  \E walk : /\ Steps(walk, c, next)
                     /\ AreIn(walk, Seq(D))
                     /\ Walk(K, c, next) = walk[Size(K)]
<1> DEFINE S == Seq(D)
           first == IF c = None THEN << >> ELSE <<c>>
           longer(w) == IF w = << >> \/ next[Last(w)] = None
                        THEN w ELSE Append(w, next[Last(w)])
           step == [n \in Nat |-> [w \in S |-> longer(w)]]
           IsWalk(g) == g = [n \in Nat |-> IF n = 0 THEN first ELSE longer(g[n - 1])]
           walk == CHOOSE g : IsWalk(g)
<1>1. first \in S
  OBVIOUS
<1>2. \A w : longer(w) = Longer(w, next)
  BY DEF Longer
<1>3. \A w \in S : longer(w) \in S
  BY <1>2, LongerType
<1>4. Walk(K, c, next) = walk[Size(K)]
  BY DEF Walk
<1> HIDE DEF S, first, longer
<1>5. step \in [Nat -> [S -> S]]
  BY <1>3
<1>51. \A n \in Nat, w \in S : step[n][w] = longer(w)
  OBVIOUS
<1> HIDE DEF step
<1>6. \E g \in [Nat -> S] : IsRecurrence(g, first, step)
  BY <1>1, <1>5, RecurrenceExists
<1>7. \E g : IsWalk(g)
  <2>1. PICK g \in [Nat -> S] : IsRecurrence(g, first, step)
    BY <1>6
  <2>2. \A n \in Nat : n # 0 => n - 1 \in Nat /\ g[n - 1] \in S
    OBVIOUS
  <2>3. \A n \in Nat : n # 0 => step[n][g[n - 1]] = longer(g[n - 1])
    BY <1>51, <2>2
  <2>4. \A n \in Nat : g[n] = IF n = 0 THEN first ELSE longer(g[n - 1])
    BY <2>1, <2>3 DEF IsRecurrence
  <2> QED
    BY <2>4
<1>8. IsWalk(walk)
  BY <1>7
<1> HIDE DEF walk
<1>9. walk[0] = first /\ \A n \in Nat : walk[n + 1] = longer(walk[n])
  <2>1. \A n \in Nat : n + 1 \in Nat /\ n + 1 # 0 /\ (n + 1) - 1 = n
    OBVIOUS
  <2> QED
    BY <1>8, <2>1
<1>10. \A n \in Nat : walk[n] \in S
  BY <1>1, <1>3, <1>9, StaysIn
<1>11. Steps(walk, c, next)
  BY <1>2, <1>9 DEF Steps, first
<1>12. AreIn(walk, Seq(D))
  BY <1>10 DEF AreIn, S
<1> QED
  BY <1>4, <1>11, <1>12

LEMMA WalkType ==
    ASSUME NEW D, NEW next \in [D -> D \union {None}],
           NEW c \in D \union {None}, NEW K, Size(K) \in Nat
    PROVE  /\ Walk(K, c, next) \in Seq(D)
           /\ c # None => Walk(K, c, next) # << >>
<1>1. PICK walk : /\ Steps(walk, c, next)
                  /\ AreIn(walk, Seq(D))
                  /\ Walk(K, c, next) = walk[Size(K)]
  BY WalkSteps
<1> DEFINE S == Seq(D) \ {<< >>}
<1>2. ASSUME c # None PROVE \A n \in Nat : walk[n] \in S
  <2>1. walk[0] \in S
    <3>1. walk[0] = <<c>> /\ c \in D
      BY <1>1, <1>2 DEF Steps
    <3> QED
      BY <3>1
  <2>2. ASSUME NEW n \in Nat, walk[n] \in S PROVE walk[n + 1] \in S
    <3>1. walk[n + 1] = Longer(walk[n], next) /\ walk[n] \in Seq(D) /\ walk[n] # << >>
      BY <1>1, <2>2 DEF Steps, AreIn
    <3>2. Longer(walk[n], next) \in Seq(D) /\ Longer(walk[n], next) # << >>
      BY <3>1, LongerType
    <3> QED
      BY <3>1, <3>2
  <2> HIDE DEF S
  <2> QED
    BY <2>1, <2>2, StaysIn
<1>3. c # None => walk[Size(K)] # << >>
  BY <1>2
<1>4. walk[Size(K)] \in Seq(D)
  BY <1>1 DEF AreIn
<1> QED
  BY <1>1, <1>3, <1>4

\* s is the chain from c: each link leads to the next element, and the last is
\* the end.
IsChain(s, c, next) ==
    /\ s = << >> => c = None
    /\ s # << >> => c = s[1]
    /\ \A p \in 1..Len(s) : p < Len(s) => next[s[p]] = s[p + 1]
    /\ s # << >> => next[s[Len(s)]] = None

\* w is the part of s that n links lead to.
IsPart(w, s, n) ==
    \E k \in Nat : /\ Len(w) = k /\ k <= Len(s)
                   /\ k = n + 1 \/ (k = Len(s) /\ k <= n)
                   /\ \A p \in 1..k : w[p] = s[p]

LEMMA PartGrows ==
    ASSUME NEW D, None \notin D, NEW next \in [D -> D \union {None}],
           NEW s \in Seq(D), NEW c, IsChain(s, c, next),
           NEW w \in Seq(D), NEW n \in Nat, IsPart(w, s, n)
    PROVE  IsPart(Longer(w, next), s, n + 1)
<1>1. PICK k \in Nat : /\ Len(w) = k /\ k <= Len(s)
                       /\ k = n + 1 \/ (k = Len(s) /\ k <= n)
                       /\ \A p \in 1..k : w[p] = s[p]
  BY DEF IsPart
<1>2. CASE k = 0
  <2>1. w = << >> /\ s = << >>
    BY <1>1, <1>2
  <2>2. Longer(w, next) = w
    BY <2>1 DEF Longer
  <2> QED
    BY <2>1, <2>2 DEF IsPart
<1>3. CASE k > 0
  <2>1. w # << >> /\ Last(w) = s[k] /\ k \in 1..Len(s)
    BY <1>1, <1>3 DEF Last
  <2>2. CASE k = Len(s)
    <3>1. next[Last(w)] = None
      BY <1>3, <2>1, <2>2 DEF IsChain
    <3>2. Longer(w, next) = w
      BY <3>1 DEF Longer
    <3>3. k = (n + 1) + 1 \/ (k = Len(s) /\ k <= n + 1)
      BY <1>1, <2>2
    <3> QED
      BY <1>1, <3>2, <3>3 DEF IsPart
  <2>3. CASE k < Len(s)
    <3>1. next[Last(w)] = s[k + 1] /\ s[k + 1] \in D /\ k = n + 1
      BY <1>1, <2>1, <2>3 DEF IsChain
    <3>2. next[Last(w)] # None
      BY <3>1
    <3>3. Longer(w, next) = Append(w, s[k + 1])
      BY <2>1, <3>1, <3>2 DEF Longer
    <3>4. /\ Len(Append(w, s[k + 1])) = k + 1
          /\ \A p \in 1..(k + 1) : Append(w, s[k + 1])[p] = IF p <= k THEN w[p] ELSE s[k + 1]
      BY <1>1, <3>1
    <3>5. \A p \in 1..(k + 1) : Append(w, s[k + 1])[p] = s[p]
      BY <1>1, <3>4
    <3>6. k + 1 \in Nat /\ k + 1 <= Len(s) /\ k + 1 = (n + 1) + 1
      BY <2>3, <3>1
    <3> QED
      BY <3>3, <3>4, <3>5, <3>6 DEF IsPart
  <2> QED
    BY <1>1, <2>2, <2>3
<1> QED
  BY <1>2, <1>3

\* Whoever follows the links finds the chain, if it is not longer than the array.
LEMMA WalkFindsChain ==
    ASSUME NEW D, None \notin D, NEW next \in [D -> D \union {None}],
           NEW s \in Seq(D), NEW c \in D \union {None}, IsChain(s, c, next),
           NEW K, NEW N \in Nat, N = Size(K), Len(s) <= N + 1
    PROVE  Walk(K, c, next) = s
<1>1. PICK walk : /\ Steps(walk, c, next)
                  /\ AreIn(walk, Seq(D))
                  /\ Walk(K, c, next) = walk[N]
  BY WalkSteps
<1> DEFINE Good == {n \in Nat : IsPart(walk[n], s, n)}
<1>2. \A n \in Nat : walk[n] \in Seq(D)
  BY <1>1 DEF AreIn
<1>3. 0 \in Good
  <2>1. CASE s = << >>
    <3>1. walk[0] = << >>
      BY <1>1, <2>1 DEF Steps, IsChain
    <3>2. Len(walk[0]) = 0 /\ Len(s) = 0
      BY <2>1, <3>1
    <3> QED
      BY <3>2 DEF IsPart
  <2>2. CASE s # << >>
    <3>1. c = s[1]
      BY <2>2 DEF IsChain
    <3>2. Len(s) >= 1 /\ s[1] \in D
      BY <2>2
    <3>3. walk[0] = <<s[1]>>
      BY <1>1, <3>1, <3>2 DEF Steps
    <3>4. Len(walk[0]) = 1 /\ \A p \in 1..1 : walk[0][p] = s[p]
      BY <3>3
    <3>5. IsPart(walk[0], s, 0)
      <4>1. 1 <= Len(s) /\ 1 = 0 + 1
        BY <3>2
      <4> QED
        BY <3>4, <4>1 DEF IsPart
    <3> QED
      BY <3>5
  <2> QED
    BY <2>1, <2>2
<1>4. ASSUME NEW n \in Nat, n \in Good PROVE n + 1 \in Good
  <2>1. walk[n] \in Seq(D) /\ IsPart(walk[n], s, n)
    BY <1>2, <1>4
  <2>2. walk[n + 1] = Longer(walk[n], next)
    BY <1>1 DEF Steps
  <2>3. IsPart(Longer(walk[n], next), s, n + 1)
    BY <2>1, PartGrows
  <2> QED
    BY <2>2, <2>3
<1> HIDE DEF Good
<1>5. Nat \subseteq Good
  BY <1>3, <1>4, Induction
<1> DEFINE w == walk[N]
<1>6. w \in Seq(D) /\ IsPart(w, s, N)
  BY <1>2, <1>5 DEF Good
<1> HIDE DEF w
<1>7. PICK k \in Nat : /\ Len(w) = k
                       /\ k = N + 1 \/ k = Len(s)
                       /\ k <= Len(s) /\ \A p \in 1..k : w[p] = s[p]
  BY <1>6 DEF IsPart
<1>8. Len(s) \in Nat /\ k = Len(s)
  BY <1>7
<1>9. w = s
  BY <1>6, <1>7, <1>8
<1> QED
  BY <1>1, <1>9 DEF w

-----------------------------------------------------------------------------
(* The whole section                                                         *)

Reference == [id : Nat, serial : Nat]

Section == [keys : Array(Column), indexes : Array(Index),
            pathinfo : Seq(Reference), id : Int,
            exists : BOOLEAN, hung : BOOLEAN]

\* The references to columns lead to columns; an element of PathInfo that is
\* not filled yet refers to column 0.
IndexesOK(I, K) ==
    \A i \in DOMAIN I : /\ I[i].first_col \in DOMAIN K \union {None}
                        /\ I[i].first_col_serial \in DOMAIN K \union {None}

PathOK(P, K) ==
    \A n \in DOMAIN P : /\ P[n].id \in DOMAIN K \union {0}
                        /\ P[n].serial \in DOMAIN K \union {0}

Good(d) == /\ d \in Section
           /\ KeysOK(d.keys)
           /\ IndexesOK(d.indexes, d.keys)
           /\ PathOK(d.pathinfo, d.keys)

\* Columns whose names and serial numbers stay, and whose links lead to columns,
\* are as good as before.
LEMMA RelinkedOK ==
    ASSUME NEW K, KeysOK(K), NEW L \in [DOMAIN K -> Column], LinksOK(L),
           \A n \in DOMAIN K : L[n].name = K[n].name /\ L[n].serial_no = K[n].serial_no
    PROVE  KeysOK(L) /\ Size(L) = Size(K) /\ DOMAIN L = DOMAIN K
<1>1. Size(K) \in Nat /\ DOMAIN K = 0..(Size(K) - 1)
  BY ArraySize DEF KeysOK
<1>2. L \in [0..(Size(K) - 1) -> Column]
  BY <1>1
<1>3. L \in Array(Column) /\ Size(L) = Size(K)
  BY <1>1, <1>2, IsArray
<1>4. DOMAIN L = DOMAIN K
  OBVIOUS
<1>5. Sorted(L) /\ SerialsOK(L)
  BY <1>4 DEF KeysOK, Sorted, SerialsOK
<1> QED
  BY <1>3, <1>4, <1>5 DEF KeysOK

\* The column a serial number stands for, and the column that is next by
\* number: what the chains by serial number are made of.
PlaceOf(K, serial) == IF serial = None THEN None ELSE Bucket(K, serial)

BySerial(K) == [c \in DOMAIN K |-> PlaceOf(K, K[c].next_in_key_serial)]

ByPlace(K) == [c \in DOMAIN K |-> K[c].next_in_key]

LEMMA PlaceOfType ==
    ASSUME NEW K, KeysOK(K), NEW s \in DOMAIN K \union {None}
    PROVE  PlaceOf(K, s) \in DOMAIN K \union {None}
BY BucketIsPlace DEF PlaceOf

LEMMA NextTypes ==
    ASSUME NEW K, KeysOK(K)
    PROVE  /\ ByPlace(K) \in [DOMAIN K -> DOMAIN K \union {None}]
           /\ BySerial(K) \in [DOMAIN K -> DOMAIN K \union {None}]
<1>1. \A n \in DOMAIN K : K[n].next_in_key \in DOMAIN K \union {None}
  BY DEF KeysOK, LinksOK
<1>2. \A n \in DOMAIN K : PlaceOf(K, K[n].next_in_key_serial) \in DOMAIN K \union {None}
  BY PlaceOfType DEF KeysOK, LinksOK
<1>3. ByPlace(K) \in [DOMAIN K -> DOMAIN K \union {None}]
  BY <1>1 DEF ByPlace
<1>4. BySerial(K) \in [DOMAIN K -> DOMAIN K \union {None}]
  BY <1>2 DEF BySerial
<1> QED
  BY <1>3, <1>4

LEMMA ChainIsWalk ==
    ASSUME NEW K, NEW index
    PROVE  /\ Chain(K, index) = Walk(K, index.first_col, ByPlace(K))
           /\ SerialChain(K, index) =
                  Walk(K, PlaceOf(K, index.first_col_serial), BySerial(K))
BY DEF Chain, SerialChain, ByPlace, BySerial, PlaceOf

LEMMA ChainTypes ==
    ASSUME NEW K, KeysOK(K), NEW index,
           index.first_col \in DOMAIN K \union {None},
           index.first_col_serial \in DOMAIN K \union {None}
    PROVE  /\ Chain(K, index) \in Seq(DOMAIN K)
           /\ index.first_col # None => Chain(K, index) # << >>
           /\ SerialChain(K, index) \in Seq(DOMAIN K)
<1>1. Size(K) \in Nat
  BY ArraySize DEF KeysOK
<1>2. PlaceOf(K, index.first_col_serial) \in DOMAIN K \union {None}
  BY PlaceOfType
<1>3. /\ ByPlace(K) \in [DOMAIN K -> DOMAIN K \union {None}]
      /\ BySerial(K) \in [DOMAIN K -> DOMAIN K \union {None}]
  BY NextTypes
<1>4. /\ Walk(K, index.first_col, ByPlace(K)) \in Seq(DOMAIN K)
      /\ index.first_col # None => Walk(K, index.first_col, ByPlace(K)) # << >>
  BY <1>1, <1>3, WalkType
<1>5. Walk(K, PlaceOf(K, index.first_col_serial), BySerial(K)) \in Seq(DOMAIN K)
  BY <1>1, <1>2, <1>3, WalkType
<1> QED
  BY <1>4, <1>5, ChainIsWalk

\* FixKeys() changes links by place only.
LEMMA FixKeysOK ==
    ASSUME NEW K, KeysOK(K), NEW I, IndexesOK(I, K)
    PROVE  LET F == FixKeys(K, I)
           IN /\ KeysOK(F) /\ Size(F) = Size(K) /\ DOMAIN F = DOMAIN K
              /\ \A n \in DOMAIN K :
                    F[n] \in {K[n], [K[n] EXCEPT !.next_in_key =
                                        Bucket(K, K[n].next_in_key_serial)]}
<1> DEFINE F == FixKeys(K, I)
           linked == UNION {Range(SerialChain(K, I[i])) : i \in DOMAIN I}
           fixed(n) == [K[n] EXCEPT !.next_in_key = Bucket(K, K[n].next_in_key_serial)]
<1>1. F = [n \in DOMAIN K |-> IF n \in linked /\ K[n].next_in_key_serial # None
                              THEN fixed(n) ELSE K[n]]
  BY DEF FixKeys
<1> HIDE DEF linked, F
<1>2. /\ K \in [DOMAIN K -> Column]
      /\ DOMAIN K \subseteq Nat
  <2>1. K \in [0..(Size(K) - 1) -> Column] /\ Size(K) \in Nat
    BY ArraySize DEF KeysOK
  <2> QED
    BY <2>1
<1>3. ASSUME NEW n \in DOMAIN K
      PROVE  /\ F[n] \in Column
             /\ F[n] \in {K[n], fixed(n)}
             /\ F[n].name = K[n].name /\ F[n].serial_no = K[n].serial_no
             /\ F[n].next_in_key \in DOMAIN K \union {None}
             /\ F[n].next_in_key_serial \in DOMAIN K \union {None}
  <2>1. K[n] \in Column
    BY <1>2
  <2>2. /\ K[n].next_in_key \in DOMAIN K \union {None}
        /\ K[n].next_in_key_serial \in DOMAIN K \union {None}
    BY DEF KeysOK, LinksOK
  <2>3. CASE F[n] = K[n]
    BY <2>1, <2>2, <2>3
  <2>4. CASE F[n] = fixed(n) /\ K[n].next_in_key_serial # None
    <3>1. Bucket(K, K[n].next_in_key_serial) \in DOMAIN K
      BY <2>2, <2>4, BucketIsPlace
    <3>2. Bucket(K, K[n].next_in_key_serial) \in Nat
      BY <1>2, <3>1
    <3> QED
      BY <2>1, <2>2, <2>4, <3>1, <3>2 DEF Column
  <2> QED
    BY <1>1, <2>3, <2>4
<1>4. F \in [DOMAIN K -> Column]
  BY <1>1, <1>3
<1>5. LinksOK(F)
  BY <1>3, <1>4 DEF LinksOK
<1>6. KeysOK(F) /\ Size(F) = Size(K) /\ DOMAIN F = DOMAIN K
  BY <1>3, <1>4, <1>5, RelinkedOK
<1> QED
  BY <1>3, <1>6 DEF F

LEMMA FixIndexesOK ==
    ASSUME NEW K, KeysOK(K), NEW I \in Array(Index), IndexesOK(I, K)
    PROVE  LET R == FixIndexes(K, I)
           IN /\ R \in Array(Index) /\ Size(R) = Size(I) /\ DOMAIN R = DOMAIN I
              /\ IndexesOK(R, K)
              /\ \A i \in DOMAIN I :
                    R[i] = IF I[i].first_col_serial = None THEN I[i]
                           ELSE [I[i] EXCEPT !.first_col = Bucket(K, I[i].first_col_serial)]
<1> DEFINE R == FixIndexes(K, I)
           fixed(i) == [I[i] EXCEPT !.first_col = Bucket(K, I[i].first_col_serial)]
<1>1. R = [i \in DOMAIN I |-> IF I[i].first_col_serial = None THEN I[i] ELSE fixed(i)]
  BY DEF FixIndexes
<1> HIDE DEF R
<1>2. /\ Size(I) \in Nat /\ I \in [0..(Size(I) - 1) -> Index]
      /\ DOMAIN I = 0..(Size(I) - 1)
  BY ArraySize
<1>3. \A c \in DOMAIN K : c \in Nat
  <2>1. DOMAIN K = 0..(Size(K) - 1) /\ Size(K) \in Nat
    BY ArraySize DEF KeysOK
  <2> QED
    BY <2>1
<1>4. ASSUME NEW i \in DOMAIN I
      PROVE  /\ R[i] \in Index
             /\ R[i].first_col \in DOMAIN K \union {None}
             /\ R[i].first_col_serial \in DOMAIN K \union {None}
  <2>1. I[i] \in Index
    BY <1>2
  <2>2. /\ I[i].first_col \in DOMAIN K \union {None}
        /\ I[i].first_col_serial \in DOMAIN K \union {None}
    BY DEF IndexesOK
  <2>3. CASE I[i].first_col_serial = None
    BY <1>1, <2>1, <2>2, <2>3
  <2>4. CASE I[i].first_col_serial # None
    <3>1. Bucket(K, I[i].first_col_serial) \in DOMAIN K
      BY <2>2, <2>4, BucketIsPlace
    <3>2. R[i] = fixed(i)
      BY <1>1, <2>4
    <3> QED
      BY <1>3, <2>1, <2>2, <3>1, <3>2 DEF Index
  <2> QED
    BY <2>3, <2>4
<1>5. DOMAIN R = DOMAIN I /\ R \in [0..(Size(I) - 1) -> Index]
  BY <1>1, <1>2, <1>4
<1>6. R \in Array(Index) /\ Size(R) = Size(I)
  BY <1>2, <1>5, IsArray
<1>7. IndexesOK(R, K)
  BY <1>4, <1>5 DEF IndexesOK
<1> QED
  BY <1>1, <1>5, <1>6, <1>7 DEF R

LEMMA FixPathOK ==
    ASSUME NEW K, KeysOK(K), 0 \in DOMAIN K, NEW P \in Seq(Reference), PathOK(P, K)
    PROVE  LET R == FixPath(K, P)
           IN /\ R \in Seq(Reference) /\ DOMAIN R = DOMAIN P /\ Len(R) = Len(P)
              /\ PathOK(R, K)
              /\ \A n \in DOMAIN P : /\ R[n].serial = P[n].serial
                                     /\ R[n].id = Bucket(K, P[n].serial)
<1> DEFINE R == FixPath(K, P)
           fixed(n) == [P[n] EXCEPT !.id = Bucket(K, P[n].serial)]
<1>1. R = [n \in DOMAIN P |-> fixed(n)]
  BY DEF FixPath
<1> HIDE DEF R
<1>2. \A c \in DOMAIN K : c \in Nat
  <2>1. DOMAIN K = 0..(Size(K) - 1) /\ Size(K) \in Nat
    BY ArraySize DEF KeysOK
  <2> QED
    BY <2>1
<1>3. ASSUME NEW n \in DOMAIN P
      PROVE  /\ R[n] \in Reference
             /\ R[n].id \in DOMAIN K /\ R[n].serial \in DOMAIN K
             /\ R[n].serial = P[n].serial
             /\ R[n].id = Bucket(K, P[n].serial)
  <2>1. P[n] \in Reference
    OBVIOUS
  <2>2. P[n].serial \in DOMAIN K
    BY DEF PathOK
  <2>3. Bucket(K, P[n].serial) \in DOMAIN K
    BY <2>2, BucketIsPlace
  <2> QED
    BY <1>1, <1>2, <2>1, <2>2, <2>3 DEF Reference
<1>4. DOMAIN R = DOMAIN P /\ DOMAIN P = 1..Len(P) /\ Len(P) \in Nat
  BY <1>1
<1>5. R \in [1..Len(P) -> Reference]
  BY <1>1, <1>3, <1>4
<1>6. R \in Seq(Reference) /\ Len(R) = Len(P)
  BY <1>4, <1>5
<1>7. PathOK(R, K)
  BY <1>3, <1>4 DEF PathOK
<1> QED
  BY <1>3, <1>4, <1>6, <1>7 DEF R

\* All but the link by place, which an insertion may change.
Alike(b, c) ==
    /\ b.name = c.name /\ b.serial_no = c.serial_no /\ b.index_id = c.index_id
    /\ b.filter = c.filter /\ b.implied_plan = c.implied_plan
    /\ b.next_in_key_serial = c.next_in_key_serial

\* Where the columns of the array are after a call that adds the name
Moved(K, name) == [n \in DOMAIN K |-> IF Exists(K, name) THEN n ELSE Shift(K, name, n)]

\* What add_key_column() keeps: every column, at its new place, every index and
\* every element of PathInfo.
Keeps(d, a, t) ==
    /\ t \in [DOMAIN d.keys -> DOMAIN a.keys]
    /\ \A n \in DOMAIN d.keys : Alike(a.keys[t[n]], d.keys[n])
    /\ \A n \in DOMAIN a.keys : n # a.id => \E m \in DOMAIN d.keys : n = t[m]
    /\ DOMAIN a.indexes = DOMAIN d.indexes /\ Size(a.indexes) = Size(d.indexes)
    /\ \A i \in DOMAIN d.indexes : a.indexes[i].name = d.indexes[i].name
    /\ DOMAIN a.pathinfo = DOMAIN d.pathinfo /\ Len(a.pathinfo) = Len(d.pathinfo)
    /\ \A n \in DOMAIN d.pathinfo : a.pathinfo[n].serial = d.pathinfo[n].serial

\* The column that is there or new
HasColumn(d, a, name) ==
    /\ a.id \in DOMAIN a.keys /\ a.keys[a.id].name = name
    /\ a.exists = Exists(d.keys, name)
    /\ IF a.exists
       THEN /\ a.id \in DOMAIN d.keys
            /\ a.keys = d.keys /\ a.indexes = d.indexes /\ a.pathinfo = d.pathinfo
       ELSE /\ \A n \in DOMAIN d.keys : Moved(d.keys, name)[n] # a.id
            /\ Alike(a.keys[a.id], NewColumn(name, Size(d.keys)))

LEMMA ExistsOK ==
    ASSUME NEW K, KeysOK(K), NEW name \in Columns, Exists(K, name)
    PROVE  Place(K, name) \in DOMAIN K /\ K[Place(K, name)].name = name
<1>1. /\ Size(K) \in Nat /\ DOMAIN K = 0..(Size(K) - 1)
      /\ Place(K, name) \in 0..Size(K)
  BY ArraySize, PlaceIsFirst DEF KeysOK
<1>2. Place(K, name) < Size(K) /\ K[Place(K, name)].name = name
  BY DEF Exists
<1> QED
  BY <1>1, <1>2

LEMMA AlikeIsReflexive == \A c : Alike(c, c)
BY DEF Alike

\* Columns that stay where they are, as they are
Stays(d, a, t) ==
    /\ a.indexes = d.indexes /\ a.pathinfo = d.pathinfo /\ a.hung = d.hung
    /\ DOMAIN d.keys \subseteq DOMAIN a.keys
    /\ \A n \in DOMAIN d.keys : t[n] = n /\ a.keys[n] = d.keys[n]

\* A name that is there: only the place and the flag of the call are set.
LEMMA AddedToExisting ==
    ASSUME NEW d, Good(d), NEW name \in Columns, Exists(d.keys, name)
    PROVE  LET a == add_key_column(d, name)
           IN Good(a) /\ Keeps(d, a, Moved(d.keys, name)) /\ HasColumn(d, a, name)
              /\ Stays(d, a, Moved(d.keys, name))
<1> DEFINE p == Place(d.keys, name)
           a == add_key_column(d, name)
<1>1. a = [d EXCEPT !.id = p, !.exists = TRUE]
  BY DEF add_key_column
<1>2. p \in DOMAIN d.keys /\ d.keys[p].name = name
  BY ExistsOK DEF Good
<1> HIDE DEF p, a
<1>3. p \in Int
  <2>1. DOMAIN d.keys = 0..(Size(d.keys) - 1) /\ Size(d.keys) \in Nat
    BY ArraySize DEF Good, KeysOK
  <2> QED
    BY <1>2, <2>1
<1>4. /\ a \in Section /\ a.keys = d.keys /\ a.indexes = d.indexes
      /\ a.pathinfo = d.pathinfo /\ a.id = p /\ a.exists = TRUE /\ a.hung = d.hung
  BY <1>1, <1>3 DEF Good, Section
<1>5. Good(a)
  BY <1>4 DEF Good
<1>6. Moved(d.keys, name) = [n \in DOMAIN d.keys |-> n]
  BY DEF Moved
<1>7. Keeps(d, a, Moved(d.keys, name))
  BY <1>4, <1>6, AlikeIsReflexive DEF Keeps
<1>8. HasColumn(d, a, name)
  BY <1>2, <1>4 DEF HasColumn
<1>9. Stays(d, a, Moved(d.keys, name))
  BY <1>4, <1>6 DEF Stays
<1> QED
  BY <1>5, <1>7, <1>8, <1>9 DEF a

\* A name that sorts behind the others: nothing else moves.
LEMMA AddedAtEnd ==
    ASSUME NEW d, Good(d), NEW name \in Columns, ~Exists(d.keys, name),
           ~(Place(d.keys, name) < Size(d.keys))
    PROVE  LET a == add_key_column(d, name)
           IN Good(a) /\ Keeps(d, a, Moved(d.keys, name)) /\ HasColumn(d, a, name)
              /\ Stays(d, a, Moved(d.keys, name))
<1> DEFINE p == Place(d.keys, name)
           K == Inserted(d.keys, name)
           a == add_key_column(d, name)
<1>1. a = [d EXCEPT !.keys = K, !.id = p, !.exists = FALSE]
  BY DEF add_key_column
<1>2. /\ KeysOK(K) /\ Size(K) = Size(d.keys) + 1
      /\ p \in DOMAIN K /\ K[p] = NewColumn(name, Size(d.keys))
      /\ \A n \in DOMAIN d.keys : /\ Shift(d.keys, name, n) \in DOMAIN K
                                  /\ Shift(d.keys, name, n) # p
                                  /\ K[Shift(d.keys, name, n)] = d.keys[n]
      /\ \A n \in DOMAIN K : n # p => \E m \in DOMAIN d.keys : n = Shift(d.keys, name, m)
  BY InsertedOK DEF Good
<1> HIDE DEF p, a, K
<1>3. /\ p \in Int
      /\ DOMAIN d.keys \subseteq DOMAIN K
  <2>1. /\ DOMAIN d.keys = 0..(Size(d.keys) - 1) /\ Size(d.keys) \in Nat
        /\ DOMAIN K = 0..(Size(K) - 1)
    BY <1>2, ArraySize DEF Good, KeysOK
  <2> QED
    BY <1>2, <2>1
<1>4. /\ a \in Section /\ a.keys = K /\ a.indexes = d.indexes
      /\ a.pathinfo = d.pathinfo /\ a.id = p /\ a.exists = FALSE /\ a.hung = d.hung
  <2>1. K \in Array(Column)
    BY <1>2 DEF KeysOK
  <2> QED
    BY <1>1, <1>3, <2>1 DEF Good, Section
<1>5. Good(a)
  <2>1. IndexesOK(a.indexes, K)
    BY <1>3, <1>4 DEF Good, IndexesOK
  <2>2. PathOK(a.pathinfo, K)
    BY <1>3, <1>4 DEF Good, PathOK
  <2> QED
    BY <1>2, <1>4, <2>1, <2>2 DEF Good
<1>6. Moved(d.keys, name) = [n \in DOMAIN d.keys |-> Shift(d.keys, name, n)]
  BY DEF Moved
<1>7. Keeps(d, a, Moved(d.keys, name))
  BY <1>2, <1>4, <1>6, AlikeIsReflexive DEF Keeps
<1>8. HasColumn(d, a, name)
  <2>1. K[p].name = name
    BY <1>2 DEF NewColumn
  <2>2. Exists(d.keys, name) = FALSE
    BY DEF Exists
  <2>3. \A n \in DOMAIN d.keys : Moved(d.keys, name)[n] # p
    BY <1>2, <1>6
  <2> QED
    BY <1>2, <1>4, <2>1, <2>2, <2>3, AlikeIsReflexive DEF HasColumn
<1>9. Stays(d, a, Moved(d.keys, name))
  <2>1. /\ Size(d.keys) \in Nat /\ DOMAIN d.keys = 0..(Size(d.keys) - 1)
        /\ Place(d.keys, name) \in 0..Size(d.keys)
    BY ArraySize, PlaceIsFirst DEF Good, KeysOK
  <2>2. \A n \in DOMAIN d.keys : n < Place(d.keys, name)
    BY <2>1
  <2>3. \A n \in DOMAIN d.keys : Shift(d.keys, name, n) = n
    BY <2>2 DEF Shift
  <2>4. \A n \in DOMAIN d.keys : Moved(d.keys, name)[n] = n
    BY <1>6, <2>3
  <2> QED
    BY <1>2, <1>3, <1>4, <2>3, <2>4 DEF Stays
<1> QED
  BY <1>5, <1>7, <1>8, <1>9 DEF a

\* A name that sorts before others: the references to columns are recomputed.
LEMMA AddedBefore ==
    ASSUME NEW d, Good(d), NEW name \in Columns, ~Exists(d.keys, name),
           Place(d.keys, name) < Size(d.keys)
    PROVE  LET K == Inserted(d.keys, name)
               a == add_key_column(d, name)
           IN /\ Good(a) /\ Keeps(d, a, Moved(d.keys, name)) /\ HasColumn(d, a, name)
              /\ KeysOK(K) /\ IndexesOK(d.indexes, K)
              /\ Moved(d.keys, name) \in [DOMAIN d.keys -> DOMAIN K]
              /\ \A n \in DOMAIN d.keys : K[Moved(d.keys, name)[n]] = d.keys[n]
              /\ a.keys = FixKeys(K, d.indexes)
              /\ a.indexes = FixIndexes(K, d.indexes)
              /\ a.pathinfo = FixPath(K, d.pathinfo)
              /\ a.hung = (d.hung \/ \E i \in DOMAIN d.indexes :
                                        Endless(K, SerialChain(K, d.indexes[i])))
<1> DEFINE p == Place(d.keys, name)
           K == Inserted(d.keys, name)
           a == add_key_column(d, name)
           F == FixKeys(K, d.indexes)
           R == FixIndexes(K, d.indexes)
           Q == FixPath(K, d.pathinfo)
           h == d.hung \/ \E i \in DOMAIN d.indexes : Endless(K, SerialChain(K, d.indexes[i]))
           t == Moved(d.keys, name)
<1>1. a = [keys |-> F, indexes |-> R, pathinfo |-> Q, id |-> p, exists |-> FALSE, hung |-> h]
  BY DEF add_key_column
<1>2. /\ KeysOK(K) /\ Size(K) = Size(d.keys) + 1
      /\ p \in DOMAIN K /\ K[p] = NewColumn(name, Size(d.keys))
      /\ \A n \in DOMAIN d.keys : /\ Shift(d.keys, name, n) \in DOMAIN K
                                  /\ Shift(d.keys, name, n) # p
                                  /\ K[Shift(d.keys, name, n)] = d.keys[n]
      /\ \A n \in DOMAIN K : n # p => \E m \in DOMAIN d.keys : n = Shift(d.keys, name, m)
  BY InsertedOK DEF Good
<1>17. t = [n \in DOMAIN d.keys |-> Shift(d.keys, name, n)]
  BY DEF Moved
<1>16. h \in BOOLEAN
  BY DEF Good, Section
<1> HIDE DEF p, a, K, F, R, Q, h, t
<1>3. /\ p \in Int /\ 0 \in DOMAIN K
      /\ DOMAIN d.keys \subseteq DOMAIN K
  <2>1. /\ DOMAIN d.keys = 0..(Size(d.keys) - 1) /\ Size(d.keys) \in Nat
        /\ DOMAIN K = 0..(Size(K) - 1)
    BY <1>2, ArraySize DEF Good, KeysOK
  <2> QED
    BY <1>2, <2>1
<1>4. d.indexes \in Array(Index) /\ IndexesOK(d.indexes, K)
  BY <1>3 DEF Good, IndexesOK, Section
<1>5. d.pathinfo \in Seq(Reference) /\ PathOK(d.pathinfo, K)
  BY <1>3 DEF Good, PathOK, Section
<1>6. /\ KeysOK(F) /\ DOMAIN F = DOMAIN K
      /\ \A n \in DOMAIN K :
            F[n] \in {K[n], [K[n] EXCEPT !.next_in_key = Bucket(K, K[n].next_in_key_serial)]}
  BY <1>2, <1>4, FixKeysOK DEF F
<1>7. /\ R \in Array(Index) /\ Size(R) = Size(d.indexes) /\ DOMAIN R = DOMAIN d.indexes
      /\ IndexesOK(R, K)
      /\ \A i \in DOMAIN d.indexes :
            R[i] = IF d.indexes[i].first_col_serial = None THEN d.indexes[i]
                   ELSE [d.indexes[i] EXCEPT !.first_col =
                            Bucket(K, d.indexes[i].first_col_serial)]
  BY <1>2, <1>4, FixIndexesOK DEF R
<1>8. /\ Q \in Seq(Reference) /\ DOMAIN Q = DOMAIN d.pathinfo /\ Len(Q) = Len(d.pathinfo)
      /\ PathOK(Q, K)
      /\ \A n \in DOMAIN d.pathinfo : Q[n].serial = d.pathinfo[n].serial
  BY <1>2, <1>3, <1>5, FixPathOK DEF Q
<1>9. /\ a \in Section /\ a.keys = F /\ a.indexes = R
      /\ a.pathinfo = Q /\ a.id = p /\ a.exists = FALSE /\ a.hung = h
  <2>1. F \in Array(Column)
    BY <1>6 DEF KeysOK
  <2> QED
    BY <1>1, <1>3, <1>7, <1>8, <1>16, <2>1 DEF Section
<1>10. Good(a)
  <2>1. IndexesOK(R, F) /\ PathOK(Q, F)
    BY <1>6, <1>7, <1>8 DEF IndexesOK, PathOK
  <2> QED
    BY <1>6, <1>9, <2>1 DEF Good
<1>11. \A n \in DOMAIN K : Alike(F[n], K[n])
  <2> SUFFICES ASSUME NEW n \in DOMAIN K PROVE Alike(F[n], K[n])
    OBVIOUS
  <2>1. K[n] \in Column
    BY <1>2, ArraySize DEF KeysOK
  <2> QED
    BY <1>6, <2>1 DEF Alike, Column
<1>12. Keeps(d, a, t)
  <2>1. t \in [DOMAIN d.keys -> DOMAIN F]
    BY <1>2, <1>6, <1>17
  <2>2. \A n \in DOMAIN d.keys : Alike(F[t[n]], d.keys[n])
    BY <1>2, <1>11, <1>17
  <2>3. \A n \in DOMAIN F : n # p => \E m \in DOMAIN d.keys : n = t[m]
    BY <1>2, <1>6, <1>17
  <2>4. \A i \in DOMAIN d.indexes : R[i].name = d.indexes[i].name
    <3> SUFFICES ASSUME NEW i \in DOMAIN d.indexes PROVE R[i].name = d.indexes[i].name
      OBVIOUS
    <3>1. d.indexes[i] \in Index
      BY <1>4, ArraySize
    <3> QED
      BY <1>7, <3>1 DEF Index
  <2> QED
    BY <1>7, <1>8, <1>9, <2>1, <2>2, <2>3, <2>4 DEF Keeps
<1>13. Alike(F[p], NewColumn(name, Size(d.keys)))
  BY <1>2, <1>11
<1>14. HasColumn(d, a, name)
  <2>1. F[p].name = name
    BY <1>13 DEF NewColumn, Alike
  <2>2. Exists(d.keys, name) = FALSE
    BY DEF Exists
  <2>3. \A n \in DOMAIN d.keys : t[n] # p
    BY <1>2, <1>17
  <2> QED
    BY <1>2, <1>6, <1>9, <1>13, <2>1, <2>2, <2>3 DEF HasColumn, t
<1>15. t \in [DOMAIN d.keys -> DOMAIN K] /\ \A n \in DOMAIN d.keys : K[t[n]] = d.keys[n]
  BY <1>2, <1>17
<1> QED
  BY <1>2, <1>4, <1>9, <1>10, <1>12, <1>14, <1>15 DEF a, K, F, R, Q, h, t

LEMMA AddedOK ==
    ASSUME NEW d, Good(d), NEW name \in Columns
    PROVE  LET a == add_key_column(d, name)
           IN Good(a) /\ Keeps(d, a, Moved(d.keys, name)) /\ HasColumn(d, a, name)
BY AddedToExisting, AddedAtEnd, AddedBefore

-----------------------------------------------------------------------------
(* Directives                                                                *)

\* A column that keeps its name and serial number replaces itself.
LEMMA ReplacedOK ==
    ASSUME NEW K, KeysOK(K), NEW p \in DOMAIN K, NEW c \in Column,
           c.name = K[p].name, c.serial_no = K[p].serial_no,
           c.next_in_key \in DOMAIN K \union {None},
           c.next_in_key_serial \in DOMAIN K \union {None}
    PROVE  LET L == [K EXCEPT ![p] = c]
           IN KeysOK(L) /\ Size(L) = Size(K) /\ DOMAIN L = DOMAIN K
<1> DEFINE L == [K EXCEPT ![p] = c]
<1>1. K \in [DOMAIN K -> Column]
  <2>1. K \in [0..(Size(K) - 1) -> Column]
    BY ArraySize DEF KeysOK
  <2> QED
    BY <2>1
<1>2. L \in [DOMAIN K -> Column]
  BY <1>1
<1>3. \A n \in DOMAIN K : L[n] = IF n = p THEN c ELSE K[n]
  BY <1>1
<1> HIDE DEF L
<1>4. LinksOK(L)
  BY <1>2, <1>3 DEF KeysOK, LinksOK
<1>5. \A n \in DOMAIN K : L[n].name = K[n].name /\ L[n].serial_no = K[n].serial_no
  BY <1>3
<1>6. KeysOK(L) /\ Size(L) = Size(K) /\ DOMAIN L = DOMAIN K
  BY <1>2, <1>4, <1>5, RelinkedOK
<1> QED
  BY <1>6 DEF L

\* A section with other columns of the same names and serial numbers
LEMMA SameDomainGood ==
    ASSUME NEW d, Good(d), NEW L, KeysOK(L), DOMAIN L = DOMAIN d.keys
    PROVE  LET e == [d EXCEPT !.keys = L]
           IN /\ Good(e) /\ e.keys = L /\ e.indexes = d.indexes
              /\ e.pathinfo = d.pathinfo /\ e.id = d.id /\ e.exists = d.exists
              /\ e.hung = d.hung
<1> DEFINE e == [d EXCEPT !.keys = L]
<1>1. /\ e \in Section /\ e.keys = L /\ e.indexes = d.indexes
      /\ e.pathinfo = d.pathinfo /\ e.id = d.id /\ e.exists = d.exists
      /\ e.hung = d.hung
  BY DEF Good, Section, KeysOK
<1> HIDE DEF e
<1>2. IndexesOK(e.indexes, L) /\ PathOK(e.pathinfo, L)
  BY <1>1 DEF Good, IndexesOK, PathOK
<1> QED
  BY <1>1, <1>2 DEF Good, e

\* The new last column of index i
Joined(c, i, type) ==
    [c EXCEPT !.index_id = i, !.implied_plan = ImpliedPlan[type],
              !.next_in_key_serial = None, !.next_in_key = None]

LEMMA JoinedType ==
    ASSUME NEW c \in Column, NEW i \in Nat, NEW type \in {"P", "U", "O"}
    PROVE  LET j == Joined(c, i, type)
           IN /\ j \in Column /\ j.name = c.name /\ j.serial_no = c.serial_no
              /\ j.filter = c.filter /\ j.index_id = i
              /\ j.implied_plan = ImpliedPlan[type] /\ j.implied_plan # NoPlan
              /\ j.next_in_key = None /\ j.next_in_key_serial = None
<1> DEFINE j == Joined(c, i, type)
           plan == ImpliedPlan[type]
<1>1. plan \in {2, 3, 5}
  BY DEF ImpliedPlan
<1>2. plan \in {0, 2, 3, 5} /\ plan # NoPlan
  BY <1>1 DEF NoPlan
<1>3. j = [c EXCEPT !.index_id = i, !.implied_plan = plan,
                    !.next_in_key_serial = None, !.next_in_key = None]
  BY DEF Joined
<1> HIDE DEF j, plan
<1>4. None \in Nat \union {None}
  OBVIOUS
<1>5. /\ j \in Column /\ j.name = c.name /\ j.serial_no = c.serial_no
      /\ j.filter = c.filter /\ j.index_id = i /\ j.implied_plan = plan
      /\ j.next_in_key = None /\ j.next_in_key_serial = None
  BY <1>2, <1>3, <1>4 DEF Column
<1> QED
  BY <1>2, <1>5 DEF j, plan

\* b is a with the column it found or added at the end of index i.
JoinsIndex(a, b, i, type) ==
    /\ Good(b) /\ b.indexes = a.indexes /\ b.pathinfo = a.pathinfo
    /\ b.id = a.id /\ b.exists = a.exists /\ b.hung = a.hung
    /\ DOMAIN b.keys = DOMAIN a.keys /\ Size(b.keys) = Size(a.keys)
    /\ b.keys = [a.keys EXCEPT ![a.id] = Joined(a.keys[a.id], i, type)]
    /\ a.keys[a.id] \in Column /\ type \in {"P", "U", "O"} /\ i \in Nat

LEMMA JoinedOK ==
    ASSUME NEW d, Good(d), NEW i \in DOMAIN d.indexes, NEW name \in Columns
    PROVE  JoinsIndex(add_key_column(d, name), add_column_to_index(d, i, name), i,
                      IndexType[d.indexes[i].name])
<1> DEFINE a == add_key_column(d, name)
           b == add_column_to_index(d, i, name)
           type == IndexType[d.indexes[i].name]
           L == [a.keys EXCEPT ![a.id] = Joined(a.keys[a.id], i, type)]
<1>1. Good(a) /\ a.id \in DOMAIN a.keys
  BY AddedOK DEF HasColumn
<1>2. i \in Nat /\ type \in {"P", "U", "O"}
  <2>1. d.indexes \in [0..(Size(d.indexes) - 1) -> Index] /\ Size(d.indexes) \in Nat
    BY ArraySize DEF Good, Section
  <2>2. i \in 0..(Size(d.indexes) - 1) /\ d.indexes[i] \in Index
    BY <2>1
  <2>3. i \in Nat /\ d.indexes[i].name \in Indexes
    BY <2>1, <2>2 DEF Index
  <2> QED
    BY <2>3, KeyColumnsAssumption
<1>3. b = [a EXCEPT !.keys = L]
  <2>1. b = [a EXCEPT !.keys[a.id] = Joined(@, i, type)]
    BY DEF add_column_to_index, Joined
  <2>2. DOMAIN a = {"keys", "indexes", "pathinfo", "id", "exists", "hung"}
    BY <1>1 DEF Good, Section
  <2> QED
    BY <2>1, <2>2
<1>4. a.keys[a.id] \in Column
  BY <1>1, ArraySize DEF Good, KeysOK
<1> HIDE DEF a, b, type
<1>5. KeysOK(L) /\ Size(L) = Size(a.keys) /\ DOMAIN L = DOMAIN a.keys
  <2>1. KeysOK(a.keys)
    BY <1>1 DEF Good
  <2>2. /\ Joined(a.keys[a.id], i, type) \in Column
        /\ Joined(a.keys[a.id], i, type).name = a.keys[a.id].name
        /\ Joined(a.keys[a.id], i, type).serial_no = a.keys[a.id].serial_no
        /\ Joined(a.keys[a.id], i, type).next_in_key = None
        /\ Joined(a.keys[a.id], i, type).next_in_key_serial = None
    BY <1>2, <1>4, JoinedType
  <2> QED
    BY <1>1, <2>1, <2>2, ReplacedOK
<1> HIDE DEF L
<1>6. /\ Good(b) /\ b.keys = L /\ b.indexes = a.indexes
      /\ b.pathinfo = a.pathinfo /\ b.id = a.id /\ b.exists = a.exists
      /\ b.hung = a.hung
  BY <1>1, <1>3, <1>5, SameDomainGood
<1> QED
  BY <1>2, <1>4, <1>5, <1>6 DEF a, b, type, L, JoinsIndex

LEMMA IndexReplacedOK ==
    ASSUME NEW K, NEW I \in Array(Index), IndexesOK(I, K), NEW i \in DOMAIN I,
           NEW x \in Index, x.first_col \in DOMAIN K \union {None},
           x.first_col_serial \in DOMAIN K \union {None}
    PROVE  LET J == [I EXCEPT ![i] = x]
           IN J \in Array(Index) /\ Size(J) = Size(I) /\ DOMAIN J = DOMAIN I
              /\ IndexesOK(J, K)
<1> DEFINE J == [I EXCEPT ![i] = x]
<1>1. /\ Size(I) \in Nat /\ I \in [0..(Size(I) - 1) -> Index]
      /\ DOMAIN I = 0..(Size(I) - 1)
  BY ArraySize
<1>2. J \in [0..(Size(I) - 1) -> Index] /\ DOMAIN J = DOMAIN I
  BY <1>1
<1>3. \A n \in DOMAIN I : J[n] = IF n = i THEN x ELSE I[n]
  OBVIOUS
<1> HIDE DEF J
<1>4. J \in Array(Index) /\ Size(J) = Size(I)
  BY <1>1, <1>2, IsArray
<1>5. IndexesOK(J, K)
  BY <1>2, <1>3 DEF IndexesOK
<1> QED
  BY <1>2, <1>4, <1>5 DEF J

LEMMA SameKeysGood ==
    ASSUME NEW d, Good(d), NEW I \in Array(Index), IndexesOK(I, d.keys)
    PROVE  LET e == [d EXCEPT !.indexes = I]
           IN /\ Good(e) /\ e.keys = d.keys /\ e.indexes = I
              /\ e.pathinfo = d.pathinfo /\ e.id = d.id /\ e.exists = d.exists
              /\ e.hung = d.hung
<1> DEFINE e == [d EXCEPT !.indexes = I]
<1>1. /\ e \in Section /\ e.keys = d.keys /\ e.indexes = I
      /\ e.pathinfo = d.pathinfo /\ e.id = d.id /\ e.exists = d.exists
      /\ e.hung = d.hung
  BY DEF Good, Section
<1> HIDE DEF e
<1> QED
  BY <1>1 DEF Good, e

\* The index once it counts a column more, and once the column is its first.
Counted(x) == [x EXCEPT !.n_columns = @ + 1]

Started(x, col, serial) == [x EXCEPT !.first_col = col, !.first_col_serial = serial]

LEMMA CountedType ==
    ASSUME NEW x \in Index
    PROVE  /\ Counted(x) \in Index /\ Counted(x).name = x.name
           /\ Counted(x).first_col = x.first_col
           /\ Counted(x).first_col_serial = x.first_col_serial
BY DEF Counted, Index

LEMMA StartedType ==
    ASSUME NEW x \in Index, NEW col \in Nat, NEW serial \in Nat
    PROVE  /\ Started(x, col, serial) \in Index /\ Started(x, col, serial).name = x.name
           /\ Started(x, col, serial).first_col = col
           /\ Started(x, col, serial).first_col_serial = serial
BY DEF Started, Index

\* The column that was the last of its index, once another follows
Followed(c, col, serial) ==
    [c EXCEPT !.next_in_key = col, !.next_in_key_serial = serial]

LEMMA FollowedType ==
    ASSUME NEW c \in Column, NEW col \in Nat, NEW serial \in Nat
    PROVE  LET f == Followed(c, col, serial)
           IN /\ f \in Column /\ f.name = c.name /\ f.serial_no = c.serial_no
              /\ f.filter = c.filter /\ f.index_id = c.index_id
              /\ f.implied_plan = c.implied_plan
              /\ f.next_in_key = col /\ f.next_in_key_serial = serial
BY DEF Followed, Column

\* named_idx() in its three cases: the index has no column yet, its chain has no
\* end, or the column goes behind the last one.
NamesColumn(b, r, i) ==
    LET col == b.id
        serial == b.keys[col].serial_no
        x == Counted(b.indexes[i])
        I == [b.indexes EXCEPT ![i] = x]
        chain == Chain(b.keys, x)
    IN \/ /\ x.first_col = None
          /\ r = [b EXCEPT !.indexes =
                     [b.indexes EXCEPT ![i] = Started(x, col, serial)]]
       \/ /\ x.first_col # None /\ Endless(b.keys, chain)
          /\ r = [b EXCEPT !.indexes = I, !.hung = TRUE]
       \/ /\ x.first_col # None /\ ~ Endless(b.keys, chain)
          /\ r = [b EXCEPT !.indexes = I,
                     !.keys = [b.keys EXCEPT ![Last(chain)] =
                                 Followed(b.keys[Last(chain)], col, serial)]]

LEMMA NamedCases ==
    ASSUME NEW d, Good(d), NEW i \in DOMAIN d.indexes, NEW name \in Columns
    PROVE  NamesColumn(add_column_to_index(d, i, name), named_idx(d, i, name), i)
<1> DEFINE b == add_column_to_index(d, i, name)
           r == named_idx(d, i, name)
           col == b.id
           serial == b.keys[col].serial_no
           x == Counted(b.indexes[i])
           I == [b.indexes EXCEPT ![i] = x]
           chain == Chain(b.keys, x)
           J == [b.indexes EXCEPT ![i].n_columns = @ + 1]
<1>0. r = IF J[i].first_col = None
          THEN [b EXCEPT !.indexes = [J EXCEPT ![i] =
                   [@ EXCEPT !.first_col = col, !.first_col_serial = serial]]]
          ELSE IF Endless(b.keys, Chain(b.keys, J[i]))
          THEN [b EXCEPT !.indexes = J, !.hung = TRUE]
          ELSE [b EXCEPT !.indexes = J,
                         !.keys[Last(Chain(b.keys, J[i]))] =
                           [@ EXCEPT !.next_in_key = col,
                                     !.next_in_key_serial = serial]]
  BY DEF named_idx
<1>1. Good(b) /\ i \in DOMAIN b.indexes
  <2>1. Keeps(d, add_key_column(d, name), Moved(d.keys, name))
    BY AddedOK
  <2>2. i \in DOMAIN add_key_column(d, name).indexes
    BY <2>1 DEF Keeps
  <2>3. Good(b) /\ b.indexes = add_key_column(d, name).indexes
    <3>1. JoinsIndex(add_key_column(d, name), b, i, IndexType[d.indexes[i].name])
      BY JoinedOK
    <3> QED
      BY <3>1 DEF JoinsIndex
  <2> QED
    BY <2>2, <2>3
<1> HIDE DEF b, r
<1>2. I = J /\ I[i] = x
  <2>1. Counted(b.indexes[i]) = [b.indexes[i] EXCEPT !.n_columns = @ + 1]
    BY DEF Counted
  <2>3. I = J
    BY <2>1, Zenon
  <2>2. I[i] = x
    BY <1>1
  <2> QED
    BY <2>2, <2>3
<1> HIDE DEF I, J
<1>3. r = IF I[i].first_col = None
          THEN [b EXCEPT !.indexes = [I EXCEPT ![i] =
                   [@ EXCEPT !.first_col = col, !.first_col_serial = serial]]]
          ELSE IF Endless(b.keys, Chain(b.keys, I[i]))
          THEN [b EXCEPT !.indexes = I, !.hung = TRUE]
          ELSE [b EXCEPT !.indexes = I,
                         !.keys[Last(Chain(b.keys, I[i]))] =
                           [@ EXCEPT !.next_in_key = col,
                                     !.next_in_key_serial = serial]]
  BY <1>0, <1>2
<1>4. [I EXCEPT ![i] = [@ EXCEPT !.first_col = col, !.first_col_serial = serial]]
        = [b.indexes EXCEPT ![i] = Started(x, col, serial)]
  BY <1>1, <1>2 DEF Started, I
<1>5. DOMAIN b = {"keys", "indexes", "pathinfo", "id", "exists", "hung"}
  BY <1>1 DEF Good, Section
<1> HIDE DEF x
<1>6. [b EXCEPT !.indexes = I, !.keys[Last(chain)] =
                 [@ EXCEPT !.next_in_key = col, !.next_in_key_serial = serial]]
        = [b EXCEPT !.indexes = I,
                    !.keys = [b.keys EXCEPT ![Last(chain)] =
                                Followed(b.keys[Last(chain)], col, serial)]]
  BY <1>5 DEF Followed
<1> QED
  BY <1>2, <1>3, <1>4, <1>6 DEF b, r, x, I, NamesColumn

SameIndexes(I, J) ==
    /\ DOMAIN I = DOMAIN J /\ Size(I) = Size(J)
    /\ \A i \in DOMAIN J : I[i].name = J[i].name

LEMMA NamedOK ==
    ASSUME NEW d, Good(d), NEW i \in DOMAIN d.indexes, NEW name \in Columns
    PROVE  LET r == named_idx(d, i, name)
           IN /\ Good(r) /\ SameIndexes(r.indexes, d.indexes)
              /\ Len(r.pathinfo) = Len(d.pathinfo) /\ DOMAIN r.keys # {}
<1> DEFINE a == add_key_column(d, name)
           b == add_column_to_index(d, i, name)
           r == named_idx(d, i, name)
           col == b.id
           serial == b.keys[col].serial_no
           x == Counted(b.indexes[i])
           I == [b.indexes EXCEPT ![i] = x]
           J == [b.indexes EXCEPT ![i] = Started(x, col, serial)]
           chain == Chain(b.keys, x)
           L == [b.keys EXCEPT ![Last(chain)] = Followed(b.keys[Last(chain)], col, serial)]
<1>1. /\ Good(a) /\ a.id \in DOMAIN a.keys
      /\ SameIndexes(a.indexes, d.indexes) /\ Len(a.pathinfo) = Len(d.pathinfo)
  <2>1. Good(a) /\ Keeps(d, a, Moved(d.keys, name)) /\ HasColumn(d, a, name)
    BY AddedOK
  <2> QED
    BY <2>1 DEF Keeps, HasColumn, SameIndexes
<1>2. JoinsIndex(a, b, i, IndexType[d.indexes[i].name])
  BY JoinedOK
<1>21. NamesColumn(b, r, i)
  BY NamedCases
<1> HIDE DEF a, b, r
<1>3. \/ /\ x.first_col = None
         /\ r = [b EXCEPT !.indexes = J]
      \/ /\ x.first_col # None /\ Endless(b.keys, chain)
         /\ r = [b EXCEPT !.indexes = I, !.hung = TRUE]
      \/ /\ x.first_col # None /\ ~ Endless(b.keys, chain)
         /\ r = [b EXCEPT !.indexes = I, !.keys = L]
  BY <1>21 DEF NamesColumn
<1>4. /\ Good(b) /\ col \in DOMAIN b.keys /\ i \in DOMAIN b.indexes
      /\ SameIndexes(b.indexes, d.indexes) /\ Len(b.pathinfo) = Len(d.pathinfo)
  BY <1>1, <1>2 DEF JoinsIndex, SameIndexes
<1>5. /\ b.keys \in Array(Column) /\ KeysOK(b.keys)
      /\ b.indexes \in Array(Index) /\ IndexesOK(b.indexes, b.keys)
  BY <1>4 DEF Good, KeysOK, Section
<1>6. /\ DOMAIN b.keys = 0..(Size(b.keys) - 1) /\ Size(b.keys) \in Nat
      /\ \A n \in DOMAIN b.keys : b.keys[n] \in Column
      /\ \A n \in DOMAIN b.indexes : b.indexes[n] \in Index
  <2>1. /\ b.keys \in [0..(Size(b.keys) - 1) -> Column] /\ Size(b.keys) \in Nat
    BY <1>5, ArraySize
  <2>2. b.indexes \in [0..(Size(b.indexes) - 1) -> Index]
    BY <1>5, ArraySize
  <2> QED
    BY <2>1, <2>2
<1>7. /\ col \in Nat /\ serial \in Nat /\ serial \in DOMAIN b.keys
  BY <1>4, <1>5, <1>6 DEF KeysOK, SerialsOK
<1>8. /\ x \in Index /\ x.name = b.indexes[i].name
      /\ x.first_col \in DOMAIN b.keys \union {None}
      /\ x.first_col_serial \in DOMAIN b.keys \union {None}
  <2>1. b.indexes[i] \in Index
    BY <1>4, <1>6
  <2>2. /\ b.indexes[i].first_col \in DOMAIN b.keys \union {None}
        /\ b.indexes[i].first_col_serial \in DOMAIN b.keys \union {None}
    BY <1>4, <1>5 DEF IndexesOK
  <2> QED
    BY <2>1, <2>2, CountedType
<1>10. chain \in Seq(DOMAIN b.keys) /\ (x.first_col # None => chain # << >>)
  BY <1>5, <1>8, ChainTypes
<1> HIDE DEF x, col, serial, chain
<1>9. /\ Started(x, col, serial) \in Index
      /\ Started(x, col, serial).name = b.indexes[i].name
      /\ Started(x, col, serial).first_col = col
      /\ Started(x, col, serial).first_col_serial = serial
  BY <1>7, <1>8, StartedType
<1>11. /\ I \in Array(Index) /\ IndexesOK(I, b.keys) /\ SameIndexes(I, d.indexes)
  <2>1. I \in Array(Index) /\ Size(I) = Size(b.indexes) /\ DOMAIN I = DOMAIN b.indexes
        /\ IndexesOK(I, b.keys)
    BY <1>4, <1>5, <1>8, IndexReplacedOK
  <2> QED
    BY <1>4, <1>8, <2>1 DEF SameIndexes
<1>12. /\ J \in Array(Index) /\ IndexesOK(J, b.keys) /\ SameIndexes(J, d.indexes)
  <2>1. J \in Array(Index) /\ Size(J) = Size(b.indexes) /\ DOMAIN J = DOMAIN b.indexes
        /\ IndexesOK(J, b.keys)
    BY <1>4, <1>5, <1>7, <1>9, IndexReplacedOK
  <2> QED
    BY <1>4, <1>9, <2>1 DEF SameIndexes
<1>13. x.first_col # None => KeysOK(L) /\ DOMAIN L = DOMAIN b.keys
  <2> SUFFICES ASSUME x.first_col # None PROVE KeysOK(L) /\ DOMAIN L = DOMAIN b.keys
    OBVIOUS
  <2> DEFINE e == Last(chain)
             c == Followed(b.keys[e], col, serial)
  <2>1. e \in DOMAIN b.keys
    BY <1>10 DEF Last
  <2>2. /\ c \in Column /\ c.name = b.keys[e].name /\ c.serial_no = b.keys[e].serial_no
        /\ c.next_in_key = col /\ c.next_in_key_serial = serial
    BY <1>6, <1>7, <2>1, FollowedType
  <2> HIDE DEF e, c
  <2>3. L = [b.keys EXCEPT ![e] = c]
    BY DEF e, c
  <2>4. KeysOK([b.keys EXCEPT ![e] = c]) /\ DOMAIN [b.keys EXCEPT ![e] = c] = DOMAIN b.keys
    BY <1>4, <1>5, <1>7, <2>1, <2>2, ReplacedOK
  <2> QED
    BY <2>3, <2>4
<1> HIDE DEF I, J, L
<1>14. CASE r = [b EXCEPT !.indexes = J]
  <2>1. Good(r) /\ r.keys = b.keys /\ r.indexes = J /\ r.pathinfo = b.pathinfo
    BY <1>4, <1>12, <1>14, SameKeysGood
  <2> QED
    BY <1>4, <1>12, <2>1 DEF r
<1>15. CASE r = [b EXCEPT !.indexes = I, !.hung = TRUE]
  <2> DEFINE e == [b EXCEPT !.indexes = I]
  <2>1. Good(e) /\ e.keys = b.keys /\ e.indexes = I /\ e.pathinfo = b.pathinfo
    BY <1>4, <1>11, SameKeysGood
  <2>2. r = [e EXCEPT !.hung = TRUE]
    BY <1>15
  <2> HIDE DEF e
  <2>3. /\ r \in Section /\ r.keys = e.keys /\ r.indexes = e.indexes
        /\ r.pathinfo = e.pathinfo
    BY <2>1, <2>2 DEF Good, Section
  <2>4. Good(r)
    BY <2>1, <2>3 DEF Good
  <2> QED
    BY <1>4, <1>11, <2>1, <2>3, <2>4 DEF r
<1>16. CASE x.first_col # None /\ r = [b EXCEPT !.indexes = I, !.keys = L]
  <2> DEFINE e == [b EXCEPT !.indexes = I]
  <2>1. Good(e) /\ e.keys = b.keys /\ e.indexes = I /\ e.pathinfo = b.pathinfo
    BY <1>4, <1>11, SameKeysGood
  <2>2. r = [e EXCEPT !.keys = L]
    <3>1. DOMAIN b = {"keys", "indexes", "pathinfo", "id", "exists", "hung"}
      BY <1>4 DEF Good, Section
    <3> QED
      BY <1>16, <3>1
  <2> HIDE DEF e
  <2>3. Good(r) /\ r.keys = L /\ r.indexes = I /\ r.pathinfo = b.pathinfo
    <3>1. KeysOK(L) /\ DOMAIN L = DOMAIN e.keys
      BY <1>13, <1>16, <2>1
    <3>2. /\ Good([e EXCEPT !.keys = L]) /\ [e EXCEPT !.keys = L].keys = L
          /\ [e EXCEPT !.keys = L].indexes = e.indexes
          /\ [e EXCEPT !.keys = L].pathinfo = e.pathinfo
      BY <2>1, <3>1, SameDomainGood
    <3> QED
      BY <2>1, <2>2, <3>2
  <2> QED
    BY <1>4, <1>11, <1>13, <1>16, <2>3 DEF r
<1> QED
  BY <1>3, <1>14, <1>15, <1>16

\* One turn of the loop of PathInfo
Filled(d, n, name) ==
    LET a == add_key_column(d, name)
    IN [a EXCEPT !.pathinfo[n] = [id |-> a.id, serial |-> a.keys[a.id].serial_no]]

\* e is a, but for element n of PathInfo, which is the column it found or added.
FillsPath(a, e, n) ==
    /\ e.keys = a.keys /\ e.indexes = a.indexes /\ e.id = a.id
    /\ e.exists = a.exists /\ e.hung = a.hung
    /\ e.pathinfo = [a.pathinfo EXCEPT ![n] =
                        [id |-> a.id, serial |-> a.keys[a.id].serial_no]]
    /\ a.id \in DOMAIN a.keys /\ n \in 1..Len(a.pathinfo)
    /\ a.pathinfo \in Seq(Reference)

LEMMA FilledOK ==
    ASSUME NEW d, Good(d), NEW n \in 1..Len(d.pathinfo), NEW name \in Columns
    PROVE  LET e == Filled(d, n, name)
           IN /\ FillsPath(add_key_column(d, name), e, n)
              /\ Good(e) /\ SameIndexes(e.indexes, d.indexes)
              /\ Len(e.pathinfo) = Len(d.pathinfo) /\ DOMAIN e.keys # {}
<1> DEFINE a == add_key_column(d, name)
           r == [id |-> a.id, serial |-> a.keys[a.id].serial_no]
           P == [a.pathinfo EXCEPT ![n] = r]
           e == Filled(d, n, name)
<1>1. Good(a) /\ Keeps(d, a, Moved(d.keys, name)) /\ HasColumn(d, a, name)
  BY AddedOK
<1>2. e = [a EXCEPT !.pathinfo[n] = r]
  BY DEF Filled
<1> HIDE DEF a, e
<1>3. /\ a.id \in DOMAIN a.keys /\ Len(a.pathinfo) = Len(d.pathinfo)
      /\ SameIndexes(a.indexes, d.indexes)
  BY <1>1 DEF Keeps, HasColumn, SameIndexes
<1>4. DOMAIN a = {"keys", "indexes", "pathinfo", "id", "exists", "hung"}
  BY <1>1 DEF Good, Section
<1>5. /\ e = [a EXCEPT !.pathinfo = P]
      /\ a.pathinfo \in Seq(Reference) /\ KeysOK(a.keys) /\ PathOK(a.pathinfo, a.keys)
  BY <1>1, <1>2, <1>4 DEF Good, Section
<1>6. a.id \in Nat /\ a.keys[a.id].serial_no \in DOMAIN a.keys /\ DOMAIN a.keys \subseteq Nat
  <2>1. DOMAIN a.keys = 0..(Size(a.keys) - 1) /\ Size(a.keys) \in Nat
    BY <1>5, ArraySize DEF KeysOK
  <2>2. a.keys[a.id].serial_no \in DOMAIN a.keys
    BY <1>3, <1>5 DEF KeysOK, SerialsOK
  <2> QED
    BY <1>3, <2>1, <2>2
<1>7. /\ r \in Reference /\ r.id \in DOMAIN a.keys /\ r.serial \in DOMAIN a.keys
  BY <1>3, <1>6 DEF Reference
<1> HIDE DEF r
<1>8. /\ P \in Seq(Reference) /\ Len(P) = Len(a.pathinfo)
      /\ DOMAIN P = DOMAIN a.pathinfo
      /\ \A m \in DOMAIN P : P[m] = IF m = n THEN r ELSE a.pathinfo[m]
  BY <1>3, <1>5, <1>7
<1> HIDE DEF P
<1>9. PathOK(P, a.keys)
  BY <1>5, <1>7, <1>8 DEF PathOK
<1>10. /\ e \in Section /\ e.keys = a.keys /\ e.indexes = a.indexes /\ e.id = a.id
       /\ e.exists = a.exists /\ e.hung = a.hung /\ e.pathinfo = P
  BY <1>1, <1>5, <1>8 DEF Good, Section
<1>11. Good(e)
  BY <1>1, <1>9, <1>10 DEF Good
<1>12. FillsPath(a, e, n)
  BY <1>3, <1>5, <1>10 DEF FillsPath, P, r
<1> QED
  BY <1>3, <1>8, <1>10, <1>11, <1>12 DEF a, e

\* The loop of PathInfo, from an array of as many empty elements
PathLoop(f, d, spec) ==
    /\ f[0] = d
    /\ \A n \in 1..Len(spec) : f[n] = Filled(f[n - 1], n, spec[n])

GoodPath(N, I) == {d \in Section : /\ Good(d) /\ Len(d.pathinfo) = N
                                   /\ SameIndexes(d.indexes, I)}

EmptyPath(spec) == [n \in DOMAIN spec |-> [id |-> 0, serial |-> 0]]

LEMMA PathIsLoop ==
    ASSUME NEW spec \in Seq(Columns), NEW d, d \in GoodPath(Len(spec), indexes),
           d = [Directory EXCEPT !.pathinfo = EmptyPath(spec)], PathInfo(spec)
    PROVE  \E f : /\ PathLoop(f, d, spec)
                  /\ \A n \in 0..Len(spec) : f[n] \in GoodPath(Len(spec), indexes)
                  /\ Become(f[Len(spec)])
<1> DEFINE S == GoodPath(Len(spec), indexes)
           N == Len(spec)
           fill(e, n) == Filled(e, n, spec[n])
           IsFilled(f) == f = [n \in 0..N |-> IF n = 0 THEN d ELSE fill(f[n - 1], n)]
           filled == CHOOSE f : IsFilled(f)
           step == [n \in 1..N |-> [e \in S |-> fill(e, n)]]
<1>1. N \in Nat /\ \A n \in 1..N : spec[n] \in Columns
  OBVIOUS
<1>2. Become(filled[N])
  BY DEF PathInfo, EmptyPath, Filled
<1>3. \A n \in 1..N, e \in S : fill(e, n) \in S
  <2> SUFFICES ASSUME NEW n \in 1..N, NEW e \in S PROVE fill(e, n) \in S
    OBVIOUS
  <2>1. Good(e) /\ Len(e.pathinfo) = N /\ SameIndexes(e.indexes, indexes)
    BY DEF GoodPath
  <2>2. n \in 1..Len(e.pathinfo) /\ spec[n] \in Columns
    BY <1>1, <2>1
  <2>3. /\ Good(fill(e, n)) /\ SameIndexes(fill(e, n).indexes, e.indexes)
        /\ Len(fill(e, n).pathinfo) = N
    BY <2>1, <2>2, FilledOK
  <2> QED
    BY <2>1, <2>3 DEF GoodPath, SameIndexes, Good
<1> HIDE DEF S, N, fill
<1>4. step \in [1..N -> [S -> S]] /\ \A n \in 1..N, e \in S : step[n][e] = fill(e, n)
  BY <1>3
<1> HIDE DEF step
<1>5. d \in S
  BY DEF S
<1>6. PICK g \in [0..N -> S] : UpTo(g, N, d, step)
  BY <1>1, <1>4, <1>5, LoopExists
<1>7. IsFilled(g)
  <2>1. \A n \in 0..N : n # 0 => n \in 1..N /\ n - 1 \in 0..N
    BY <1>1
  <2>2. \A n \in 1..N : g[n] = fill(g[n - 1], n)
    BY <1>1, <1>4, <1>6 DEF UpTo
  <2>3. \A n \in 0..N : g[n] = IF n = 0 THEN d ELSE fill(g[n - 1], n)
    BY <1>6, <2>1, <2>2 DEF UpTo
  <2> QED
    BY <2>3
<1>8. IsFilled(filled)
  BY <1>7
<1> HIDE DEF filled
<1>9. filled[0] = d /\ \A n \in 1..N : filled[n] = fill(filled[n - 1], n)
  <2>1. 0 \in 0..N /\ \A n \in 1..N : n \in 0..N /\ n # 0
    BY <1>1
  <2> QED
    BY <1>8, <2>1
<1>10. \A n \in 0..N : filled[n] \in S
  <2>1. filled[0] \in S /\ \A n \in 1..N : filled[n - 1] \in S => filled[n] \in S
    BY <1>3, <1>5, <1>9
  <2> QED
    BY <1>1, <2>1, LoopStaysIn
<1>11. PathLoop(filled, d, spec)
  BY <1>9 DEF PathLoop, N, fill
<1> QED
  BY <1>2, <1>10, <1>11 DEF S, N

-----------------------------------------------------------------------------
(* Type correctness                                                          *)

IndexNames(I) == \A i, j \in DOMAIN I : I[i].name = I[j].name => i = j

\* The section is good, its indexes have different names, and an element of
\* PathInfo has a column.
SectionInv ==
    /\ Good(Directory)
    /\ IndexNames(indexes)
    /\ pathinfo # << >> => DOMAIN keys # {}
    /\ hung \in BOOLEAN

LEMMA DirectoryFields ==
    /\ Directory.keys = keys /\ Directory.indexes = indexes
    /\ Directory.pathinfo = pathinfo
    /\ Directory.id = None /\ Directory.exists = FALSE /\ Directory.hung = FALSE
<1>1. /\ Directory.keys = keys /\ Directory.indexes = indexes
      /\ Directory.pathinfo = pathinfo
  BY DEF Directory
<1>2. Directory.id = None
  BY DEF Directory
<1>3. Directory.exists = FALSE /\ Directory.hung = FALSE
  BY DEF Directory
<1> QED
  BY <1>1, <1>2, <1>3

\* The section after a directive that leaves a good one
LEMMA BecomeOK ==
    ASSUME NEW d, Good(d), Become(d)
    PROVE  Good(Directory)' /\ hung' \in BOOLEAN
<1>1. /\ d \in Section /\ KeysOK(d.keys)
      /\ IndexesOK(d.indexes, d.keys) /\ PathOK(d.pathinfo, d.keys)
  BY DEF Good
<1>2. /\ d.keys \in Array(Column) /\ d.indexes \in Array(Index)
      /\ d.pathinfo \in Seq(Reference) /\ d.hung \in BOOLEAN
  BY <1>1 DEF Section
<1> DEFINE e == [keys |-> d.keys, indexes |-> d.indexes, pathinfo |-> d.pathinfo,
                 id |-> None, exists |-> FALSE, hung |-> FALSE]
<1>3. /\ e \in Section /\ e.keys = d.keys /\ e.indexes = d.indexes
      /\ e.pathinfo = d.pathinfo
  BY <1>2 DEF Section, None
<1>4. Directory' = e
  <2>1. Directory' = [keys |-> keys', indexes |-> indexes', pathinfo |-> pathinfo',
                      id |-> None, exists |-> FALSE, hung |-> FALSE]
    BY DEF Directory
  <2>2. /\ keys' = d.keys /\ indexes' = d.indexes
        /\ pathinfo' = d.pathinfo
    BY DEF Become
  <2> QED
    BY <2>1, <2>2, Zenon
<1> HIDE DEF e
<1>5. Good(e)
  BY <1>1, <1>3 DEF Good
<1>6. Good(Directory)'
  BY <1>4, <1>5 DEF Good, Section, KeysOK, IndexesOK, PathOK
<1>7. hung' \in BOOLEAN
  BY <1>2 DEF Become
<1> QED
  BY <1>6, <1>7

\* The index a directive names is there, or is added behind the others.
NewIndex(name) == [name |-> name, first_col |-> None, first_col_serial |-> None,
                   n_columns |-> 0]

HasIndex(I, J, i, name) ==
    /\ J \in Array(Index) /\ i \in DOMAIN J /\ J[i].name = name
    /\ DOMAIN I \subseteq DOMAIN J
    /\ \A j \in DOMAIN I : J[j] = I[j]
    /\ \A j \in DOMAIN J : j \notin DOMAIN I => j = i /\ J[j] = NewIndex(name)

LEMMA WithIndexOK ==
    ASSUME NEW I \in Array(Index), IndexNames(I), NEW name \in Indexes
    PROVE  /\ HasIndex(I, WithIndex(I, name), IndexId(I, name), name)
           /\ IndexNames(WithIndex(I, name))
<1> DEFINE J == WithIndex(I, name)
           i == IndexId(I, name)
           N == Size(I)
<1>1. N \in Nat /\ I \in [0..(N - 1) -> Index] /\ DOMAIN I = 0..(N - 1)
  BY ArraySize
<1>2. CASE \E j \in DOMAIN I : I[j].name = name
  <2>1. i \in DOMAIN I /\ I[i].name = name
    BY <1>2 DEF IndexId
  <2>2. J = I
    BY <1>1, <2>1 DEF WithIndex
  <2>3. HasIndex(I, I, i, name)
    BY <2>1 DEF HasIndex
  <2> QED
    BY <2>2, <2>3
<1>3. CASE ~ \E j \in DOMAIN I : I[j].name = name
  <2>1. i = N
    BY <1>3 DEF IndexId
  <2>2. J = [j \in 0..N |-> IF j < N THEN I[j] ELSE NewIndex(name)]
    BY <1>1, <2>1 DEF WithIndex, NewIndex
  <2>3. NewIndex(name) \in Index /\ NewIndex(name).name = name
    BY DEF NewIndex, Index, None
  <2> HIDE DEF J, i, N
  <2>4. J \in [0..((N + 1) - 1) -> Index] /\ N + 1 \in Nat /\ DOMAIN J = 0..N
    <3>1. N + 1 \in Nat /\ 0..((N + 1) - 1) = 0..N
      BY <1>1
    <3>2. \A j \in 0..N : (IF j < N THEN I[j] ELSE NewIndex(name)) \in Index
      BY <1>1, <2>3
    <3>3. J \in [0..N -> Index] /\ DOMAIN J = 0..N
      BY <2>2, <3>2
    <3> QED
      BY <3>1, <3>3
  <2>5. J \in Array(Index)
    BY <2>4, IsArray
  <2>6. /\ \A j \in 0..(N - 1) : J[j] = I[j]
        /\ J[N] = NewIndex(name)
        /\ \A j \in 0..N : j = N \/ j \in 0..(N - 1)
        /\ N \in 0..N /\ 0..(N - 1) \subseteq 0..N
    BY <1>1, <2>2
  <2>7. HasIndex(I, J, i, name)
    <3>1. i \in DOMAIN J /\ J[i].name = name /\ DOMAIN I \subseteq DOMAIN J
      BY <1>1, <2>1, <2>3, <2>4, <2>6
    <3>2. \A j \in DOMAIN I : J[j] = I[j]
      BY <1>1, <2>6
    <3>3. \A j \in DOMAIN J : j \notin DOMAIN I => j = i /\ J[j] = NewIndex(name)
      BY <1>1, <2>1, <2>4, <2>6
    <3> QED
      BY <2>5, <3>1, <3>2, <3>3 DEF HasIndex
  <2>8. IndexNames(J)
    <3> SUFFICES ASSUME NEW j \in DOMAIN J, NEW k \in DOMAIN J, J[j].name = J[k].name
                 PROVE  j = k
      BY DEF IndexNames
    <3>1. CASE j \in DOMAIN I /\ k \in DOMAIN I
      BY <2>7, <3>1 DEF HasIndex, IndexNames
    <3>2. CASE j \notin DOMAIN I
      BY <1>3, <2>3, <2>7, <3>2 DEF HasIndex
    <3>3. CASE k \notin DOMAIN I
      BY <1>3, <2>3, <2>7, <3>3 DEF HasIndex
    <3> QED
      BY <3>1, <3>2, <3>3
  <2> QED
    BY <2>7, <2>8 DEF J, i
<1> QED
  BY <1>2, <1>3

\* The section a directive of an index starts from
Indexed(name) == [Directory EXCEPT !.indexes = WithIndex(indexes, name)]

LEMMA IndexedOK ==
    ASSUME SectionInv, NEW name \in Indexes
    PROVE  LET d == Indexed(name)
               i == IndexId(indexes, name)
           IN /\ Good(d) /\ d.keys = keys /\ d.pathinfo = pathinfo /\ d.hung = FALSE
              /\ HasIndex(indexes, d.indexes, i, name) /\ IndexNames(d.indexes)
<1> DEFINE J == WithIndex(indexes, name)
           i == IndexId(indexes, name)
<1>1. Good(Directory) /\ indexes \in Array(Index) /\ IndexesOK(indexes, keys)
  BY DirectoryFields DEF SectionInv, Good, Section
<1>2. HasIndex(indexes, J, i, name) /\ IndexNames(J)
  BY <1>1, WithIndexOK DEF SectionInv
<1> HIDE DEF J, i
<1>3. IndexesOK(J, keys)
  <2>1. NewIndex(name).first_col = None /\ NewIndex(name).first_col_serial = None
    BY DEF NewIndex
  <2> QED
    BY <1>1, <1>2, <2>1 DEF HasIndex, IndexesOK
<1>4. /\ Good(Indexed(name)) /\ Indexed(name).keys = keys /\ Indexed(name).indexes = J
      /\ Indexed(name).pathinfo = pathinfo /\ Indexed(name).hung = FALSE
  <2>1. J \in Array(Index)
    BY <1>2 DEF HasIndex
  <2>2. Indexed(name) = [Directory EXCEPT !.indexes = J]
    BY DEF Indexed, J
  <2> HIDE DEF J
  <2> QED
    BY <1>1, <1>3, <2>1, <2>2, SameKeysGood, DirectoryFields
<1> QED
  BY <1>2, <1>4 DEF i

LEMMA BecomeInv ==
    ASSUME SectionInv, NEW d, Good(d), Become(d), NEW I, IndexNames(I),
           SameIndexes(d.indexes, I), DOMAIN d.keys # {}
    PROVE  SectionInv'
<1>1. Good(Directory)' /\ hung' \in BOOLEAN
  BY BecomeOK
<1>2. IndexNames(d.indexes)
  BY DEF IndexNames, SameIndexes
<1>3. IndexNames(indexes')
  BY <1>2 DEF Become
<1>4. DOMAIN keys' # {}
  BY DEF Become
<1> QED
  BY <1>1, <1>3, <1>4 DEF SectionInv, IndexNames

\* a directive leaves every index its place and its name
IndexesStay ==
    \A i \in DOMAIN indexes :
        i \in DOMAIN indexes' /\ indexes'[i].name = indexes[i].name

LEMMA NamedIndexInv ==
    ASSUME SectionInv, NEW index \in Indexes, NEW name \in Columns,
           named_index(index, name)
    PROVE  SectionInv' /\ IndexesStay
<1> DEFINE d == Indexed(index)
           i == IndexId(indexes, index)
           r == named_idx(d, i, name)
<1>1. Become(r)
  BY DEF named_index, Indexed
<1>0. Good(d) /\ HasIndex(indexes, d.indexes, i, index) /\ IndexNames(d.indexes)
  BY IndexedOK
<1> HIDE DEF d, i
<1>2. /\ i \in DOMAIN d.indexes
      /\ \A j \in DOMAIN indexes : j \in DOMAIN d.indexes /\ d.indexes[j] = indexes[j]
  BY <1>0 DEF HasIndex
<1>3. Good(r) /\ SameIndexes(r.indexes, d.indexes) /\ DOMAIN r.keys # {}
  BY <1>0, <1>2, NamedOK
<1>4. SectionInv'
  BY <1>0, <1>1, <1>3, BecomeInv
<1>5. IndexesStay
  BY <1>1, <1>2, <1>3 DEF Become, SameIndexes, IndexesStay
<1> QED
  BY <1>4, <1>5

\* The section after Filter: the column is new, and gets the flag.
Filtered(name) ==
    LET d == add_key_column(Directory, name)
    IN [d EXCEPT !.keys[d.id] = [@ EXCEPT !.filter = TRUE]]

\* e is d, but for the flag of column d.id.
Flags(d, e) ==
    /\ Good(e) /\ e.indexes = d.indexes /\ e.pathinfo = d.pathinfo /\ e.hung = d.hung
    /\ DOMAIN e.keys = DOMAIN d.keys /\ Size(e.keys) = Size(d.keys)
    /\ e.keys = [d.keys EXCEPT ![d.id] = [d.keys[d.id] EXCEPT !.filter = TRUE]]
    /\ d.keys[d.id] \in Column

LEMMA FilteredOK ==
    ASSUME SectionInv, NEW name \in Columns
    PROVE  Flags(add_key_column(Directory, name), Filtered(name))
<1> DEFINE d == add_key_column(Directory, name)
           c == [d.keys[d.id] EXCEPT !.filter = TRUE]
           L == [d.keys EXCEPT ![d.id] = c]
           e == Filtered(name)
<1>1. e = [d EXCEPT !.keys[d.id] = c]
  BY DEF Filtered
<1>2. Good(d) /\ HasColumn(Directory, d, name)
  BY AddedOK DEF SectionInv
<1> HIDE DEF d, e
<1>3. d.id \in DOMAIN d.keys /\ KeysOK(d.keys)
  BY <1>2 DEF HasColumn, Good
<1>4. e = [d EXCEPT !.keys = L]
  <2>1. DOMAIN d = {"keys", "indexes", "pathinfo", "id", "exists", "hung"}
    BY <1>2 DEF Good, Section
  <2> QED
    BY <1>1, <2>1
<1>5. d.keys[d.id] \in Column
  BY <1>3, ArraySize DEF KeysOK
<1>6. /\ c \in Column /\ c.name = d.keys[d.id].name /\ c.serial_no = d.keys[d.id].serial_no
      /\ c.next_in_key = d.keys[d.id].next_in_key
      /\ c.next_in_key_serial = d.keys[d.id].next_in_key_serial
  BY <1>5 DEF Column
<1> HIDE DEF c
<1>7. KeysOK(L) /\ Size(L) = Size(d.keys) /\ DOMAIN L = DOMAIN d.keys
  <2>1. /\ d.keys[d.id].next_in_key \in DOMAIN d.keys \union {None}
        /\ d.keys[d.id].next_in_key_serial \in DOMAIN d.keys \union {None}
    BY <1>3 DEF KeysOK, LinksOK
  <2> QED
    BY <1>3, <1>6, <2>1, ReplacedOK
<1> HIDE DEF L
<1>8. /\ Good(e) /\ e.keys = L /\ e.indexes = d.indexes
      /\ e.pathinfo = d.pathinfo /\ e.hung = d.hung
  BY <1>2, <1>4, <1>7, SameDomainGood
<1> QED
  BY <1>5, <1>7, <1>8 DEF Flags, L, c, d, e

LEMMA FilterInv ==
    ASSUME SectionInv, NEW name \in Columns, filter(name)
    PROVE  SectionInv' /\ IndexesStay
<1> DEFINE d == add_key_column(Directory, name)
<1>1. Become(Filtered(name))
  BY DEF filter, Filtered
<1>2. Flags(d, Filtered(name))
  BY FilteredOK
<1>3. Keeps(Directory, d, Moved(Directory.keys, name)) /\ HasColumn(Directory, d, name)
  BY AddedOK DEF SectionInv
<1> HIDE DEF d
<1>4. /\ Good(Filtered(name)) /\ SameIndexes(Filtered(name).indexes, indexes)
      /\ DOMAIN Filtered(name).keys # {}
  BY <1>2, <1>3, DirectoryFields DEF Flags, Keeps, HasColumn, SameIndexes
<1>5. SectionInv'
  BY <1>1, <1>4, BecomeInv DEF SectionInv
<1>6. IndexesStay
  BY <1>1, <1>4 DEF Become, SameIndexes, IndexesStay
<1> QED
  BY <1>5, <1>6

\* A PathInfo directive names a column, and starts from empty elements.
LEMMA EmptyPathOK ==
    ASSUME SectionInv, NEW spec \in PathSpecs
    PROVE  /\ spec \in Seq(Columns) /\ Len(spec) \in Nat /\ Len(spec) # 0
           /\ LET d == [Directory EXCEPT !.pathinfo = EmptyPath(spec)]
              IN /\ d \in GoodPath(Len(spec), indexes)
                 /\ d.keys = keys /\ d.indexes = indexes /\ d.hung = FALSE
<1> DEFINE P == EmptyPath(spec)
           d == [Directory EXCEPT !.pathinfo = P]
<1>1. PICK n \in 1..MaxPath : spec \in [1..n -> Columns]
  BY DEF PathSpecs
<1>2. n \in Nat /\ n # 0
  BY <1>1, KeyColumnsAssumption
<1>3. spec \in Seq(Columns) /\ Len(spec) = n
  BY <1>1, <1>2
<1>4. P \in Seq(Reference) /\ Len(P) = n /\ DOMAIN P = 1..n
      /\ \A m \in 1..n : P[m].id = 0 /\ P[m].serial = 0
  <2>1. P = [m \in 1..n |-> [id |-> 0, serial |-> 0]]
    BY <1>1 DEF EmptyPath
  <2>2. P \in [1..n -> Reference]
    BY <2>1 DEF Reference
  <2> QED
    BY <1>2, <2>1, <2>2
<1> HIDE DEF P
<1>5. PathOK(P, keys)
  BY <1>4 DEF PathOK
<1>6. Good(Directory)
  BY DEF SectionInv
<1>7. /\ d \in Section /\ d.keys = keys /\ d.indexes = indexes /\ d.hung = FALSE
      /\ d.pathinfo = P
  BY <1>4, <1>6, DirectoryFields DEF Good, Section
<1> HIDE DEF d
<1>8. Good(d)
  BY <1>5, <1>6, <1>7, DirectoryFields DEF Good
<1>9. d \in GoodPath(n, indexes)
  BY <1>4, <1>7, <1>8 DEF GoodPath, SameIndexes
<1> QED
  BY <1>2, <1>3, <1>7, <1>9 DEF d, P

LEMMA PathInfoInv ==
    ASSUME SectionInv, NEW spec \in PathSpecs, PathInfo(spec)
    PROVE  SectionInv' /\ IndexesStay
<1> DEFINE N == Len(spec)
           d == [Directory EXCEPT !.pathinfo = EmptyPath(spec)]
<1>1. /\ spec \in Seq(Columns) /\ N \in Nat /\ N # 0
      /\ d \in GoodPath(Len(spec), indexes)
  BY EmptyPathOK
<1>2. PICK f : /\ PathLoop(f, d, spec)
               /\ \A n \in 0..Len(spec) : f[n] \in GoodPath(Len(spec), indexes)
               /\ Become(f[Len(spec)])
  BY <1>1, PathIsLoop
<1> HIDE DEF d
<1>3. N \in 1..Len(spec) /\ N - 1 \in 0..Len(spec) /\ N \in 0..Len(spec) /\ spec[N] \in Columns
  BY <1>1
<1>4. /\ f[N] = Filled(f[N - 1], N, spec[N])
      /\ f[N - 1] \in GoodPath(N, indexes) /\ f[N] \in GoodPath(N, indexes)
  BY <1>2, <1>3 DEF PathLoop
<1> HIDE DEF N
<1>5. DOMAIN f[N].keys # {}
  <2>1. Good(f[N - 1]) /\ N \in 1..Len(f[N - 1].pathinfo)
    BY <1>1, <1>3, <1>4 DEF GoodPath, N
  <2> QED
    BY <1>3, <1>4, <2>1, FilledOK
<1>6. Good(f[N]) /\ SameIndexes(f[N].indexes, indexes)
  BY <1>4 DEF GoodPath
<1>7. Become(f[N])
  BY <1>2 DEF N
<1>8. SectionInv'
  BY <1>5, <1>6, <1>7, BecomeInv DEF SectionInv
<1>9. IndexesStay
  BY <1>6, <1>7 DEF Become, SameIndexes, IndexesStay
<1> QED
  BY <1>8, <1>9

LEMMA InitSection == Init => SectionInv
<1> SUFFICES ASSUME Init PROVE SectionInv
  OBVIOUS
<1>1. keys = << >> /\ indexes = << >> /\ pathinfo = << >> /\ hung = FALSE
  BY DEF Init
<1>2. << >> \in Array(Column) /\ << >> \in Array(Index)
  <2>1. << >> \in [0..(0 - 1) -> Column] /\ << >> \in [0..(0 - 1) -> Index]
    OBVIOUS
  <2> QED
    BY <2>1, IsArray
<1>3. KeysOK(<< >>) /\ IndexesOK(<< >>, << >>) /\ PathOK(<< >>, << >>)
  BY <1>2 DEF KeysOK, Sorted, SerialsOK, LinksOK, IndexesOK, PathOK
<1>4. << >> \in Seq(Reference)
  OBVIOUS
<1>5. Directory \in Section
  BY <1>1, <1>2, <1>4, DirectoryFields DEF Directory, Section, None
<1>6. Good(Directory)
  BY <1>1, <1>3, <1>5, DirectoryFields DEF Good
<1>7. IndexNames(<< >>)
  BY DEF IndexNames
<1> QED
  BY <1>1, <1>6, <1>7 DEF SectionInv

LEMMA SectionNext ==
    ASSUME SectionInv, [Next]_vars
    PROVE  SectionInv'
<1>1. CASE \E i \in Indexes, c \in Columns : named_index(i, c)
  BY <1>1, NamedIndexInv
<1>2. CASE \E c \in Columns : filter(c)
  BY <1>2, FilterInv
<1>3. CASE \E s \in PathSpecs : PathInfo(s)
  BY <1>3, PathInfoInv
<1>4. CASE UNCHANGED vars
  <2>1. Directory' = Directory /\ hung' = hung /\ indexes' = indexes
        /\ pathinfo' = pathinfo /\ keys' = keys
    BY <1>4 DEF vars, Directory
  <2> QED
    BY <2>1 DEF SectionInv, IndexNames, Good, KeysOK, Section, IndexesOK, PathOK
<1> QED
  BY <1>1, <1>2, <1>3, <1>4 DEF Next

\* The section is of its type, and its links lead to columns: the inductive
\* invariant that makes it so (add_key_column(), config.cc:278).
THEOREM SectionIsGood == Spec => []SectionInv
<1>1. Init => SectionInv
  BY InitSection
<1>2. SectionInv /\ [Next]_vars => SectionInv'
  BY SectionNext
<1> QED
  BY <1>1, <1>2, PTL DEF Spec

\* A section in which an index has named a column twice stays one.
LEMMA TwiceStays ==
    ASSUME twice \in BOOLEAN, [Next]_vars
    PROVE  twice' \in BOOLEAN /\ (twice => twice')
BY Zenon DEF Next, vars, named_index, filter, PathInfo

LEMMA SectionTypes == SectionInv /\ twice \in BOOLEAN => TypeOK
<1> SUFFICES ASSUME SectionInv, twice \in BOOLEAN PROVE TypeOK
  OBVIOUS
<1>1. /\ KeysOK(keys) /\ indexes \in Array(Index) /\ IndexesOK(indexes, keys)
      /\ pathinfo \in Seq(Reference) /\ PathOK(pathinfo, keys)
      /\ hung \in BOOLEAN
  BY DirectoryFields DEF SectionInv, Good, Section
<1>2. /\ Size(keys) \in Nat /\ keys \in [0..(Size(keys) - 1) -> Column]
      /\ DOMAIN keys = 0..(Size(keys) - 1)
  BY <1>1, ArraySize DEF KeysOK
<1>3. ASSUME NEW n \in DOMAIN keys
      PROVE  /\ keys[n].name \in Columns
             /\ keys[n].serial_no \in DOMAIN keys
             /\ keys[n].filter \in BOOLEAN
             /\ keys[n].implied_plan \in {0, 2, 3, 5}
             /\ keys[n].next_in_key \in DOMAIN keys \union {None} \union {0}
             /\ keys[n].next_in_key_serial \in DOMAIN keys \union {None} \union {0}
  <2>1. keys[n] \in Column
    BY <1>2
  <2>2. keys[n].serial_no \in DOMAIN keys
    BY <1>1 DEF KeysOK, SerialsOK
  <2>3. /\ keys[n].next_in_key \in DOMAIN keys \union {None}
        /\ keys[n].next_in_key_serial \in DOMAIN keys \union {None}
    BY <1>1 DEF KeysOK, LinksOK
  <2> QED
    BY <2>1, <2>2, <2>3 DEF Column
<1>4. ASSUME NEW i \in DOMAIN indexes
      PROVE  /\ indexes[i].name \in Indexes
             /\ indexes[i].first_col \in DOMAIN keys \union {None}
             /\ indexes[i].first_col_serial \in DOMAIN keys \union {None}
  <2>1. indexes[i] \in Index
    BY <1>1, ArraySize
  <2> QED
    BY <1>1, <2>1 DEF Index, IndexesOK
<1>5. ASSUME NEW n \in DOMAIN pathinfo PROVE pathinfo[n].id \in DOMAIN keys
  <2>1. pathinfo # << >>
    OBVIOUS
  <2>2. DOMAIN keys # {}
    BY <2>1 DEF SectionInv
  <2>3. 0 \in 0..(Size(keys) - 1)
    BY <1>2, <2>2
  <2>4. 0 \in DOMAIN keys
    BY <1>2, <2>3
  <2> QED
    BY <1>1, <2>4 DEF PathOK
<1> QED
  BY <1>1, <1>2, <1>3, <1>4, <1>5 DEF TypeOK

\* Every value of a section is of its type, and every link leads to a column,
\* whatever the directives, the columns and their order (config.cc:278).
THEOREM TypeCorrect == Spec => []TypeOK
<1>1. Init => twice \in BOOLEAN
  BY DEF Init
<1>2. twice \in BOOLEAN /\ [Next]_vars => (twice \in BOOLEAN)'
  BY TwiceStays
<1>3. Spec => [](twice \in BOOLEAN)
  BY <1>1, <1>2, PTL DEF Spec
<1> QED
  BY <1>3, SectionIsGood, SectionTypes, PTL

-----------------------------------------------------------------------------
(* key_col_bin_search()                                                      *)

Mid(b) == (b.low + b.high) \div 2

Turn(name, b) ==
    IF b.low > b.high \/ keys[Mid(b)].name = name THEN b
    ELSE IF name < keys[Mid(b)].name THEN [b EXCEPT !.high = Mid(b) - 1]
    ELSE [b EXCEPT !.low = Mid(b) + 1]

Interval == [low : Int, high : Int]

\* The turns of the loop
Search(f, name) ==
    /\ f[0] = [low |-> 0, high |-> Size(keys) - 1]
    /\ \A n \in Nat : f[n + 1] = Turn(name, f[n])

LEMMA MidIsBetween ==
    ASSUME NEW b \in Interval
    PROVE  Mid(b) \in Int /\ (b.low <= b.high => b.low <= Mid(b) /\ Mid(b) <= b.high)
<1>1. b.low \in Int /\ b.high \in Int
  BY DEF Interval
<1> QED
  BY <1>1 DEF Mid

LEMMA TurnType ==
    ASSUME NEW b \in Interval, NEW name
    PROVE  Turn(name, b) \in Interval
<1>1. Mid(b) - 1 \in Int /\ Mid(b) + 1 \in Int
  BY MidIsBetween
<1>2. /\ [b EXCEPT !.high = Mid(b) - 1] \in Interval
      /\ [b EXCEPT !.low = Mid(b) + 1] \in Interval
  BY <1>1 DEF Interval
<1> QED
  BY <1>2 DEF Turn

LEMMA SearchIsLoop ==
    ASSUME SectionInv, NEW name
    PROVE  \E f : /\ Search(f, name) /\ AreIn(f, Interval)
                  /\ key_col_bin_search(name) =
                        IF f[Size(keys)].low > f[Size(keys)].high THEN None
                        ELSE Mid(f[Size(keys)])
<1> DEFINE S == Interval
           first == [low |-> 0, high |-> Size(keys) - 1]
           turn(b) == Turn(name, b)
           step == [n \in Nat |-> [b \in S |-> turn(b)]]
           IsSearch(f) == f = [n \in Nat |-> IF n = 0 THEN first ELSE turn(f[n - 1])]
           bounds == CHOOSE f : IsSearch(f)
           end == bounds[Size(keys)]
<1>1. key_col_bin_search(name) = IF end.low > end.high THEN None ELSE Mid(end)
  BY DEF key_col_bin_search, Turn, Mid
<1>2. first \in S
  <2>1. Size(keys) - 1 \in Int
    BY ArraySize, DirectoryFields DEF SectionInv, Good, KeysOK
  <2> QED
    BY <2>1 DEF Interval
<1>3. \A b \in S : turn(b) \in S
  BY TurnType
<1> HIDE DEF S, first, turn, end
<1>4. step \in [Nat -> [S -> S]] /\ \A n \in Nat, b \in S : step[n][b] = turn(b)
  BY <1>3
<1> HIDE DEF step
<1>5. PICK g \in [Nat -> S] : IsRecurrence(g, first, step)
  BY <1>2, <1>4, RecurrenceExists
<1>6. IsSearch(g)
  <2>1. \A n \in Nat : n # 0 => n - 1 \in Nat /\ g[n - 1] \in S
    OBVIOUS
  <2>2. \A n \in Nat : n # 0 => step[n][g[n - 1]] = turn(g[n - 1])
    BY <1>4, <2>1
  <2>3. \A n \in Nat : g[n] = IF n = 0 THEN first ELSE turn(g[n - 1])
    BY <1>5, <2>2 DEF IsRecurrence
  <2> QED
    BY <2>3
<1>7. IsSearch(bounds)
  BY <1>6
<1> HIDE DEF bounds
<1>8. bounds[0] = first /\ \A n \in Nat : bounds[n + 1] = turn(bounds[n])
  <2>1. \A n \in Nat : n + 1 \in Nat /\ n + 1 # 0 /\ (n + 1) - 1 = n
    OBVIOUS
  <2> QED
    BY <1>7, <2>1
<1>9. \A n \in Nat : bounds[n] \in S
  BY <1>2, <1>3, <1>8, StaysIn
<1>10. Search(bounds, name) /\ AreIn(bounds, Interval)
  BY <1>8, <1>9 DEF Search, AreIn, S, first, turn
<1> QED
  BY <1>1, <1>10 DEF end

\* The name is between the bounds if it is anywhere, and the bounds have closed
\* in by a column each turn, unless the loop is over.
Closing(name, b, n) ==
    /\ b.low >= 0 /\ b.high <= Size(keys) - 1
    /\ \A m \in DOMAIN keys : keys[m].name = name => b.low <= m /\ m <= b.high
    /\ \/ b.low > b.high
       \/ keys[Mid(b)].name = name
       \/ b.high - b.low < Size(keys) - n

LEMMA TurnCloses ==
    ASSUME SectionInv, NEW name \in Columns, NEW b \in Interval, NEW n \in Nat,
           Closing(name, b, n)
    PROVE  Closing(name, Turn(name, b), n + 1)
<1> DEFINE c == Mid(b)
           t == Turn(name, b)
<1>1. /\ Size(keys) \in Nat /\ DOMAIN keys = 0..(Size(keys) - 1)
      /\ Sorted(keys) /\ \A m \in DOMAIN keys : keys[m].name \in Nat
      /\ name \in Nat
  <2>1. KeysOK(keys)
    BY DirectoryFields DEF SectionInv, Good
  <2> QED
    BY <2>1, ArraySize, NamesAreNumbers, KeyColumnsAssumption DEF KeysOK
<1>2. b.low \in Int /\ b.high \in Int
  BY DEF Interval
<1>3. CASE b.low > b.high \/ keys[c].name = name
  BY <1>3 DEF Turn, Closing
<1>4. CASE ~(b.low > b.high \/ keys[c].name = name)
  <2>1. c \in Int /\ b.low <= c /\ c <= b.high
    BY <1>2, <1>4, MidIsBetween
  <2>2. c \in DOMAIN keys /\ keys[c].name \in Nat
    BY <1>1, <1>2, <2>1 DEF Closing
  <2>3. b.high - b.low < Size(keys) - n
    BY <1>4 DEF Closing
  <2>4. CASE name < keys[c].name
    <3>1. t = [b EXCEPT !.high = c - 1]
      BY <1>4, <2>4 DEF Turn
    <3>2. t.low = b.low /\ t.high = c - 1
      BY <3>1 DEF Interval
    <3> HIDE DEF t, c
    <3>3. \A m \in DOMAIN keys : keys[m].name = name => m < c
      <4> SUFFICES ASSUME NEW m \in DOMAIN keys, keys[m].name = name, ~(m < c)
                   PROVE  FALSE
        OBVIOUS
      <4>1. m = c \/ c < m
        BY <1>1, <2>1
      <4>2. c < m => keys[c].name < keys[m].name
        BY <1>1, <2>2 DEF Sorted
      <4> QED
        BY <1>1, <2>2, <2>4, <4>1, <4>2
    <3>4. \A m \in DOMAIN keys : keys[m].name = name => b.low <= m /\ m <= c - 1
      BY <1>1, <2>1, <3>3 DEF Closing
    <3>5. t.high - t.low < Size(keys) - (n + 1) /\ t.low >= 0 /\ t.high <= Size(keys) - 1
      BY <1>1, <1>2, <2>1, <2>3, <3>2 DEF Closing
    <3>6. Closing(name, t, n + 1)
      BY <3>2, <3>4, <3>5 DEF Closing
    <3> QED
      BY <3>6 DEF t
  <2>5. CASE ~(name < keys[c].name)
    <3>1. t = [b EXCEPT !.low = c + 1]
      BY <1>4, <2>5 DEF Turn
    <3>2. t.high = b.high /\ t.low = c + 1
      BY <3>1 DEF Interval
    <3> HIDE DEF t, c
    <3>3. \A m \in DOMAIN keys : keys[m].name = name => m > c
      <4> SUFFICES ASSUME NEW m \in DOMAIN keys, keys[m].name = name, ~(m > c)
                   PROVE  FALSE
        OBVIOUS
      <4>1. m = c \/ m < c
        BY <1>1, <2>1
      <4>2. m < c => keys[m].name < keys[c].name
        BY <1>1, <2>2 DEF Sorted
      <4>3. keys[c].name < name
        BY <1>1, <1>4, <2>2, <2>5 DEF c
      <4> QED
        BY <1>1, <2>2, <4>1, <4>2, <4>3
    <3>4. \A m \in DOMAIN keys : keys[m].name = name => c + 1 <= m /\ m <= b.high
      BY <1>1, <2>1, <3>3 DEF Closing
    <3>5. t.high - t.low < Size(keys) - (n + 1) /\ t.low >= 0 /\ t.high <= Size(keys) - 1
      BY <1>1, <1>2, <2>1, <2>3, <3>2 DEF Closing
    <3>6. Closing(name, t, n + 1)
      BY <3>2, <3>4, <3>5 DEF Closing
    <3> QED
      BY <3>6 DEF t
  <2> QED
    BY <2>4, <2>5
<1> QED
  BY <1>3, <1>4

\* The search finds the column of the name, or there is none.
LEMMA SearchOK ==
    ASSUME SectionInv, NEW name \in Columns
    PROVE  LET n == key_col_bin_search(name)
           IN \/ n = None /\ \A m \in DOMAIN keys : keys[m].name # name
              \/ n # None /\ n \in DOMAIN keys /\ keys[n].name = name
<1> DEFINE N == Size(keys)
           result == key_col_bin_search(name)
<1>1. N \in Nat /\ DOMAIN keys = 0..(N - 1)
  BY ArraySize, DirectoryFields DEF SectionInv, Good, KeysOK
<1>2. PICK f : /\ Search(f, name) /\ AreIn(f, Interval)
               /\ result = IF f[N].low > f[N].high THEN None ELSE Mid(f[N])
  BY SearchIsLoop
<1> DEFINE Good2 == {n \in Nat : Closing(name, f[n], n)}
<1> HIDE DEF result
<1>3. 0 \in Good2
  <2>1. f[0] = [low |-> 0, high |-> Size(keys) - 1]
    BY <1>2 DEF Search
  <2>2. f[0].low = 0 /\ f[0].high = Size(keys) - 1
    BY <2>1
  <2>3. Closing(name, f[0], 0)
    BY <1>1, <2>2 DEF Closing
  <2> QED
    BY <2>3
<1>4. ASSUME NEW n \in Nat, n \in Good2 PROVE n + 1 \in Good2
  <2>1. f[n] \in Interval /\ f[n + 1] = Turn(name, f[n])
    BY <1>2 DEF AreIn, Search
  <2>2. Closing(name, Turn(name, f[n]), n + 1)
    BY <1>4, <2>1, TurnCloses
  <2> QED
    BY <2>1, <2>2
<1> HIDE DEF Good2
<1>5. Nat \subseteq Good2
  BY <1>3, <1>4, Induction
<1> DEFINE b == f[N]
<1>6. Closing(name, b, N) /\ b \in Interval
  BY <1>1, <1>2, <1>5 DEF Good2, AreIn
<1>7. result = IF b.low > b.high THEN None ELSE Mid(b)
  BY <1>2
<1> HIDE DEF b
<1>8. b.low \in Int /\ b.high \in Int
  BY <1>6 DEF Interval
<1>9. CASE b.low > b.high
  <2>1. \A m \in DOMAIN keys : keys[m].name # name
    BY <1>1, <1>6, <1>8, <1>9 DEF Closing
  <2> QED
    BY <1>7, <1>9, <2>1 DEF result
<1>10. CASE ~(b.low > b.high)
  <2>1. Mid(b) \in Int /\ b.low <= Mid(b) /\ Mid(b) <= b.high
    BY <1>6, <1>8, <1>10, MidIsBetween
  <2>2. Mid(b) \in DOMAIN keys /\ Mid(b) # None
    BY <1>1, <1>6, <1>8, <2>1 DEF Closing, None
  <2>3. keys[Mid(b)].name = name
    BY <1>1, <1>6, <1>8, <1>10 DEF Closing
  <2> QED
    BY <1>7, <1>10, <2>2, <2>3 DEF result
<1> QED
  BY <1>9, <1>10

\* The search of a request finds each name of the section, and no other,
\* however many columns there are (key_col_bin_search(), Query.cc:689).
THEOREM SearchIsRight == Spec => []SearchFindsColumns
<1>1. SectionInv => SearchFindsColumns
  <2> SUFFICES ASSUME SectionInv, NEW c \in Columns, key_col_bin_search(c) # None
               PROVE  {m \in DOMAIN keys : keys[m].name = c} = {key_col_bin_search(c)}
    BY SearchOK DEF SearchFindsColumns
  <2> DEFINE n == key_col_bin_search(c)
  <2>1. n \in DOMAIN keys /\ keys[n].name = c
    BY SearchOK
  <2> HIDE DEF n
  <2>2. \A m \in DOMAIN keys : keys[m].name = c => m = n
    <3>1. KeysOK(keys)
      BY DirectoryFields DEF SectionInv, Good
    <3>2. Sorted(keys) /\ DOMAIN keys = 0..(Size(keys) - 1) /\ Size(keys) \in Nat
          /\ \A m \in DOMAIN keys : keys[m].name \in Nat
      BY <3>1, ArraySize, NamesAreNumbers DEF KeysOK
    <3> QED
      BY <2>1, <3>2 DEF Sorted
  <2> QED
    BY <2>1, <2>2 DEF n
<1> QED
  BY <1>1, SectionIsGood, PTL
=============================================================================
