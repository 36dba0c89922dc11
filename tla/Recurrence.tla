----------------------------- MODULE Recurrence -----------------------------
(* Induction over the natural numbers, stated of sets and functions rather   *)
(* than of operators: a set of naturals has a least element, and a function  *)
(* can be defined by recurrence.  Loops of mod_ndb that follow links, search *)
(* or count are recurrences of this kind.                                    *)
EXTENDS Integers, SequencesExt, FiniteSetTheorems, SequenceTheorems, TLAPS

\* A set of naturals that has an element has a least one.  (The intervals below
\* its elements are finite sets, among which strict inclusion is well-founded.)
LEMMA LeastNatural ==
    ASSUME NEW S \in SUBSET Nat, S # {}
    PROVE  \E m \in S : \A k \in S : m <= k
<1> DEFINE R == StrictSubsetOrdering(Nat)
           T == {0..(k - 1) : k \in S}
<1>1. IsWellFoundedOn(R, FiniteSubsetsOf(Nat))
  BY FS_StrictSubsetOrderingWellFounded
<1>2. T \subseteq FiniteSubsetsOf(Nat)
  <2> SUFFICES ASSUME NEW k \in S PROVE 0..(k - 1) \in FiniteSubsetsOf(Nat)
    OBVIOUS
  <2>1. IsFiniteSet(0..(k - 1))
    BY FS_Interval
  <2> QED
    BY <2>1 DEF FiniteSubsetsOf
<1>3. T # {}
  OBVIOUS
<1> HIDE DEF R, T
<1>4. PICK x \in T : \A y \in T : <<y, x>> \notin R
  BY <1>1, <1>2, <1>3, WFMin
<1>5. PICK m \in S : x = 0..(m - 1)
  BY DEF T
<1>6. ASSUME NEW k \in S, k < m PROVE FALSE
  <2>1. 0..(k - 1) \in T
    BY DEF T
  <2>2. 0..(k - 1) \subseteq 0..(m - 1) /\ 0..(k - 1) # 0..(m - 1)
    BY <1>6
  <2>3. <<0..(k - 1), 0..(m - 1)>> \in R
    BY <2>2 DEF R, StrictSubsetOrdering
  <2> QED
    BY <1>4, <1>5, <2>1, <2>3
<1> QED
  BY <1>6

\* A set that has 0 and the successors of its elements has every natural.
LEMMA Induction ==
    ASSUME NEW S, 0 \in S, \A n \in Nat : n \in S => n + 1 \in S
    PROVE  Nat \subseteq S
<1> DEFINE Bad == Nat \ S
<1> SUFFICES ASSUME Bad # {} PROVE FALSE
  OBVIOUS
<1>1. PICK m \in Bad : \A k \in Bad : m <= k
  BY LeastNatural
<1>2. m # 0 /\ m - 1 \in Nat /\ m - 1 \in S
  BY <1>1
<1> QED
  BY <1>2

\* A sequence of values that starts in a set no step leaves stays there.
LEMMA StaysIn ==
    ASSUME NEW S, NEW f, f[0] \in S, \A n \in Nat : f[n] \in S => f[n + 1] \in S
    PROVE  \A n \in Nat : f[n] \in S
<1> DEFINE Good == {n \in Nat : f[n] \in S}
<1>1. 0 \in Good
  OBVIOUS
<1>2. \A n \in Nat : n \in Good => n + 1 \in Good
  OBVIOUS
<1> HIDE DEF Good
<1>3. Nat \subseteq Good
  BY <1>1, <1>2, Induction
<1> QED
  BY <1>3 DEF Good

-----------------------------------------------------------------------------
(* Recurrences                                                               *)

\* g starts at c and makes a step from each number to the next
IsRecurrence(g, c, step) ==
    /\ g[0] = c
    /\ \A n \in Nat : n # 0 => g[n] = step[n][g[n - 1]]

\* the same, up to n
UpTo(g, n, c, step) ==
    /\ g[0] = c
    /\ \A i \in 1..n : g[i] = step[i][g[i - 1]]

LEMMA UpToExists ==
    ASSUME NEW S, NEW c \in S, NEW step \in [Nat -> [S -> S]], NEW n \in Nat
    PROVE  \E g \in [0..n -> S] : UpTo(g, n, c, step)
<1> DEFINE Good == {m \in Nat : \E g \in [0..m -> S] : UpTo(g, m, c, step)}
<1>1. 0 \in Good
  <2> DEFINE g == [i \in 0..0 |-> c]
  <2>1. g \in [0..0 -> S] /\ UpTo(g, 0, c, step)
    BY DEF UpTo
  <2> QED
    BY <2>1
<1>2. ASSUME NEW m \in Nat, m \in Good PROVE m + 1 \in Good
  <2>1. PICK g \in [0..m -> S] : UpTo(g, m, c, step)
    BY <1>2
  <2> DEFINE h == [i \in 0..(m + 1) |-> IF i = m + 1 THEN step[m + 1][g[m]] ELSE g[i]]
  <2>2. h \in [0..(m + 1) -> S]
    <3>1. step[m + 1] \in [S -> S] /\ g[m] \in S
      OBVIOUS
    <3>2. step[m + 1][g[m]] \in S
      BY <3>1
    <3> QED
      BY <3>2
  <2>3. UpTo(h, m + 1, c, step)
    <3>1. h[0] = c
      BY <2>1 DEF UpTo
    <3>2. ASSUME NEW i \in 1..(m + 1) PROVE h[i] = step[i][h[i - 1]]
      <4>1. i \in Int /\ i - 1 \in 0..m /\ h[i - 1] = g[i - 1]
        OBVIOUS
      <4>2. CASE i = m + 1
        BY <4>1, <4>2
      <4>3. CASE i # m + 1
        <5>1. i \in 1..m
          BY <4>3
        <5>2. h[i] = g[i] /\ g[i] = step[i][g[i - 1]]
          BY <2>1, <4>3, <5>1 DEF UpTo
        <5> QED
          BY <4>1, <5>2
      <4> QED
        BY <4>2, <4>3
    <3> QED
      BY <3>1, <3>2 DEF UpTo
  <2> QED
    BY <2>2, <2>3
<1> HIDE DEF Good
<1>3. Nat \subseteq Good
  BY <1>1, <1>2, Induction
<1> QED
  BY <1>3 DEF Good

LEMMA UpToAgree ==
    ASSUME NEW c, NEW step, NEW g, NEW h, NEW n \in Nat, NEW m \in Nat,
           UpTo(g, n, c, step), UpTo(h, m, c, step), n <= m
    PROVE  \A i \in 0..n : g[i] = h[i]
<1> DEFINE Good == {i \in Nat : i <= n => g[i] = h[i]}
<1>1. 0 \in Good
  BY DEF UpTo
<1>2. ASSUME NEW i \in Nat, i \in Good PROVE i + 1 \in Good
  <2> SUFFICES ASSUME i + 1 <= n PROVE g[i + 1] = h[i + 1]
    OBVIOUS
  <2>1. i + 1 \in 1..n /\ i + 1 \in 1..m /\ (i + 1) - 1 = i
    OBVIOUS
  <2> QED
    BY <1>2, <2>1 DEF UpTo
<1> HIDE DEF Good
<1>3. Nat \subseteq Good
  BY <1>1, <1>2, Induction
<1> QED
  BY <1>3 DEF Good

\* A recurrence defines a function, whose values are in the set of the steps.
THEOREM RecurrenceExists ==
    ASSUME NEW S, NEW c \in S, NEW step \in [Nat -> [S -> S]]
    PROVE  \E g \in [Nat -> S] : IsRecurrence(g, c, step)
<1> DEFINE Part(n) == CHOOSE g \in [0..n -> S] : UpTo(g, n, c, step)
           f == [n \in Nat |-> Part(n)[n]]
<1>1. ASSUME NEW n \in Nat
      PROVE  Part(n) \in [0..n -> S] /\ UpTo(Part(n), n, c, step)
  BY UpToExists
<1> HIDE DEF Part
<1>2. f \in [Nat -> S]
  BY <1>1
<1>3. f[0] = c
  BY <1>1 DEF UpTo
<1>4. ASSUME NEW n \in Nat, n # 0 PROVE f[n] = step[n][f[n - 1]]
  <2>1. n - 1 \in Nat /\ n \in 1..n /\ n - 1 \in 0..(n - 1) /\ n - 1 <= n
    BY <1>4
  <2>2. Part(n)[n] = step[n][Part(n)[n - 1]]
    BY <1>1, <2>1 DEF UpTo
  <2>3. Part(n - 1)[n - 1] = Part(n)[n - 1]
    BY <1>1, <2>1, UpToAgree
  <2> QED
    BY <2>1, <2>2, <2>3
<1> QED
  BY <1>2, <1>3, <1>4 DEF IsRecurrence

\* A recurrence of N steps, each of which is only known up to N, has its values
\* in the set of the steps.
THEOREM LoopExists ==
    ASSUME NEW S, NEW c \in S, NEW N \in Nat, NEW step \in [1..N -> [S -> S]]
    PROVE  \E g \in [0..N -> S] : UpTo(g, N, c, step)
<1> DEFINE longer == [n \in Nat |-> IF n \in 1..N THEN step[n] ELSE [x \in S |-> x]]
<1>1. longer \in [Nat -> [S -> S]]
  OBVIOUS
<1>2. \A n \in 1..N : longer[n] = step[n]
  OBVIOUS
<1> HIDE DEF longer
<1>3. PICK g \in [0..N -> S] : UpTo(g, N, c, longer)
  BY <1>1, UpToExists
<1>4. UpTo(g, N, c, step)
  BY <1>2, <1>3 DEF UpTo
<1> QED
  BY <1>4

\* The same as StaysIn, for N steps.
LEMMA LoopStaysIn ==
    ASSUME NEW S, NEW f, NEW N \in Nat, f[0] \in S,
           \A n \in 1..N : f[n - 1] \in S => f[n] \in S
    PROVE  \A n \in 0..N : f[n] \in S
<1> DEFINE Good == {n \in Nat : n <= N => f[n] \in S}
<1>1. 0 \in Good
  OBVIOUS
<1>2. ASSUME NEW n \in Nat, n \in Good PROVE n + 1 \in Good
  <2> SUFFICES ASSUME n + 1 <= N PROVE f[n + 1] \in S
    OBVIOUS
  <2>1. n + 1 \in 1..N /\ (n + 1) - 1 = n /\ f[n] \in S
    BY <1>2
  <2> QED
    BY <2>1
<1> HIDE DEF Good
<1>3. Nat \subseteq Good
  BY <1>1, <1>2, Induction
<1> QED
  BY <1>3 DEF Good

\* Two loops that start from the same and make the same N steps
SameSteps(g, h, N) ==
    /\ g[0] = h[0]
    /\ \A n \in 1..N : g[n - 1] = h[n - 1] => g[n] = h[n]

LEMMA LoopsAgree ==
    ASSUME NEW g, NEW h, NEW N \in Nat, SameSteps(g, h, N)
    PROVE  g[N] = h[N]
<1> DEFINE Good == {n \in Nat : n <= N => g[n] = h[n]}
<1>1. 0 \in Good
  BY DEF SameSteps
<1>2. ASSUME NEW n \in Nat, n \in Good PROVE n + 1 \in Good
  <2> SUFFICES ASSUME n + 1 <= N PROVE g[n + 1] = h[n + 1]
    OBVIOUS
  <2>1. n + 1 \in 1..N /\ (n + 1) - 1 = n /\ g[n] = h[n]
    BY <1>2
  <2> QED
    BY <2>1 DEF SameSteps
<1> HIDE DEF Good
<1>3. Nat \subseteq Good
  BY <1>1, <1>2, Induction
<1>4. N \in Good
  BY <1>3
<1> QED
  BY <1>4 DEF Good

-----------------------------------------------------------------------------
(* Sequences                                                                 *)

\* FlattenSeq() adds the sequences one after the other.
LEMMA FlattenIs ==
    ASSUME NEW S, NEW seqs \in Seq(Seq(S))
    PROVE  \E g \in [0..Len(seqs) -> Seq(S)] :
              /\ g[0] = << >>
              /\ \A i \in 1..Len(seqs) : g[i] = g[i - 1] \o seqs[i]
              /\ FlattenSeq(seqs) = g[Len(seqs)]
<1> DEFINE N == Len(seqs)
           step == [i \in 1..N |-> [s \in Seq(S) |-> s \o seqs[i]]]
<1>1. N \in Nat /\ \A i \in 1..N : seqs[i] \in Seq(S)
  BY LenProperties, ElementOfSeq
<1>2. step \in [1..N -> [Seq(S) -> Seq(S)]]
  BY <1>1, ConcatProperties
<1>3. << >> \in Seq(S)
  BY EmptySeq
<1>4. PICK g \in [0..N -> Seq(S)] : UpTo(g, N, << >>, step)
  <2> HIDE DEF step, N
  <2> QED
    BY <1>1, <1>2, <1>3, LoopExists
<1>5. g[0] = << >> /\ \A i \in 1..N : g[i] = g[i - 1] \o seqs[i]
  <2>1. \A i \in 1..N : i - 1 \in 0..N
    BY <1>1
  <2>2. \A i \in 1..N : g[i - 1] \in Seq(S)
    BY <2>1
  <2>3. \A i \in 1..N : step[i][g[i - 1]] = g[i - 1] \o seqs[i]
    BY <2>2
  <2> QED
    BY <1>4, <2>3 DEF UpTo
<1>6. CASE N = 0
  <2>1. seqs = << >>
    BY <1>6, EmptySeq
  <2> QED
    BY <1>5, <1>6, <2>1 DEF FlattenSeq
<1>7. CASE N # 0
  <2> DEFINE IsFlatten(f) == f = [i \in 1..N |-> IF i = 1 THEN seqs[i] ELSE f[i - 1] \o seqs[i]]
             flatten == CHOOSE f : IsFlatten(f)
             h == [i \in 1..N |-> g[i]]
  <2>1. FlattenSeq(seqs) = flatten[N]
    BY <1>7 DEF FlattenSeq
  <2>2. h[1] = seqs[1]
    <3>1. 1 \in 1..N /\ 0 \in 0..N
      BY <1>1, <1>7
    <3>2. ASSUME NEW i \in 1..N, i = 1 PROVE g[i] = << >> \o seqs[i]
      <4>1. i - 1 = 0
        BY <3>2
      <4>2. g[i] = g[i - 1] \o seqs[i]
        BY <1>5
      <4> QED
        BY <1>5, <4>1, <4>2
    <3>3. g[1] = << >> \o seqs[1]
      BY <3>1, <3>2
    <3> QED
      BY <1>1, <3>1, <3>3, ConcatEmptySeq
  <2>3. \A i \in 1..N : i # 1 => h[i] = h[i - 1] \o seqs[i]
    <3>1. SUFFICES ASSUME NEW i \in 1..N, i # 1 PROVE h[i] = h[i - 1] \o seqs[i]
      OBVIOUS
    <3>2. i - 1 \in 1..N
      BY <1>1, <3>1
    <3>3. h[i] = g[i] /\ h[i - 1] = g[i - 1]
      BY <3>2
    <3> QED
      BY <1>5, <3>3
  <2>4. IsFlatten(h)
    <3>1. h = [i \in 1..N |-> IF i = 1 THEN seqs[i] ELSE h[i - 1] \o seqs[i]]
      BY <2>2, <2>3
    <3> QED
      BY <3>1
  <2>5. IsFlatten(flatten)
    BY <2>4
  <2>6. \A i \in 1..N : flatten[i] = IF i = 1 THEN seqs[i] ELSE flatten[i - 1] \o seqs[i]
    BY <2>5
  <2> HIDE DEF flatten, IsFlatten, h
  <2>7. \A n \in Nat : n \in {k \in Nat : k \in 1..N => flatten[k] = h[k]}
    <3> DEFINE Good == {k \in Nat : k \in 1..N => flatten[k] = h[k]}
    <3>1. 0 \in Good
      OBVIOUS
    <3>2. ASSUME NEW n \in Nat, n \in Good PROVE n + 1 \in Good
      <4>1. CASE n = 0
        BY <2>2, <2>6, <4>1
      <4>2. CASE n # 0 /\ n + 1 \in 1..N
        <5>1. n \in 1..N /\ (n + 1) - 1 = n /\ n + 1 # 1
          BY <1>1, <4>2
        <5>2. flatten[n + 1] = flatten[n] \o seqs[n + 1] /\ h[n + 1] = h[n] \o seqs[n + 1]
          BY <2>3, <2>6, <4>2, <5>1
        <5>3. flatten[n] = h[n]
          BY <3>2, <5>1
        <5>4. flatten[n + 1] = h[n + 1]
          BY <5>2, <5>3
        <5>5. n + 1 \in Nat
          OBVIOUS
        <5> QED
          BY <5>4, <5>5
      <4> QED
        BY <4>1, <4>2
    <3> HIDE DEF Good
    <3>3. Nat \subseteq Good
      BY <3>1, <3>2, Induction
    <3> QED
      BY <3>3 DEF Good
  <2>8. flatten[N] = h[N] /\ h[N] = g[N]
    <3>1. N \in Nat /\ N \in 1..N
      BY <1>1, <1>7
    <3> QED
      BY <2>7, <3>1 DEF h
  <2> QED
    BY <1>5, <2>1, <2>8
<1> QED
  BY <1>6, <1>7

LEMMA FlattenType ==
    ASSUME NEW S, NEW seqs \in Seq(Seq(S))
    PROVE  FlattenSeq(seqs) \in Seq(S)
<1>1. Len(seqs) \in Nat
  BY LenProperties
<1>2. Len(seqs) \in 0..Len(seqs)
  BY <1>1
<1>3. PICK g \in [0..Len(seqs) -> Seq(S)] : FlattenSeq(seqs) = g[Len(seqs)]
  BY FlattenIs
<1> QED
  BY <1>2, <1>3

\* One sequence more is added at the end.
LEMMA FlattenMore ==
    ASSUME NEW S, NEW s \in Seq(Seq(S)), NEW t \in Seq(Seq(S)),
           Len(t) = Len(s) + 1, \A i \in 1..Len(s) : t[i] = s[i]
    PROVE  FlattenSeq(t) = FlattenSeq(s) \o t[Len(t)]
<1> DEFINE N == Len(s)
<1>1. N \in Nat
  BY LenProperties
<1>2. PICK g \in [0..N -> Seq(S)] :
         /\ g[0] = << >> /\ \A i \in 1..N : g[i] = g[i - 1] \o s[i]
         /\ FlattenSeq(s) = g[N]
  BY FlattenIs
<1>3. PICK h \in [0..Len(t) -> Seq(S)] :
         /\ h[0] = << >> /\ \A i \in 1..Len(t) : h[i] = h[i - 1] \o t[i]
         /\ FlattenSeq(t) = h[Len(t)]
  BY FlattenIs
<1> DEFINE Good == {k \in Nat : k <= N => g[k] = h[k]}
<1>4. 0 \in Good
  BY <1>2, <1>3
<1>5. ASSUME NEW n \in Nat, n \in Good PROVE n + 1 \in Good
  <2>1. CASE n + 1 <= N
    <3>1. n + 1 \in 1..N /\ n + 1 \in 1..Len(t) /\ (n + 1) - 1 = n /\ n <= N
      BY <1>1, <2>1
    <3>2. g[n + 1] = g[n] \o s[n + 1] /\ h[n + 1] = h[n] \o t[n + 1] /\ t[n + 1] = s[n + 1]
      BY <1>2, <1>3, <3>1
    <3>3. g[n] = h[n]
      BY <1>5, <3>1
    <3>4. g[n + 1] = h[n + 1]
      BY <3>2, <3>3
    <3>5. n + 1 \in Nat
      OBVIOUS
    <3> QED
      BY <3>4, <3>5
  <2> QED
    BY <2>1
<1> HIDE DEF Good
<1>6. Nat \subseteq Good
  BY <1>4, <1>5, Induction
<1>7. g[N] = h[N]
  <2>1. N \in Good
    BY <1>1, <1>6
  <2> QED
    BY <1>1, <2>1 DEF Good
<1>8. Len(t) \in 1..Len(t) /\ Len(t) - 1 = N
  BY <1>1
<1> QED
  BY <1>2, <1>3, <1>7, <1>8

\* The largest of some numbers
LEMMA MaxIs ==
    ASSUME NEW N \in Nat, NEW S \in SUBSET (0..N), S # {}
    PROVE  Max(S) \in S /\ \A k \in S : k <= Max(S)
<1> DEFINE Rest == {N - k : k \in S}
<1>1. Rest \in SUBSET Nat /\ Rest # {}
  OBVIOUS
<1> HIDE DEF Rest
<1>2. PICK r \in Rest : \A k \in Rest : r <= k
  BY <1>1, LeastNatural
<1>3. PICK m \in S : r = N - m
  BY DEF Rest
<1>4. \A k \in S : N - k \in Rest
  BY DEF Rest
<1>5. \A k \in S : m >= k
  BY <1>2, <1>3, <1>4
<1>6. \E x \in S : \A k \in S : x >= k
  BY <1>5
<1>7. Max(S) \in S /\ \A k \in S : Max(S) >= k
  BY <1>6, Zenon DEF Max
<1> QED
  BY <1>7

LEMMA MinIs ==
    ASSUME NEW S \in SUBSET Nat, S # {}
    PROVE  Min(S) \in S /\ \A k \in S : Min(S) <= k
<1>1. \E m \in S : \A k \in S : m <= k
  BY LeastNatural
<1> QED
  BY <1>1, Zenon DEF Min

\* What a fold over the first N numbers is, taking the largest first: from c, a
\* step for each number of the set, in their order.
IsFold(g, N, c, step) ==
    \A s \in SUBSET (1..N) : g[s] = IF s = {} THEN c ELSE step[Max(s)][g[s \ {Max(s)}]]

LEMMA FoldExists ==
    ASSUME NEW V, NEW c \in V, NEW N \in Nat, NEW step \in [1..N -> [V -> V]]
    PROVE  \E g \in [SUBSET (1..N) -> V] : IsFold(g, N, c, step)
<1> DEFINE F == [SUBSET (1..N) -> V]
           none == [s \in SUBSET (1..N) |-> c]
           more == [k \in 1..N |-> [f \in F |->
                      [s \in SUBSET (1..N) |-> IF k \in s THEN step[k][f[s]] ELSE f[s]]]]
<1>1. none \in F
  OBVIOUS
<1>2. more \in [1..N -> [F -> F]]
  <2>1. ASSUME NEW k \in 1..N, NEW f \in F, NEW s \in SUBSET (1..N)
        PROVE  (IF k \in s THEN step[k][f[s]] ELSE f[s]) \in V
    <3>1. f[s] \in V /\ step[k] \in [V -> V]
      OBVIOUS
    <3> QED
      BY <3>1
  <2> QED
    BY <2>1
<1>3. PICK r \in [0..N -> F] : UpTo(r, N, none, more)
  <2> HIDE DEF F, none, more
  <2> QED
    BY <1>1, <1>2, LoopExists
<1>4. ASSUME NEW s \in SUBSET (1..N) PROVE r[0][s] = c
  BY <1>3 DEF UpTo
<1>5. ASSUME NEW k \in 1..N, NEW s \in SUBSET (1..N)
      PROVE  r[k][s] = IF k \in s THEN step[k][r[k - 1][s]] ELSE r[k - 1][s]
  <2>1. k - 1 \in 0..N
    OBVIOUS
  <2>2. r[k - 1] \in F
    BY <2>1
  <2>3. r[k] = more[k][r[k - 1]]
    BY <1>3 DEF UpTo
  <2>4. more[k][r[k - 1]]
           = [t \in SUBSET (1..N) |-> IF k \in t THEN step[k][r[k - 1][t]] ELSE r[k - 1][t]]
    BY <2>2
  <2> QED
    BY <2>3, <2>4
<1> HIDE DEF F, none, more
<1>6. ASSUME NEW s \in SUBSET (1..N), NEW t \in SUBSET (1..N), NEW m \in 0..N,
             \A k \in 1..m : k \in s <=> k \in t
      PROVE  r[m][s] = r[m][t]
  <2> DEFINE Good == {n \in Nat : n <= m => r[n][s] = r[n][t]}
  <2>1. 0 \in Good
    BY <1>4
  <2>2. ASSUME NEW n \in Nat, n \in Good PROVE n + 1 \in Good
    <3> SUFFICES ASSUME n + 1 <= m PROVE r[n + 1][s] = r[n + 1][t]
      OBVIOUS
    <3>1. n + 1 \in 1..N /\ n + 1 \in 1..m /\ (n + 1) - 1 = n /\ r[n][s] = r[n][t]
      BY <2>2
    <3>2. n + 1 \in s <=> n + 1 \in t
      BY <1>6, <3>1
    <3>3. /\ r[n + 1][s] = IF n + 1 \in s THEN step[n + 1][r[n][s]] ELSE r[n][s]
          /\ r[n + 1][t] = IF n + 1 \in t THEN step[n + 1][r[n][t]] ELSE r[n][t]
      BY <1>5, <3>1
    <3> QED
      BY <3>1, <3>2, <3>3
  <2> HIDE DEF Good
  <2>3. Nat \subseteq Good
    BY <2>1, <2>2, Induction
  <2>4. m \in Nat /\ m \in Good
    BY <2>3
  <2> QED
    BY <2>4 DEF Good
<1>7. ASSUME NEW s \in SUBSET (1..N), NEW m \in 0..N, \A k \in s : k <= m
      PROVE  r[N][s] = r[m][s]
  <2> DEFINE Good == {n \in Nat : m + n <= N => r[m + n][s] = r[m][s]}
  <2>1. 0 \in Good
    OBVIOUS
  <2>2. ASSUME NEW n \in Nat, n \in Good PROVE n + 1 \in Good
    <3> SUFFICES ASSUME m + (n + 1) <= N PROVE r[m + (n + 1)][s] = r[m][s]
      OBVIOUS
    <3> DEFINE k == m + (n + 1)
    <3>1. k \in 1..N /\ k - 1 = m + n /\ k \notin s /\ r[m + n][s] = r[m][s]
      BY <1>7, <2>2
    <3>2. r[k][s] = IF k \in s THEN step[k][r[k - 1][s]] ELSE r[k - 1][s]
      BY <1>5, <3>1
    <3> QED
      BY <3>1, <3>2
  <2> HIDE DEF Good
  <2>3. Nat \subseteq Good
    BY <2>1, <2>2, Induction
  <2>4. N - m \in Nat /\ N - m \in Good /\ m + (N - m) = N
    BY <2>3
  <2> QED
    BY <2>4 DEF Good
<1>8. ASSUME NEW s \in SUBSET (1..N)
      PROVE  r[N][s] = IF s = {} THEN c ELSE step[Max(s)][r[N][s \ {Max(s)}]]
  <2>1. CASE s = {}
    BY <1>4, <1>7, <2>1
  <2>2. CASE s # {}
    <3> DEFINE m == Max(s)
               t == s \ {m}
    <3>1. m \in s /\ \A k \in s : k <= m
      <4>1. s \in SUBSET (0..N)
        OBVIOUS
      <4> QED
        BY <2>2, <4>1, MaxIs
    <3> HIDE DEF m
    <3>2. /\ m \in 1..N /\ m - 1 \in 0..N /\ m \in 0..N /\ t \in SUBSET (1..N)
          /\ \A k \in t : k <= m - 1
          /\ \A k \in 1..(m - 1) : k \in s <=> k \in t
      BY <3>1
    <3>3. r[N][s] = r[m][s]
      BY <1>7, <3>1, <3>2
    <3>4. r[m][s] = step[m][r[m - 1][s]]
      BY <1>5, <3>1, <3>2
    <3>5. r[m - 1][s] = r[m - 1][t]
      BY <1>6, <3>2
    <3>6. r[N][t] = r[m - 1][t]
      BY <1>7, <3>2
    <3> QED
      BY <2>2, <3>3, <3>4, <3>5, <3>6 DEF m
  <2> QED
    BY <2>1, <2>2
<1>9. r[N] \in [SUBSET (1..N) -> V]
  <2>1. N \in 0..N
    OBVIOUS
  <2> QED
    BY <2>1 DEF F
<1> QED
  BY <1>8, <1>9 DEF IsFold

\* The sets that such a fold goes through
LEMMA Prefix ==
    ASSUME NEW N \in Nat, NEW n \in 1..N
    PROVE  /\ 1..n \in SUBSET (1..N) /\ 1..n # {}
           /\ Max(1..n) = n /\ (1..n) \ {Max(1..n)} = 1..(n - 1)
<1> DEFINE s == 1..n
<1>1. s \in SUBSET (1..N) /\ s \in SUBSET (0..N) /\ s # {} /\ n \in s
  OBVIOUS
<1>2. Max(s) \in s /\ \A k \in s : k <= Max(s)
  <2> HIDE DEF s
  <2> QED
    BY <1>1, MaxIs
<1>3. Max(s) = n
  BY <1>1, <1>2
<1>4. s \ {n} = 1..(n - 1)
  OBVIOUS
<1> QED
  BY <1>1, <1>3, <1>4

\* f is such a fold wherever it is known to be in V.
FoldsIn(f, V, N, c, step) ==
    /\ f[{}] = c
    /\ \A s \in SUBSET (1..N) : s # {} /\ f[s \ {Max(s)}] \in V =>
           f[s] = step[Max(s)][f[s \ {Max(s)}]]

\* It is then the recurrence with its steps.
LEMMA FoldIsLoop ==
    ASSUME NEW V, NEW c \in V, NEW N \in Nat, NEW step \in [1..N -> [V -> V]],
           NEW f, FoldsIn(f, V, N, c, step)
    PROVE  \E g \in [0..N -> V] : UpTo(g, N, c, step) /\ g[N] = f[1..N]
<1>1. PICK g \in [0..N -> V] : UpTo(g, N, c, step)
  BY LoopExists
<1> DEFINE Good == {n \in Nat : n <= N => f[1..n] = g[n]}
<1>2. 0 \in Good
  BY <1>1 DEF UpTo, FoldsIn
<1>3. ASSUME NEW n \in Nat, n \in Good PROVE n + 1 \in Good
  <2> SUFFICES ASSUME n + 1 <= N PROVE f[1..(n + 1)] = g[n + 1]
    OBVIOUS
  <2> DEFINE s == 1..(n + 1)
  <2>1. n + 1 \in 1..N /\ (n + 1) - 1 = n /\ n \in 0..N /\ f[1..n] = g[n]
    BY <1>3
  <2>2. s \in SUBSET (1..N) /\ s # {} /\ Max(s) = n + 1 /\ s \ {Max(s)} = 1..n
    <3>1. /\ s \in SUBSET (1..N) /\ s # {}
          /\ Max(s) = n + 1 /\ s \ {Max(s)} = 1..((n + 1) - 1)
      BY <2>1, Prefix
    <3> QED
      BY <2>1, <3>1
  <2> HIDE DEF s
  <2>3. g[n] \in V
    BY <2>1
  <2>4. f[s \ {Max(s)}] = g[n]
    BY <2>1, <2>2, Zenon
  <2>5. f[s] = step[Max(s)][f[s \ {Max(s)}]]
    BY <2>2, <2>3, <2>4, Zenon DEF FoldsIn
  <2>6. g[n + 1] = step[n + 1][g[n]]
    <3>1. g[n + 1] = step[n + 1][g[(n + 1) - 1]]
      BY <1>1, <2>1, Zenon DEF UpTo
    <3> QED
      BY <2>1, <3>1, Zenon
  <2>7. f[s] = g[n + 1]
    BY <2>2, <2>4, <2>5, <2>6, Zenon
  <2> QED
    BY <2>7 DEF s
<1> HIDE DEF Good
<1>4. Nat \subseteq Good
  BY <1>2, <1>3, Induction
<1>5. N \in Good
  BY <1>4
<1> QED
  BY <1>1, <1>5 DEF Good
=============================================================================
