---------------------------- MODULE ValuesProofs ----------------------------
(* Proofs about result_buffer, for any number of buffers and blocks, any     *)
(* sizes and any sequence of operations and failures; and about the values   *)
(* that are sent and shown, for every column, every text and every sequence  *)
(* of requests.                                                              *)
EXTENDS Values, Recurrence

-----------------------------------------------------------------------------
(* The memory of the buffers.                                               *)

\* What the state of a buffer says of its fields.
BufferOK(B) ==
    /\ B.state \in {"none", "constructed"} => B.buff = Null
    /\ B.state \in {"ready", "overlaid"} =>
          /\ B.alloc_sz > 0 /\ B.sz <= B.alloc_sz
          /\ oom \/ B.buff # Null
    /\ B.state = "taken" => B.alloc_sz = 0
    /\ B.todo > 0 => B.state = "ready" /\ B.buff # Null

\* The inductive invariant.
BufferInv == /\ BufferTypeOK
             /\ FaultsFollowOom
             /\ ~fault => /\ \A b \in Buffers : BufferOK(buf[b])
                          /\ WithinBlock /\ OneOwner

\* A multiple of alloc_sz by one more than the quotient is larger than n.
LEMMA GrownIsEnough ==
    ASSUME NEW a \in Nat, a > 0, NEW n \in Nat
    PROVE  Grown(a, n) \in Nat /\ Grown(a, n) > n
<1>1. n \div a \in Nat /\ n < a * ((n \div a) + 1)
  BY SMT
<1>2. QED
  BY <1>1 DEF Grown

\* What malloc() and realloc() leave: the block asked for, or none.
LEMMA Realloc ==
    ASSUME NEW h \in [Blocks -> Nat], NEW block \in Blocks \union {Null},
           NEW n \in Nat, NEW m \in realloc(h, block, n)
    PROVE  /\ m.heap \in [Blocks -> Nat]
           /\ m.buff \in Blocks \union {Null}
           /\ m.buff # Null => m.heap[m.buff] = n
           /\ m.buff # Null => m.buff = block \/ h[m.buff] = 0
           /\ \A k \in Blocks : k # m.buff /\ k # block => m.heap[k] = h[k]
           /\ block # Null /\ block # m.buff => m.heap[block] = 0
<1> DEFINE g == free(h, block)
<1>1. /\ g \in [Blocks -> Nat]
      /\ \A k \in Blocks : k # block => g[k] = h[k]
      /\ block # Null => g[block] = 0
  BY BufferAssumption DEF free
<1>2. CASE m = [buff |-> Null, heap |-> g]
  BY <1>1, <1>2, BufferAssumption
<1>3. CASE \E k \in {x \in Blocks : g[x] = 0} :
              m = [buff |-> k, heap |-> [g EXCEPT ![k] = n]]
  <2>1. PICK k \in Blocks : /\ g[k] = 0
                            /\ m = [buff |-> k, heap |-> [g EXCEPT ![k] = n]]
    BY <1>3
  <2>2. m.buff = k /\ m.heap = [g EXCEPT ![k] = n]
    BY <2>1
  <2> QED
    BY <1>1, <2>1, <2>2, BufferAssumption
<1> QED
  BY <1>2, <1>3 DEF realloc, malloc

\* A buffer that takes a block of n bytes for the one it had, or loses it,
\* leaves every other block with its owner.
LEMMA Resized ==
    ASSUME BufferInv, ~fault, NEW b \in Buffers, NEW n \in Nat, n > 0,
           buf[b].state \in {"constructed", "ready", "overlaid"},
           NEW m \in realloc(heap, buf[b].buff, n),
           NEW R \in [state : {"ready"}, alloc_sz : {n}, sz : 0..n,
                      buff : {m.buff}, todo : Nat],
           R.todo > 0 => R.buff # Null,
           heap' = m.heap, buf' = [buf EXCEPT ![b] = R],
           oom' = (oom \/ m.buff = Null)
    PROVE  /\ fault' \in BOOLEAN => BufferTypeOK'
           /\ \A c \in Buffers : BufferOK(buf[c])'
           /\ WithinBlock' /\ OneOwner'
           /\ ~BadFree(buf[b].buff)
<1> DEFINE B == buf[b]
<1>1. /\ heap \in [Blocks -> Nat] /\ oom \in BOOLEAN
      /\ buf \in [Buffers -> [state : States, alloc_sz : Nat, sz : Nat,
                              buff : Blocks \union {Null}, todo : Nat]]
      /\ \A c \in Buffers : BufferOK(buf[c])
      /\ WithinBlock /\ OneOwner
  BY DEF BufferInv, BufferTypeOK
<1>2. /\ m.heap \in [Blocks -> Nat]
      /\ m.buff \in Blocks \union {Null}
      /\ m.buff # Null => m.heap[m.buff] = n
      /\ m.buff # Null => m.buff = B.buff \/ heap[m.buff] = 0
      /\ \A k \in Blocks : k # m.buff /\ k # B.buff => m.heap[k] = heap[k]
      /\ B.buff # Null /\ B.buff # m.buff => m.heap[B.buff] = 0
  BY <1>1, Realloc
<1>3. B.buff # Null => Owns(b) /\ heap[B.buff] > 0
  BY <1>1 DEF BufferOK, Owns, WithinBlock
<1>4. /\ R.state = "ready" /\ R.alloc_sz = n /\ R.sz \in Nat /\ R.sz <= n
      /\ R.buff = m.buff /\ R.todo \in Nat
  OBVIOUS
<1>5. /\ buf'[b] = R
      /\ \A c \in Buffers : c # b => buf'[c] = buf[c]
  BY <1>1
<1>6. fault' \in BOOLEAN => BufferTypeOK'
  <2>1. R \in [state : States, alloc_sz : Nat, sz : Nat,
               buff : Blocks \union {Null}, todo : Nat]
    BY <1>2, <1>4 DEF States
  <2> QED
    BY <1>1, <1>2, <2>1 DEF BufferTypeOK
<1>7. \A c \in Buffers : BufferOK(buf[c])'
  <2>1. BufferOK(R)'
    BY <1>4 DEF BufferOK
  <2>2. ASSUME NEW c \in Buffers, c # b PROVE BufferOK(buf[c])'
    BY <1>1, <1>5, <2>2 DEF BufferOK
  <2> QED
    BY <1>5, <2>1, <2>2
<1>8. \A c \in Buffers : c # b => (Owns(c)' <=> Owns(c))
  BY <1>5 DEF Owns
<1>9. Owns(b)' <=> m.buff # Null
  BY <1>4, <1>5 DEF Owns
<1>10. \A c \in Buffers : c # b /\ Owns(c) =>
          buf[c].buff # m.buff /\ buf[c].buff # B.buff /\ buf[c].buff \in Blocks
  BY <1>1, <1>2, <1>3 DEF Owns, WithinBlock, OneOwner
<1>11. WithinBlock'
  <2>1. ASSUME NEW c \in Buffers, Owns(c)'
        PROVE  (heap[buf[c].buff] = buf[c].alloc_sz /\ buf[c].sz <= buf[c].alloc_sz)'
    <3>1. CASE c = b
      BY <1>2, <1>4, <1>5, <1>9, <2>1, <3>1
    <3>2. CASE c # b
      BY <1>1, <1>2, <1>5, <1>8, <1>10, <2>1, <3>2 DEF WithinBlock
    <3> QED
      BY <3>1, <3>2
  <2> QED
    BY <2>1 DEF WithinBlock
<1>12. OneOwner'
  <2>1. ASSUME NEW c \in Buffers, NEW d \in Buffers,
               Owns(c)', Owns(d)', (buf[c].buff = buf[d].buff)'
        PROVE  c = d
    BY <1>1, <1>4, <1>5, <1>8, <1>10, <2>1 DEF OneOwner
  <2>2. ASSUME NEW k \in Blocks, heap'[k] > 0
        PROVE  \E c \in Buffers : Owns(c)' /\ buf'[c].buff = k
    <3>1. CASE k = m.buff
      BY <1>4, <1>5, <1>9, <3>1, BufferAssumption
    <3>2. CASE k # m.buff
      <4>1. k # B.buff /\ heap[k] > 0
        BY <1>1, <1>2, <2>2, <3>2, BufferAssumption
      <4>2. PICK c \in Buffers : Owns(c) /\ buf[c].buff = k
        BY <1>1, <4>1 DEF OneOwner
      <4> QED
        BY <1>5, <1>8, <4>1, <4>2
    <3> QED
      BY <3>1, <3>2
  <2> QED
    BY <2>1, <2>2 DEF OneOwner
<1>13. ~BadFree(B.buff)
  BY <1>1, <1>3 DEF BadFree
<1> QED
  BY <1>6, <1>7, <1>11, <1>12, <1>13

\* A buffer that keeps its block and writes inside it.
LEMMA Kept ==
    ASSUME BufferInv, ~fault, NEW b \in Buffers,
           buf[b].state = "ready",
           NEW R \in [state : {"ready"}, alloc_sz : {buf[b].alloc_sz},
                      sz : 0..buf[b].alloc_sz, buff : {buf[b].buff}, todo : {0}],
           UNCHANGED <<heap, oom>>, buf' = [buf EXCEPT ![b] = R]
    PROVE  /\ fault' \in BOOLEAN => BufferTypeOK'
           /\ \A c \in Buffers : BufferOK(buf[c])'
           /\ WithinBlock' /\ OneOwner'
<1>1. /\ heap \in [Blocks -> Nat] /\ oom \in BOOLEAN
      /\ buf \in [Buffers -> [state : States, alloc_sz : Nat, sz : Nat,
                              buff : Blocks \union {Null}, todo : Nat]]
      /\ \A c \in Buffers : BufferOK(buf[c])
      /\ WithinBlock /\ OneOwner
  BY DEF BufferInv, BufferTypeOK
<1>2. /\ R.state = "ready" /\ R.alloc_sz = buf[b].alloc_sz /\ R.sz \in Nat
      /\ R.sz <= R.alloc_sz /\ R.buff = buf[b].buff /\ R.todo = 0
  BY <1>1
<1>3. /\ buf'[b] = R
      /\ \A c \in Buffers : c # b => buf'[c] = buf[c]
  BY <1>1
<1>4. fault' \in BOOLEAN => BufferTypeOK'
  <2>1. R \in [state : States, alloc_sz : Nat, sz : Nat,
               buff : Blocks \union {Null}, todo : Nat]
    BY <1>1, <1>2 DEF States
  <2> QED
    BY <1>1, <2>1 DEF BufferTypeOK
<1>5. \A c \in Buffers : BufferOK(buf[c])'
  BY <1>1, <1>2, <1>3 DEF BufferOK
<1>6. \A c \in Buffers : /\ buf'[c].buff = buf[c].buff
                         /\ buf'[c].alloc_sz = buf[c].alloc_sz
                         /\ Owns(c)' <=> Owns(c)
  BY <1>2, <1>3 DEF Owns
<1>7. WithinBlock'
  BY <1>1, <1>2, <1>3, <1>6 DEF WithinBlock
<1>8. OneOwner'
  BY <1>1, <1>6 DEF OneOwner
<1> QED
  BY <1>4, <1>5, <1>7, <1>8

\* A buffer that gives up its block, which is freed.
LEMMA Released ==
    ASSUME BufferInv, ~fault, NEW b \in Buffers,
           heap' = (IF buf[b].alloc_sz > 0 THEN free(heap, buf[b].buff) ELSE heap),
           NEW R \in [state : States, alloc_sz : Nat, sz : Nat,
                      buff : {Null}, todo : {0}],
           BufferOK(R)', buf' = [buf EXCEPT ![b] = R], oom' = oom
    PROVE  /\ fault' \in BOOLEAN => BufferTypeOK'
           /\ \A c \in Buffers : BufferOK(buf[c])'
           /\ WithinBlock' /\ OneOwner'
           /\ buf[b].alloc_sz > 0 => ~BadFree(buf[b].buff)
<1>1. /\ heap \in [Blocks -> Nat] /\ oom \in BOOLEAN
      /\ buf \in [Buffers -> [state : States, alloc_sz : Nat, sz : Nat,
                              buff : Blocks \union {Null}, todo : Nat]]
      /\ \A c \in Buffers : BufferOK(buf[c])
      /\ WithinBlock /\ OneOwner
  BY DEF BufferInv, BufferTypeOK
<1>2. /\ buf'[b] = R /\ R.buff = Null
      /\ \A c \in Buffers : c # b => buf'[c] = buf[c]
  BY <1>1
<1>3. /\ heap' \in [Blocks -> Nat]
      /\ \A k \in Blocks : ~(Owns(b) /\ k = buf[b].buff) => heap'[k] = heap[k]
      /\ Owns(b) => heap'[buf[b].buff] = 0
  BY <1>1, BufferAssumption DEF free, Owns
<1>4. fault' \in BOOLEAN => BufferTypeOK'
  BY <1>1, <1>3 DEF BufferTypeOK
<1>5. \A c \in Buffers : BufferOK(buf[c])'
  BY <1>1, <1>2 DEF BufferOK
<1>6. /\ ~Owns(b)'
      /\ \A c \in Buffers : c # b => (Owns(c)' <=> Owns(c))
  BY <1>2 DEF Owns
<1>7. \A c \in Buffers : Owns(c)' =>
          /\ c # b /\ Owns(c) /\ buf'[c] = buf[c]
          /\ heap'[buf[c].buff] = heap[buf[c].buff]
  BY <1>1, <1>2, <1>3, <1>6 DEF Owns, OneOwner
<1>8. WithinBlock'
  BY <1>1, <1>7 DEF WithinBlock
<1>9. OneOwner'
  <2>1. \A c, d \in Buffers :
            Owns(c)' /\ Owns(d)' /\ (buf[c].buff = buf[d].buff)' => c = d
    BY <1>1, <1>7 DEF OneOwner
  <2>2. ASSUME NEW k \in Blocks, heap'[k] > 0
        PROVE  \E c \in Buffers : Owns(c)' /\ buf'[c].buff = k
    <3>1. heap[k] > 0 /\ ~(Owns(b) /\ k = buf[b].buff)
      BY <1>3, <2>2
    <3>2. PICK c \in Buffers : Owns(c) /\ buf[c].buff = k
      BY <1>1, <3>1 DEF OneOwner
    <3> QED
      BY <1>2, <1>6, <3>1, <3>2
  <2> QED
    BY <2>1, <2>2 DEF OneOwner
<1>10. buf[b].alloc_sz > 0 => ~BadFree(buf[b].buff)
  BY <1>1 DEF BadFree, WithinBlock, Owns
<1> QED
  BY <1>4, <1>5, <1>8, <1>9, <1>10

-----------------------------------------------------------------------------
(* One lemma for each operation of a buffer.                               *)

LEMMA ConstructInv ==
    ASSUME BufferInv, NEW b \in Buffers, construct(b)
    PROVE  BufferInv'
<1>1. PICK alloc \in Garbage :
          buf' = [buf EXCEPT ![b] = Buffer("constructed", alloc, 0, Null)]
  BY DEF construct
<1>2. ~fault /\ buf[b].state = "none" /\ UNCHANGED <<heap, fault, oom>>
  BY DEF construct, Idle
<1> DEFINE R == Buffer("constructed", alloc, 0, Null)
<1>3. /\ R \in [state : States, alloc_sz : Nat, sz : Nat, buff : {Null}, todo : {0}]
      /\ BufferOK(R)'
  BY BufferAssumption DEF Buffer, States, BufferOK
<1>4. buf[b].buff = Null
  BY <1>2 DEF BufferInv, BufferOK
<1>5. heap' = IF buf[b].alloc_sz > 0 THEN free(heap, buf[b].buff) ELSE heap
  BY <1>2, <1>4 DEF free
<1>6. /\ fault' \in BOOLEAN => BufferTypeOK'
      /\ \A c \in Buffers : BufferOK(buf[c])'
      /\ WithinBlock' /\ OneOwner'
  <2> HIDE DEF R
  <2> QED
    BY <1>1, <1>2, <1>3, <1>5, Released DEF R
<1> QED
  BY <1>2, <1>6 DEF BufferInv, BufferTypeOK, FaultsFollowOom

LEMMA InitInv ==
    ASSUME BufferInv, NEW b \in Buffers, NEW size \in Nat, init(b, size)
    PROVE  BufferInv'
<1>1. PICK m \in realloc(heap, buf[b].buff, size) :
          /\ heap' = m.heap
          /\ buf' = [buf EXCEPT ![b] = Buffer("ready", size, 0, m.buff)]
          /\ oom' = (oom \/ m.buff = Null)
  BY DEF init
<1>2. /\ ~fault /\ size > 0 /\ fault' = BadFree(buf[b].buff)
      /\ buf[b].state \in {"constructed", "ready", "overlaid"}
  BY DEF init, Idle
<1> DEFINE R == Buffer("ready", size, 0, m.buff)
<1>3. /\ R \in [state : {"ready"}, alloc_sz : {size}, sz : 0..size,
                buff : {m.buff}, todo : Nat]
      /\ R.todo > 0 => R.buff # Null
      /\ buf' = [buf EXCEPT ![b] = R]
  BY <1>1 DEF Buffer
<1> HIDE DEF R
<1>4. /\ fault' \in BOOLEAN => BufferTypeOK'
      /\ \A c \in Buffers : BufferOK(buf[c])'
      /\ WithinBlock' /\ OneOwner' /\ ~BadFree(buf[b].buff)
  BY <1>1, <1>2, <1>3, Resized
<1>5. fault' = FALSE
  BY <1>2, <1>4
<1> QED
  BY <1>4, <1>5 DEF BufferInv, FaultsFollowOom

LEMMA DestroyInv ==
    ASSUME BufferInv, NEW b \in Buffers, destroy(b)
    PROVE  BufferInv'
<1>1. /\ ~fault
      /\ heap' = IF buf[b].alloc_sz > 0 THEN free(heap, buf[b].buff) ELSE heap
      /\ buf' = [buf EXCEPT ![b] = NoBuffer] /\ oom' = oom
      /\ fault' = (buf[b].alloc_sz > 0 /\ BadFree(buf[b].buff))
  BY DEF destroy, Idle
<1>2. /\ NoBuffer \in [state : States, alloc_sz : Nat, sz : Nat, buff : {Null}, todo : {0}]
      /\ BufferOK(NoBuffer)'
  BY DEF NoBuffer, Buffer, States, BufferOK
<1>3. /\ fault' \in BOOLEAN => BufferTypeOK'
      /\ \A c \in Buffers : BufferOK(buf[c])'
      /\ WithinBlock' /\ OneOwner'
      /\ buf[b].alloc_sz > 0 => ~BadFree(buf[b].buff)
  BY <1>1, <1>2, Released
<1> QED
  BY <1>1, <1>3 DEF BufferInv, FaultsFollowOom

LEMMA FillInv ==
    ASSUME BufferInv, NEW b \in Buffers, NEW room \in Nat, NEW used \in 0..room,
           NEW looks \in BOOLEAN, fill(b, room, used, looks)
    PROVE  BufferInv'
<1> DEFINE B == buf[b]
           grows == B.sz + room > B.alloc_sz
           alloc == IF grows THEN Grown(B.alloc_sz, B.sz + room) ELSE B.alloc_sz
           Before == [buff |-> B.buff, heap |-> heap]
<1>1. ~fault /\ B.state = "ready" /\ used \in Nat /\ used <= room
  BY DEF fill, Idle
<1>2. /\ B.sz \in Nat /\ B.alloc_sz \in Nat /\ B.alloc_sz > 0 /\ B.sz <= B.alloc_sz
      /\ oom \in BOOLEAN /\ (oom \/ B.buff # Null)
      /\ B.buff # Null => heap[B.buff] = B.alloc_sz
  BY <1>1 DEF BufferInv, BufferTypeOK, BufferOK, WithinBlock, Owns
<1>3. alloc \in Nat /\ alloc > 0 /\ B.sz + room <= alloc
  <2>1. B.sz + room \in Nat
    BY <1>2
  <2>2. /\ Grown(B.alloc_sz, B.sz + room) \in Nat
        /\ Grown(B.alloc_sz, B.sz + room) > B.sz + room
    BY <1>2, <2>1, GrownIsEnough
  <2> QED
    BY <1>2, <2>1, <2>2
<1> DEFINE Stops(m) == grows /\ m.buff = Null /\ looks
           R(m) == Buffer("ready", alloc, IF Stops(m) THEN B.sz ELSE B.sz + used, m.buff)
<1>4. PICK m \in IF grows THEN realloc(heap, B.buff, alloc) ELSE {Before} :
          /\ heap' = m.heap
          /\ buf' = [buf EXCEPT ![b] = R(m)]
          /\ oom' = (oom \/ (grows /\ m.buff = Null))
          /\ fault' = \/ grows /\ BadFree(B.buff)
                      \/ ~Stops(m) /\ used > 0
                         /\ (m.buff = Null \/ m.heap[m.buff] < B.sz + used)
  BY DEF fill
<1>5. R(m) \in [state : {"ready"}, alloc_sz : {alloc}, sz : 0..alloc,
                buff : {m.buff}, todo : {0}]
  BY <1>1, <1>2, <1>3 DEF Buffer
<1>12. /\ oom => oom'
       /\ grows /\ m.buff = Null => oom'
       /\ fault' => \/ grows /\ BadFree(B.buff)
                    \/ m.buff = Null
                    \/ m.heap[m.buff] < B.sz + used
  <2> HIDE DEF grows, Stops
  <2> QED
    BY <1>4
<1>6. PICK r : r = R(m)
  OBVIOUS
<1>7. /\ r \in [state : {"ready"}, alloc_sz : {alloc}, sz : 0..alloc,
                buff : {m.buff}, todo : {0}]
      /\ buf' = [buf EXCEPT ![b] = r]
  BY <1>4, <1>5, <1>6
<1>8. CASE grows
  <2>1. m \in realloc(heap, B.buff, alloc) /\ oom' = (oom \/ m.buff = Null)
    BY <1>4, <1>8
  <2>2. /\ r \in [state : {"ready"}, alloc_sz : {alloc}, sz : 0..alloc,
                  buff : {m.buff}, todo : Nat]
        /\ r.todo = 0
    BY <1>7
  <2>3. /\ fault' \in BOOLEAN => BufferTypeOK'
        /\ \A c \in Buffers : BufferOK(buf[c])'
        /\ WithinBlock' /\ OneOwner' /\ ~BadFree(B.buff)
    <3>1. heap' = m.heap /\ (r.todo > 0 => r.buff # Null)
      BY <1>4, <2>2
    <3> HIDE DEF alloc, grows, R
    <3> QED
      BY <1>1, <1>3, <1>7, <2>1, <2>2, <3>1, Resized
  <2>4. heap \in [Blocks -> Nat] /\ B.buff \in Blocks \union {Null}
    BY DEF BufferInv, BufferTypeOK
  <2>5. m.buff # Null => m.heap[m.buff] = alloc
    BY <1>3, <2>1, <2>4, Realloc
  <2>6. fault' => oom'
    <3>1. m.buff # Null => ~(m.heap[m.buff] < B.sz + used)
      BY <1>1, <1>2, <1>3, <2>5
    <3> QED
      BY <1>8, <1>12, <2>3, <3>1
  <2>7. fault' \in BOOLEAN
    BY <1>4
  <2> QED
    BY <2>3, <2>6, <2>7 DEF BufferInv, FaultsFollowOom
<1>9. CASE ~grows
  <2>1. /\ m = Before /\ alloc = B.alloc_sz /\ heap' = heap /\ m.buff = B.buff
        /\ m.heap = heap /\ oom' = oom
    BY <1>2, <1>4, <1>9
  <2>2. r \in [state : {"ready"}, alloc_sz : {B.alloc_sz}, sz : 0..B.alloc_sz,
               buff : {B.buff}, todo : {0}]
    BY <1>7, <2>1
  <2>3. /\ fault' \in BOOLEAN => BufferTypeOK'
        /\ \A c \in Buffers : BufferOK(buf[c])'
        /\ WithinBlock' /\ OneOwner'
    BY <1>1, <1>7, <2>1, <2>2, Kept
  <2>4. fault' => oom'
    <3>1. B.buff # Null => ~(heap[B.buff] < B.sz + used)
      BY <1>1, <1>2, <1>3, <2>1
    <3> QED
      BY <1>2, <1>9, <1>12, <2>1, <3>1
  <2>5. fault' \in BOOLEAN
    BY <1>4
  <2> QED
    BY <2>3, <2>4, <2>5 DEF BufferInv, FaultsFollowOom
<1> QED
  BY <1>8, <1>9

LEMMA PassInv ==
    ASSUME BufferInv, ~fault, NEW b \in Buffers, buf[b].state = "ready",
           NEW len \in Nat, pass(b, len)
    PROVE  BufferInv'
<1> DEFINE B == buf[b]
           fits == B.sz + len < B.alloc_sz
           alloc == IF fits THEN B.alloc_sz ELSE Larger(B.alloc_sz)
           Before == [buff |-> B.buff, heap |-> heap]
           R(m) == [state |-> "ready", buff |-> m.buff, alloc_sz |-> alloc,
                    sz   |-> IF fits THEN B.sz + len ELSE Restarted(B.sz, len),
                    todo |-> IF fits \/ m.buff = Null THEN 0 ELSE len]
<1>1. /\ B.sz \in Nat /\ B.alloc_sz \in Nat /\ B.alloc_sz > 0 /\ B.sz <= B.alloc_sz
      /\ oom \in BOOLEAN /\ (oom \/ B.buff # Null)
      /\ B.buff # Null => heap[B.buff] = B.alloc_sz
  BY DEF BufferInv, BufferTypeOK, BufferOK, WithinBlock, Owns
<1>2. alloc \in Nat /\ alloc > 0 /\ B.alloc_sz <= alloc
  BY <1>1 DEF Larger
<1>3. PICK m \in IF fits THEN {Before} ELSE realloc(heap, B.buff, Larger(B.alloc_sz)) :
          /\ heap' = m.heap
          /\ buf' = [buf EXCEPT ![b] = R(m)]
          /\ oom' = (oom \/ (~fits /\ m.buff = Null))
  BY DEF pass
<1>4. fault' = \/ ~fits /\ BadFree(B.buff)
               \/ B.sz < B.alloc_sz /\ (B.buff = Null \/ heap[B.buff] < B.alloc_sz)
  BY DEF pass
<1>5. /\ R(m) \in [state : {"ready"}, alloc_sz : {alloc}, sz : 0..alloc,
                   buff : {m.buff}, todo : Nat]
      /\ R(m).todo > 0 => ~fits /\ m.buff # Null
  BY <1>1, <1>2 DEF Restarted
<1>6. PICK r : r = R(m)
  OBVIOUS
<1>7. /\ r \in [state : {"ready"}, alloc_sz : {alloc}, sz : 0..alloc,
                buff : {m.buff}, todo : Nat]
      /\ r.todo > 0 => ~fits /\ m.buff # Null
      /\ r.buff = m.buff
      /\ buf' = [buf EXCEPT ![b] = r]
  BY <1>3, <1>5, <1>6
<1>8. fault' \in BOOLEAN
  BY <1>4
<1>11. /\ oom => oom'
       /\ fault' => (~fits /\ BadFree(B.buff)) \/ B.buff = Null
  <2>1. B.buff # Null => ~(heap[B.buff] < B.alloc_sz)
    BY <1>1
  <2> HIDE DEF fits
  <2> QED
    BY <1>3, <1>4, <2>1
<1>9. CASE ~fits
  <2>1. m \in realloc(heap, B.buff, alloc) /\ oom' = (oom \/ m.buff = Null)
    BY <1>3, <1>9
  <2>2. /\ fault' \in BOOLEAN => BufferTypeOK'
        /\ \A c \in Buffers : BufferOK(buf[c])'
        /\ WithinBlock' /\ OneOwner' /\ ~BadFree(B.buff)
    <3> HIDE DEF alloc, fits, R
    <3> QED
      BY <1>2, <1>3, <1>7, <2>1, Resized
  <2>3. fault' => oom'
    <3>1. oom \/ B.buff # Null
      BY <1>1
    <3> HIDE DEF fits, B
    <3> QED
      BY <1>11, <2>2, <3>1
  <2> QED
    BY <1>8, <2>2, <2>3 DEF BufferInv, FaultsFollowOom
<1>10. CASE fits
  <2>1. /\ m = Before /\ alloc = B.alloc_sz /\ heap' = heap /\ m.buff = B.buff
        /\ oom' = oom
    BY <1>1, <1>3, <1>10
  <2>2. r \in [state : {"ready"}, alloc_sz : {B.alloc_sz}, sz : 0..B.alloc_sz,
               buff : {B.buff}, todo : {0}]
    BY <1>7, <1>10, <2>1
  <2>3. /\ fault' \in BOOLEAN => BufferTypeOK'
        /\ \A c \in Buffers : BufferOK(buf[c])'
        /\ WithinBlock' /\ OneOwner'
    BY <1>7, <2>1, <2>2, Kept
  <2>4. fault' => oom'
    <3>1. oom \/ B.buff # Null
      BY <1>1
    <3> HIDE DEF fits, B
    <3> QED
      BY <1>10, <1>11, <3>1
  <2> QED
    BY <1>8, <2>3, <2>4 DEF BufferInv, FaultsFollowOom
<1> QED
  BY <1>9, <1>10

LEMMA OverlayInv ==
    ASSUME BufferInv, NEW b \in Buffers, NEW other \in Buffers, overlay(b, other)
    PROVE  BufferInv'
<1> DEFINE B == buf[b]
           O == buf[other]
           R == Buffer("overlaid", O.alloc_sz, O.sz, O.buff)
<1>1. /\ heap \in [Blocks -> Nat] /\ oom \in BOOLEAN
      /\ buf \in [Buffers -> [state : States, alloc_sz : Nat, sz : Nat,
                              buff : Blocks \union {Null}, todo : Nat]]
      /\ ~fault /\ b # other
      /\ \A c \in Buffers : BufferOK(buf[c]) /\ buf[c].todo = 0
      /\ WithinBlock /\ OneOwner
  BY DEF BufferInv, BufferTypeOK, overlay, Idle
<1>2. /\ B.state \in {"constructed", "ready", "overlaid"} /\ O.state = "ready"
      /\ heap' = IF B.alloc_sz > 0 THEN free(heap, B.buff) ELSE heap
      /\ buf' = [buf EXCEPT ![b] = R, ![other].state = "taken", ![other].alloc_sz = 0]
      /\ fault' = (B.alloc_sz > 0 /\ BadFree(B.buff))
      /\ oom' = oom
  BY DEF overlay
<1>3. /\ R.state = "overlaid" /\ R.alloc_sz = O.alloc_sz /\ R.sz = O.sz
      /\ R.buff = O.buff /\ R.todo = 0
      /\ R \in [state : States, alloc_sz : Nat, sz : Nat,
                buff : Blocks \union {Null}, todo : Nat]
  BY <1>1 DEF Buffer, States
<1>4. /\ buf'[b] = R
      /\ buf'[other] = [O EXCEPT !.state = "taken", !.alloc_sz = 0]
      /\ \A c \in Buffers : c # b /\ c # other => buf'[c] = buf[c]
  BY <1>1, <1>2
<1>5. /\ buf'[other].state = "taken" /\ buf'[other].alloc_sz = 0
      /\ buf'[other].todo = 0
      /\ buf'[other] \in [state : States, alloc_sz : Nat, sz : Nat,
                          buff : Blocks \union {Null}, todo : Nat]
  BY <1>1, <1>4 DEF States
<1> HIDE DEF R
<1>6. fault' = FALSE
  <2>1. B.alloc_sz > 0 => ~BadFree(B.buff)
    BY <1>1 DEF BadFree, WithinBlock, Owns
  <2> QED
    BY <1>2, <2>1
<1>7. /\ heap' \in [Blocks -> Nat]
      /\ \A k \in Blocks : ~(Owns(b) /\ k = B.buff) => heap'[k] = heap[k]
      /\ Owns(b) => heap'[B.buff] = 0
  BY <1>1, <1>2, BufferAssumption DEF free, Owns
<1>8. BufferTypeOK'
  <2>1. buf' \in [Buffers -> [state : States, alloc_sz : Nat, sz : Nat,
                              buff : Blocks \union {Null}, todo : Nat]]
    <3>1. \A c \in Buffers : buf'[c] \in [state : States, alloc_sz : Nat, sz : Nat,
                                          buff : Blocks \union {Null}, todo : Nat]
      BY <1>1, <1>3, <1>4, <1>5
    <3>2. buf' = [c \in Buffers |-> buf'[c]]
      BY <1>1, <1>2
    <3> QED
      BY <3>1, <3>2
  <2> QED
    BY <1>1, <1>2, <1>6, <1>7, <2>1 DEF BufferTypeOK
<1>9. \A c \in Buffers : BufferOK(buf[c])'
  <2>1. BufferOK(buf[b])'
    BY <1>1, <1>2, <1>3, <1>4 DEF BufferOK
  <2>2. BufferOK(buf[other])'
    BY <1>5 DEF BufferOK
  <2>3. ASSUME NEW c \in Buffers, c # b, c # other PROVE BufferOK(buf[c])'
    BY <1>1, <1>2, <1>4, <2>3 DEF BufferOK
  <2> QED
    BY <2>1, <2>2, <2>3
<1>10. /\ Owns(b)' <=> Owns(other)
       /\ ~Owns(other)'
       /\ \A c \in Buffers : c # b /\ c # other => (Owns(c)' <=> Owns(c))
  BY <1>3, <1>4, <1>5 DEF Owns
\* the owner before of the block that c owns after
<1> DEFINE Giver(c) == IF c = b THEN other ELSE c
<1>11. \A c \in Buffers : Owns(c)' =>
          /\ c # other /\ Giver(c) \in Buffers /\ Giver(c) # b /\ Owns(Giver(c))
          /\ buf'[c].buff = buf[Giver(c)].buff
          /\ buf'[c].alloc_sz = buf[Giver(c)].alloc_sz
          /\ buf'[c].sz = buf[Giver(c)].sz
          /\ buf[Giver(c)].buff \in Blocks
  BY <1>1, <1>3, <1>4, <1>10 DEF Owns
<1>12. \A c \in Buffers : Owns(c)' =>
          heap'[buf[Giver(c)].buff] = heap[buf[Giver(c)].buff]
  BY <1>1, <1>7, <1>11 DEF OneOwner
<1>13. WithinBlock'
  <2>1. ASSUME NEW c \in Buffers, Owns(c)'
        PROVE  (heap[buf[c].buff] = buf[c].alloc_sz /\ buf[c].sz <= buf[c].alloc_sz)'
    <3> HIDE DEF Giver
    <3> QED
      BY <1>1, <1>11, <1>12, <2>1 DEF WithinBlock
  <2> QED
    BY <2>1 DEF WithinBlock
<1>14. OneOwner'
  <2>1. ASSUME NEW c \in Buffers, NEW d \in Buffers,
               Owns(c)', Owns(d)', (buf[c].buff = buf[d].buff)'
        PROVE  c = d
    <3>1. Giver(c) = Giver(d)
      <4> HIDE DEF Giver
      <4> QED
        BY <1>1, <1>11, <2>1 DEF OneOwner
    <3> QED
      BY <1>11, <2>1, <3>1
  <2>2. ASSUME NEW k \in Blocks, heap'[k] > 0
        PROVE  \E c \in Buffers : Owns(c)' /\ buf'[c].buff = k
    <3>1. heap[k] > 0 /\ ~(Owns(b) /\ k = B.buff)
      BY <1>7, <2>2
    <3>2. PICK c \in Buffers : Owns(c) /\ buf[c].buff = k
      BY <1>1, <3>1 DEF OneOwner
    <3>3. CASE c = other
      BY <1>3, <1>4, <1>10, <3>2, <3>3
    <3>4. CASE c # other
      BY <1>4, <1>10, <3>1, <3>2, <3>4
    <3> QED
      BY <3>3, <3>4
  <2> QED
    BY <2>1, <2>2 DEF OneOwner
<1> QED
  BY <1>6, <1>8, <1>9, <1>13, <1>14 DEF BufferInv, FaultsFollowOom

-----------------------------------------------------------------------------
(* The results about the buffers.                                          *)

LEMMA BufferInitInv == BufferInit => BufferInv
<1> SUFFICES ASSUME BufferInit PROVE BufferInv
  OBVIOUS
<1>1. BufferTypeOK
  BY DEF BufferInit, BufferTypeOK, NoBuffer, Buffer, States
<1>2. ASSUME NEW b \in Buffers PROVE BufferOK(buf[b]) /\ ~Owns(b)
  <2>1. buf[b].buff = Null /\ buf[b].state = "none" /\ ~(buf[b].todo > 0)
    BY DEF BufferInit, NoBuffer, Buffer
  <2>2. BufferOK(buf[b])
    BY <2>1 DEF BufferOK
  <2> QED
    BY <2>1, <2>2 DEF Owns
<1>3. WithinBlock /\ OneOwner
  BY <1>2 DEF WithinBlock, OneOwner, BufferInit
<1> QED
  BY <1>1, <1>2, <1>3 DEF BufferInv, BufferInit, FaultsFollowOom

LEMMA BufferStepInv ==
    ASSUME BufferInv, NEW b \in Buffers, BufferStep(b)
    PROVE  BufferInv'
<1>1. CASE construct(b)
  BY <1>1, ConstructInv
<1>2. CASE \E size \in Nat : init(b, size)
  BY <1>2, InitInv
<1>3. CASE \E room \in Nat, looks \in BOOLEAN : \E used \in 0..room : fill(b, room, used, looks)
  BY <1>3, FillInv
<1>4. CASE \E len \in Nat : outf(b, len)
  BY <1>4, PassInv DEF outf, Idle
<1>5. CASE retry(b)
  <2>1. /\ ~fault /\ buf[b].todo > 0 /\ pass(b, buf[b].todo)
        /\ buf[b].todo \in Nat /\ buf[b].state = "ready"
    BY <1>5 DEF retry, BufferInv, BufferTypeOK, BufferOK
  <2> QED
    BY <2>1, PassInv
<1>6. CASE \E other \in Buffers : overlay(b, other)
  BY <1>6, OverlayInv
<1>7. CASE destroy(b)
  BY <1>7, DestroyInv
<1> QED
  BY <1>1, <1>2, <1>3, <1>4, <1>5, <1>6, <1>7 DEF BufferStep

\* A stuttering step keeps what only depends on the buffers.
LEMMA BufferStutterInv ==
    ASSUME BufferInv, UNCHANGED bvars
    PROVE  BufferInv'
BY DEF BufferInv, BufferTypeOK, FaultsFollowOom, BufferOK, WithinBlock, OneOwner,
       Owns, bvars

LEMMA BufferInvImplies ==
    BufferInv => BufferTypeOK /\ BlocksAreOwned /\ FaultsFollowOom
BY DEF BufferInv, BlocksAreOwned

\* Whatever the order of the operations on the buffers and whichever
\* allocations fail: sizes and blocks agree, every block has one owner, and a
\* block is used wrongly only after a failed allocation.
THEOREM BuffersAreSound ==
    BufferSpec => [](BufferTypeOK /\ BlocksAreOwned /\ FaultsFollowOom)
<1>1. BufferInit => BufferInv
  BY BufferInitInv
<1>2. BufferInv /\ [\E b \in Buffers : BufferStep(b)]_bvars => BufferInv'
  BY BufferStepInv, BufferStutterInv
<1> QED
  BY <1>1, <1>2, BufferInvImplies, PTL DEF BufferSpec

\* A block is written or freed wrongly only after an allocation has failed, in
\* whatever order the operations are called (result_buffer.cc).
THEOREM FaultsNeedFailures == BufferSpec => []FaultsFollowOom
BY BuffersAreSound, PTL

-----------------------------------------------------------------------------
(* The arithmetic of integers of a width, what MySQL::value() makes of a    *)
(* number and what MySQL::result::out() prints of that.                     *)

\* 2^n is the number of the subsets of n numbers.
LEMMA PowerIsCardinality ==
    ASSUME NEW n \in Nat
    PROVE  IsFiniteSet(SUBSET (1..n)) /\ Cardinality(SUBSET (1..n)) = 2^n
<1>1. IsFiniteSet(1..n) /\ Cardinality(1..n) = n
  BY FS_Interval
<1> QED
  BY <1>1, FS_SUBSET

LEMMA PowerIs ==
    ASSUME NEW n \in Nat
    PROVE  2^n \in Nat /\ 2^n > 0 /\ 2^(n + 1) = 2 * 2^n
<1> DEFINE A == SUBSET (1..n)
           B == SUBSET (1..(n + 1))
           C == {T \in B : n + 1 \in T}
           f == [T \in A |-> T \union {n + 1}]
<1>1. IsFiniteSet(A) /\ Cardinality(A) = 2^n
  BY PowerIsCardinality
<1>2. IsFiniteSet(B) /\ Cardinality(B) = 2^(n + 1)
  BY PowerIsCardinality
<1>3. B = A \union C /\ A \cap C = {}
  OBVIOUS
<1>4. f \in Bijection(A, C)
  <2>1. f \in [A -> C]
    OBVIOUS
  <2>2. ASSUME NEW S \in A, NEW T \in A, f[S] = f[T] PROVE S = T
    BY <2>2
  <2>3. ASSUME NEW T \in C PROVE \E S \in A : f[S] = T
    <3>1. T \ {n + 1} \in A /\ (T \ {n + 1}) \union {n + 1} = T
      OBVIOUS
    <3> QED
      BY <3>1
  <2> HIDE DEF A, C, f
  <2>4. f \in Injection(A, C)
    BY <2>1, <2>2 DEF Injection, IsInjective
  <2>5. f \in Surjection(A, C)
    BY <2>1, <2>3 DEF Surjection
  <2> QED
    BY <2>4, <2>5 DEF Bijection
<1>5. {} \in A
  OBVIOUS
<1> HIDE DEF A, B, C, f
<1>6. ExistsBijection(A, C)
  BY <1>4 DEF ExistsBijection
<1>7. IsFiniteSet(C) /\ Cardinality(C) = Cardinality(A)
  BY <1>1, <1>6, FS_Bijection
<1>8. Cardinality(A \union C) = Cardinality(A) + Cardinality(C) - Cardinality(A \cap C)
  BY <1>1, <1>7, FS_Union
<1>9. Cardinality(A \cap C) = 0
  BY <1>3, FS_EmptySet
<1>10. Cardinality(A) \in Nat
  BY <1>1, FS_CardinalityType
<1>11. Cardinality(A) # 0
  BY <1>1, <1>5, FS_EmptySet
<1>12. 2^(n + 1) = Cardinality(A) + Cardinality(A) - 0
  BY <1>2, <1>3, <1>7, <1>8, <1>9
<1> QED
  BY <1>1, <1>10, <1>11, <1>12

LEMMA PowerOfSum ==
    ASSUME NEW a \in Nat, NEW b \in Nat
    PROVE  2^(a + b) = 2^a * 2^b
<1> DEFINE Good == {n \in Nat : 2^(a + n) = 2^a * 2^n}
<1>1. 0 \in Good
  <2>1. 2^(a + 0) = 2^a /\ 2^0 = 1 /\ 2^a \in Nat
    BY PowerIs
  <2> QED
    BY <2>1
<1>2. ASSUME NEW n \in Nat, n \in Good PROVE n + 1 \in Good
  <2> DEFINE A == 2^a
             B == 2^n
             C == 2^(a + n)
  <2>1. A \in Nat /\ B \in Nat /\ 2^(n + 1) = 2 * B
    BY PowerIs
  <2>2. a + n \in Nat /\ a + (n + 1) = (a + n) + 1
    OBVIOUS
  <2>3. 2^((a + n) + 1) = 2 * C
    BY <2>2, PowerIs
  <2>4. C = A * B
    BY <1>2
  <2>5. 2^(a + (n + 1)) = 2 * C
    BY <2>2, <2>3
  <2> HIDE DEF A, B, C
  <2>6. 2 * (A * B) = A * (2 * B)
    BY <2>1
  <2>7. 2^(a + (n + 1)) = A * 2^(n + 1)
    BY <2>1, <2>4, <2>5, <2>6
  <2> QED
    BY <2>7 DEF A
<1> HIDE DEF Good
<1>3. Nat \subseteq Good
  BY <1>1, <1>2, Induction
<1>4. b \in Good
  BY <1>3
<1> QED
  BY <1>4 DEF Good

LEMMA PowerGrows ==
    ASSUME NEW a \in Nat, NEW b \in Nat, a <= b
    PROVE  2^a <= 2^b
<1> DEFINE A == 2^a
           C == 2^(b - a)
<1>1. b - a \in Nat /\ a + (b - a) = b
  OBVIOUS
<1>2. 2^(a + (b - a)) = A * C
  BY <1>1, PowerOfSum
<1>3. A \in Nat /\ C \in Nat /\ C > 0
  BY <1>1, PowerIs
<1> HIDE DEF C, A
<1>4. A <= A * C
  BY <1>3
<1>5. 2^b = A * C
  BY <1>1, <1>2
<1> QED
  BY <1>4, <1>5 DEF A

\* The rest of a division
LEMMA RestIs ==
    ASSUME NEW x \in Int, NEW p \in Nat, p > 0
    PROVE  x % p \in 0..(p - 1) /\ (x \in 0..(p - 1) => x % p = x)
<1>1. x % p \in 0..(p - 1)
  OBVIOUS
<1>2. ASSUME x \in 0..(p - 1) PROVE x % p = x
  BY <1>2
<1> QED
  BY <1>1, <1>2

LEMMA BoundsAre ==
    ASSUME NEW type \in Numeric
    PROVE  /\ Bits(type) \in Nat \ {0} /\ 2^Bits(type) \in Nat
           /\ Low(type) \in Int /\ High(type) \in Int
           /\ High(type) = Low(type) + 2^Bits(type) - 1
           /\ Low(type) <= 0 /\ 0 < High(type)
<1> DEFINE b == Bits(type)
<1>1. /\ CharBits \in Nat /\ ShortBits \in Nat /\ MediumBits \in Nat /\ IntBits \in Nat
      /\ CharBits > 1 /\ ShortBits > 1 /\ MediumBits > 1 /\ IntBits > 1
  BY ValuesAssumption
<1>2. b \in {CharBits, ShortBits, MediumBits, IntBits, 2 * IntBits}
  BY DEF Bits, Numeric, Integral, Narrow
<1>3. b \in Nat /\ b > 1
  BY <1>1, <1>2
<1> HIDE DEF b
<1>4. b - 1 \in Nat /\ (b - 1) + 1 = b /\ b - 2 \in Nat /\ (b - 2) + 1 = b - 1
  BY <1>3
<1>5. 2^(b - 1) \in Nat /\ 2^((b - 1) + 1) = 2 * 2^(b - 1)
  BY <1>4, PowerIs
<1>6. 2^(b - 2) \in Nat /\ 2^(b - 2) > 0 /\ 2^((b - 2) + 1) = 2 * 2^(b - 2)
  BY <1>4, PowerIs
<1>7. 2^(b - 1) > 1 /\ 2^b = 2 * 2^(b - 1)
  BY <1>4, <1>5, <1>6
<1>8. CASE type \in Signed
  <2>1. Low(type) = -(2^(b - 1)) /\ High(type) = 2^(b - 1) - 1
    BY <1>8 DEF Low, High, b
  <2> QED
    BY <1>3, <1>5, <1>7, <2>1 DEF b
<1>9. CASE type \notin Signed
  <2>1. Low(type) = 0 /\ High(type) = 2^b - 1
    BY <1>9 DEF Low, High, b
  <2> QED
    BY <1>3, <1>5, <1>7, <2>1 DEF b
<1> QED
  BY <1>8, <1>9

LEMMA WrapIs ==
    ASSUME NEW type \in Numeric, NEW n \in Int
    PROVE  /\ Wrap(n, type) \in Int
           /\ Wrap(n, type) \in Low(type)..High(type)
           /\ n \in Low(type)..High(type) => Wrap(n, type) = n
<1> DEFINE lo == Low(type)
           hi == High(type)
           p  == 2^Bits(type)
<1>1. lo \in Int /\ hi \in Int /\ p \in Nat /\ hi = lo + p - 1 /\ lo <= 0 /\ 0 < hi
  BY BoundsAre
<1>2. Wrap(n, type) = lo + ((n - lo) % p)
  BY DEF Wrap
<1> HIDE DEF lo, hi, p
<1>3. p > 0 /\ n - lo \in Int
  BY <1>1
<1>4. (n - lo) % p \in 0..(p - 1) /\ (n - lo \in 0..(p - 1) => (n - lo) % p = n - lo)
  BY <1>1, <1>3, RestIs
<1>5. n \in lo..hi => n - lo \in 0..(p - 1)
  BY <1>1
<1> QED
  BY <1>1, <1>2, <1>4, <1>5 DEF lo, hi

LEMMA ClampIs ==
    ASSUME NEW n \in Int, NEW lo \in Int, NEW hi \in Int, lo <= hi
    PROVE  /\ Clamp(n, lo, hi) \in Int /\ Clamp(n, lo, hi) \in lo..hi
           /\ n \in lo..hi => Clamp(n, lo, hi) = n
  BY DEF Clamp

LEMMA strtolIs ==
    ASSUME NEW type \in Numeric, NEW n \in Int
    PROVE  /\ strtol(n, type) \in Int
           /\ strtol(n, type) \in Low(type)..High(type)
           /\ n \in Low(type)..High(type) => strtol(n, type) = n
<1>1. Low(type) \in Int /\ High(type) \in Int /\ Low(type) <= High(type)
  BY BoundsAre
<1> QED
  BY <1>1, ClampIs DEF strtol

LEMMA strtoulIs ==
    ASSUME NEW type \in Numeric, Low(type) = 0, NEW n \in Int
    PROVE  /\ strtoul(n, type) \in Int
           /\ strtoul(n, type) \in 0..High(type)
           /\ n >= 0 => strtoul(n, type) = Clamp(n, 0, High(type))
<1>1. High(type) \in Int /\ 0 < High(type)
  BY BoundsAre
<1>2. /\ Wrap(n, type) \in Int /\ Wrap(n, type) \in 0..High(type)
      /\ n \in 0..High(type) => Wrap(n, type) = n
  BY WrapIs
<1> QED
  BY <1>1, <1>2 DEF strtoul, Clamp

\* The ranges of the types one finds inside one another.
LEMMA RangesAre ==
    /\ \A type \in Narrow : Low("Int") <= Low(type) /\ High(type) <= High("Int")
    /\ Low("Bigint") <= Low("Int") /\ High("Int") <= High("Bigint")
    /\ High("Unsigned") <= High("Bigunsigned")
    /\ \A type \in {"Unsigned", "Timestamp", "Bigunsigned", "Year", "Bit"} : Low(type) = 0
    /\ High("Unsigned") = 2^IntBits - 1
    /\ High("Timestamp") = High("Unsigned")
    /\ High("Bit") = High("Bigunsigned")
    /\ High("Bit") = 2^IntBits * 2^IntBits - 1
    /\ High("Int") = 2^(IntBits - 1) - 1
    /\ High("Year") = 2^CharBits - 1
<1>1. /\ CharBits \in Nat /\ ShortBits \in Nat /\ MediumBits \in Nat /\ IntBits \in Nat
      /\ 1 < CharBits /\ CharBits < ShortBits /\ ShortBits < MediumBits /\ MediumBits < IntBits
  BY ValuesAssumption
<1>2. /\ IntBits - 1 \in Nat /\ (2 * IntBits) - 1 \in Nat /\ 2 * IntBits \in Nat
      /\ IntBits <= 2 * IntBits /\ IntBits - 1 <= (2 * IntBits) - 1
      /\ IntBits + IntBits = 2 * IntBits
  BY <1>1
<1> DEFINE I == 2^(IntBits - 1)
           W == 2^IntBits
           L == 2^((2 * IntBits) - 1)
           B == 2^(2 * IntBits)
<1>3. /\ I \in Nat /\ W \in Nat /\ L \in Nat /\ B \in Nat /\ I > 0 /\ W > 0 /\ L > 0 /\ B > 0
      /\ I <= L /\ W <= B
  BY <1>1, <1>2, PowerIs, PowerGrows
<1>4. B = W * W
  BY <1>1, <1>2, PowerOfSum
<1>5. ASSUME NEW type \in Narrow
      PROVE  Low("Int") <= Low(type) /\ High(type) <= High("Int")
  <2> DEFINE b == Bits(type)
  <2>1. b \in {CharBits, ShortBits, MediumBits} /\ b \in Nat /\ b <= IntBits - 1 /\ b >= 1
    <3>1. b \in {CharBits, ShortBits, MediumBits}
      BY DEF Bits, Narrow
    <3> QED
      BY <1>1, <3>1
  <2> HIDE DEF b
  <2>2. b - 1 \in Nat /\ b - 1 <= IntBits - 1
    BY <1>2, <2>1
  <2>3. 2^b \in Nat /\ 2^b <= I /\ 2^(b - 1) \in Nat /\ 2^(b - 1) <= I
    BY <1>2, <2>1, <2>2, PowerIs, PowerGrows
  <2>4. /\ Low(type) = IF type \in Signed THEN -(2^(b - 1)) ELSE 0
        /\ High(type) = IF type \in Signed THEN 2^(b - 1) - 1 ELSE 2^b - 1
    BY DEF Low, High, b
  <2>5. Low("Int") = -I /\ High("Int") = I - 1
    BY DEF Low, High, Bits, Signed
  <2> HIDE DEF I
  <2> QED
    BY <1>3, <2>3, <2>4, <2>5
<1>6. /\ Low("Int") = -I /\ High("Int") = I - 1
      /\ Low("Bigint") = -L /\ High("Bigint") = L - 1
  BY DEF Low, High, Bits, Signed
<1>7. /\ High("Unsigned") = W - 1 /\ High("Timestamp") = W - 1
      /\ High("Bigunsigned") = B - 1 /\ High("Bit") = B - 1
      /\ High("Year") = 2^CharBits - 1
  BY DEF High, Bits, Signed
<1>8. \A type \in {"Unsigned", "Timestamp", "Bigunsigned", "Year", "Bit"} : Low(type) = 0
  BY DEF Low, Signed
<1>9. /\ Low("Bigint") <= Low("Int") /\ High("Int") <= High("Bigint")
      /\ High("Unsigned") <= High("Bigunsigned")
  <2> HIDE DEF I, W, L, B
  <2> QED
    BY <1>3, <1>6, <1>7
<1> QED
  BY <1>4, <1>5, <1>6, <1>7, <1>8, <1>9

LEMMA LongIs ==
    ASSUME arch \in Archs
    PROVE  /\ long \in {"Int", "Bigint"} /\ long \in Numeric
           /\ ulong \in {"Unsigned", "Bigunsigned"} /\ ulong \in Numeric
           /\ Low(ulong) = 0
           /\ arch = "i386" => long = "Int" /\ ulong = "Unsigned"
           /\ arch # "i386" => long = "Bigint" /\ ulong = "Bigunsigned"
<1>1. /\ long \in {"Int", "Bigint"} /\ ulong \in {"Unsigned", "Bigunsigned"}
      /\ arch = "i386" => long = "Int" /\ ulong = "Unsigned"
      /\ arch # "i386" => long = "Bigint" /\ ulong = "Bigunsigned"
  BY DEF long, ulong
<1>2. {"Int", "Bigint", "Unsigned", "Bigunsigned"} \subseteq Numeric
  BY DEF Numeric, Integral
<1>3. Low("Unsigned") = 0 /\ Low("Bigunsigned") = 0
  BY RangesAre
<1> QED
  BY <1>1, <1>2, <1>3

\* The two words of a number of twice as many bits
LEMMA WordsAre ==
    ASSUME NEW n \in 0..High("Bit")
    PROVE  /\ Words(n) \in Seq(Int) /\ Len(Words(n)) = 2
           /\ Words(n)[1] \in 0..2^IntBits - 1 /\ Words(n)[2] \in 0..2^IntBits - 1
           /\ Words(n)[1] + Words(n)[2] * 2^IntBits = n
           /\ n <= High("Unsigned") => Words(n)[1] = n /\ Words(n)[2] = 0
<1> DEFINE W == 2^IntBits
           q == n \div W
           r == n % W
<1>1. W \in Nat /\ W > 0
  <2>1. IntBits \in Nat
    BY ValuesAssumption
  <2> QED
    BY <2>1, PowerIs
<1>2. n \in Nat /\ n < W * W /\ High("Unsigned") = W - 1
  <2>1. High("Bit") = W * W - 1 /\ High("Unsigned") = W - 1
    BY RangesAre
  <2>2. W * W \in Nat
    BY <1>1
  <2> HIDE DEF W
  <2> QED
    BY <2>1, <2>2
<1>3. Words(n) = <<r, q>>
  BY DEF Words
<1> HIDE DEF W
<1>4. n = W * q + r /\ r \in 0..(W - 1) /\ q \in Int
  BY <1>1, <1>2
<1> HIDE DEF q, r
<1>5. q >= 0 /\ q < W
  <2>1. q >= 0
    <3> SUFFICES ASSUME q <= -1 PROVE FALSE
      BY <1>4
    <3>1. W * q <= -W
      BY <1>1, <1>4
    <3> QED
      BY <1>1, <1>2, <1>4, <3>1
  <2>2. q < W
    <3> SUFFICES ASSUME q >= W PROVE FALSE
      BY <1>1, <1>4
    <3>1. W * q >= W * W
      BY <1>1, <1>4
    <3> QED
      BY <1>1, <1>2, <1>4, <3>1
  <2> QED
    BY <2>1, <2>2
<1>6. n <= W - 1 => q = 0
  <2> SUFFICES ASSUME n <= W - 1, q >= 1 PROVE FALSE
    BY <1>4, <1>5
  <2>1. W * q >= W
    BY <1>1, <1>4
  <2> QED
    BY <1>1, <1>2, <1>4, <2>1
<1>7. Words(n) \in Seq(Int) /\ Len(Words(n)) = 2 /\ Words(n)[1] = r /\ Words(n)[2] = q
  BY <1>1, <1>3, <1>4
<1>8. r + q * W = n
  BY <1>1, <1>4
<1>9. q = 0 => r = n
  BY <1>1, <1>4
<1>10. r \in 0..W - 1 /\ q \in 0..W - 1
  BY <1>1, <1>4, <1>5
<1>11. n <= High("Unsigned") => r = n /\ q = 0
  BY <1>2, <1>6, <1>9
<1> QED
  BY <1>7, <1>8, <1>10, <1>11 DEF W

LEMMA OneIs ==
    ASSUME NEW S, NEW s \in Seq(S), Len(s) = 1
    PROVE  s = <<s[1]>>
  OBVIOUS

LEMMA TwoAre ==
    ASSUME NEW S, NEW s \in Seq(S), Len(s) = 2
    PROVE  s = <<s[1], s[2]>>
  OBVIOUS

\* What a row of the table has if it is not NULL: as many integers as its type
\* takes, each in the range of the type.
Stored(v) ==
    /\ v \in Seq(Int)
    /\ column.type \in Integral \union {"Year", "Date", "Time"} => Len(v) = 1
    /\ column.type = "Datetime" => Len(v) = 2
    /\ column.type = "Bit" => Len(v) = column.len
    /\ Holds(v)

LEMMA ColumnIs ==
    ASSUME column \in Columns
    PROVE  /\ column.type \in Types /\ column.len \in Nat
           /\ column.type = "Bit" => column.len \in {1, 2}
  BY ColumnsAssumption

LEMMA NumericIs ==
    ASSUME NEW type \in Numeric
    PROVE  \/ type = "Int" \/ type \in {"Unsigned", "Timestamp"} \/ type = "Bigint"
           \/ type = "Bigunsigned" \/ type = "Bit" \/ type = "Year" \/ type \in Narrow
  BY DEF Numeric, Integral

\* the value for a number, type by type
LEMMA NumberValueIs ==
    ASSUME NEW col, NEW text
    PROVE  LET aux_int == Wrap(strtol(text.any, long), "Int")
               big     == strtoul(text.any, "Bigunsigned")
               v       == number_value(col, text)
           IN /\ col.type = "Int" => v = <<Wrap(strtol(text.dec, long), "Int")>>
              /\ col.type \in {"Unsigned", "Timestamp"} =>
                    v = <<Wrap(strtoul(text.any, ulong), "Unsigned")>>
              /\ col.type = "Bigint" => v = <<strtol(text.any, "Bigint")>>
              /\ col.type = "Bigunsigned" => v = <<big>>
              /\ col.type = "Bit" => v = SubSeq(flip64(Words(big)), 1, col.len)
              /\ col.type = "Year" => v = <<Wrap(aux_int - YearBase, "Year")>>
              /\ col.type \in Narrow => v = <<NarrowValue(col.type, aux_int)>>
  BY DEF number_value, Narrow

\* what Holds() says, type by type
LEMMA HoldsIs ==
    ASSUME NEW v
    PROVE  /\ column.type \in Integral =>
                 (Holds(v) <=> v[1] \in Low(column.type)..High(column.type))
           /\ column.type = "Bit" => (Holds(v) <=> \A n \in DOMAIN v : v[n] \in 0..2^IntBits - 1)
           /\ column.type = "Year" => (Holds(v) <=> v[1] \in 0..2^CharBits - 1)
           /\ column.type = "Date" => (Holds(v) <=> v[1] \in 0..2^24 - 1)
           /\ column.type = "Time" => (Holds(v) <=> v[1] \in -(2^23)..2^23 - 1)
           /\ column.type \in {"Char", "Binary"} => (Holds(v) <=> Len(v) = column.len)
           /\ column.type \in (Chars \union Binaries) \ {"Char", "Binary"} =>
                 (Holds(v) <=> Len(v) <= column.len)
           /\ column.type \in Blobs \union {"Datetime"} => Holds(v)
<1>1. Integral = {"Tinyint", "Tinyunsigned", "Smallint", "Smallunsigned", "Mediumint",
                  "Mediumunsigned", "Int", "Unsigned", "Timestamp", "Bigint", "Bigunsigned"}
  BY DEF Integral, Narrow
<1>2. (Chars \union Binaries) \ {"Char", "Binary"}
         = {"Varchar", "Longvarchar", "Varbinary", "Longvarbinary"}
  BY DEF Chars, Binaries
<1>3. Blobs \union {"Datetime"} = {"Text", "Blob", "Datetime"}
  BY DEF Blobs
<1> HIDE DEF Blobs
<1>4. CASE column.type \in Integral
  BY <1>1, <1>2, <1>3, <1>4 DEF Holds
<1>5. CASE column.type \in {"Bit", "Year", "Date", "Time", "Char", "Binary"}
  BY <1>1, <1>2, <1>3, <1>5 DEF Holds
<1>6. CASE column.type \in (Chars \union Binaries) \ {"Char", "Binary"}
  BY <1>1, <1>2, <1>3, <1>6 DEF Holds
<1>7. CASE column.type \in Blobs \union {"Datetime"}
  BY <1>1, <1>2, <1>3, <1>7 DEF Holds
<1> QED
  BY <1>4, <1>5, <1>6, <1>7

LEMMA IntegerStored ==
    ASSUME column.type \in Integral \union {"Year"}, NEW n \in Int,
           n \in Low(column.type)..High(column.type)
    PROVE  Stored(<<n>>)
<1>1. <<n>> \in Seq(Int) /\ Len(<<n>>) = 1 /\ <<n>>[1] = n
  OBVIOUS
<1>2. column.type # "Datetime" /\ column.type # "Bit"
  BY DEF Integral, Narrow
<1>3. CASE column.type \in Integral
  <2>1. Holds(<<n>>)
    BY <1>1, <1>3, HoldsIs
  <2> QED
    BY <1>1, <1>2, <2>1 DEF Stored
<1>4. CASE column.type = "Year"
  <2>1. Low("Year") = 0 /\ High("Year") = 2^CharBits - 1
    BY RangesAre
  <2>2. Holds(<<n>>)
    BY <1>1, <1>4, <2>1, HoldsIs
  <2> QED
    BY <1>1, <1>2, <2>2 DEF Stored
<1> QED
  BY <1>3, <1>4

\* the words that a Bit keeps, in the order of the platform
LEMMA FlippedAre ==
    ASSUME NEW w \in Seq(Int), Len(w) = 2,
           w[1] \in 0..2^IntBits - 1, w[2] \in 0..2^IntBits - 1
    PROVE  /\ flip64(w) \in Seq(Int) /\ Len(flip64(w)) = 2
           /\ flip64(w)[1] \in 0..2^IntBits - 1 /\ flip64(w)[2] \in 0..2^IntBits - 1
           /\ flip64(w) = IF arch = "i386" THEN w ELSE <<w[2], w[1]>>
           /\ flip64(flip64(w)) = w
<1>1. flip64(w) = IF arch = "i386" THEN w ELSE <<w[2], w[1]>>
  BY DEF flip64
<1>2. w = <<w[1], w[2]>>
  OBVIOUS
<1>3. CASE arch = "i386"
  BY <1>1, <1>3 DEF flip64
<1>4. CASE arch # "i386"
  <2>1. flip64(w) = <<w[2], w[1]>>
    BY <1>1, <1>4
  <2>2. flip64(flip64(w)) = <<flip64(w)[2], flip64(w)[1]>>
    BY <1>4 DEF flip64
  <2>3. flip64(w)[1] = w[2] /\ flip64(w)[2] = w[1] /\ Len(flip64(w)) = 2
    BY <2>1
  <2>4. flip64(w) \in Seq(Int)
    BY <2>1
  <2>5. flip64(flip64(w)) = w
    BY <1>2, <2>2, <2>3
  <2> QED
    BY <1>1, <2>3, <2>4, <2>5
<1> QED
  BY <1>3, <1>4

LEMMA WordsStored ==
    ASSUME column \in Columns, column.type = "Bit",
           NEW w \in Seq(Int), Len(w) = 2,
           w[1] \in 0..2^IntBits - 1, w[2] \in 0..2^IntBits - 1
    PROVE  Stored(SubSeq(w, 1, column.len))
<1> DEFINE v == SubSeq(w, 1, column.len)
<1>1. column.len \in {1, 2}
  BY ColumnIs
<1>2. v \in Seq(Int) /\ Len(v) = column.len /\ \A n \in 1..column.len : v[n] = w[n]
  BY <1>1, SubSeqProperties
<1>3. \A n \in DOMAIN v : v[n] \in 0..2^IntBits - 1
  BY <1>1, <1>2
<1> HIDE DEF v
<1>4. Holds(v)
  BY <1>3, HoldsIs
<1> QED
  BY <1>2, <1>4 DEF Stored, Integral, Narrow, v

\* MySQL::value() gives a column of numbers what it can hold.
LEMMA NumberStored ==
    ASSUME column \in Columns, column.type \in Numeric, arch \in Archs,
           NEW text, text.any \in Int, text.dec \in Int
    PROVE  Stored(number_value(column, text))
<1> DEFINE T == column.type
           v == number_value(column, text)
           aux_int == Wrap(strtol(text.any, long), "Int")
           big == strtoul(text.any, "Bigunsigned")
<1>1. /\ long \in Numeric /\ ulong \in Numeric /\ Low(ulong) = 0
      /\ {"Int", "Unsigned", "Timestamp", "Bigint", "Bigunsigned", "Year", "Bit"} \subseteq Numeric
      /\ {"Int", "Unsigned", "Timestamp", "Bigint", "Bigunsigned"} \subseteq Integral
      /\ Narrow \subseteq Integral
  BY LongIs DEF Numeric, Integral
<1>2. /\ T = "Int" => v = <<Wrap(strtol(text.dec, long), "Int")>>
      /\ T \in {"Unsigned", "Timestamp"} => v = <<Wrap(strtoul(text.any, ulong), "Unsigned")>>
      /\ T = "Bigint" => v = <<strtol(text.any, "Bigint")>>
      /\ T = "Bigunsigned" => v = <<big>>
      /\ T = "Bit" => v = SubSeq(flip64(Words(big)), 1, column.len)
      /\ T = "Year" => v = <<Wrap(aux_int - YearBase, "Year")>>
      /\ T \in Narrow => v = <<NarrowValue(T, aux_int)>>
  BY NumberValueIs, Zenon
<1>3. aux_int \in Int
  BY <1>1, strtolIs, WrapIs
<1>4. Low("Bigunsigned") = 0 /\ Low("Unsigned") = 0 /\ Low("Timestamp") = 0
      /\ High("Timestamp") = High("Unsigned") /\ High("Bit") = High("Bigunsigned")
  BY RangesAre
<1>5. big \in Int /\ big \in 0..High("Bigunsigned")
  BY <1>1, <1>4, strtoulIs
<1> HIDE DEF v, aux_int, big
<1>6. CASE T = "Int"
  <2>1. strtol(text.dec, long) \in Int
    BY <1>1, strtolIs
  <2>2. /\ Wrap(strtol(text.dec, long), "Int") \in Int
        /\ Wrap(strtol(text.dec, long), "Int") \in Low("Int")..High("Int")
    BY <1>1, <2>1, WrapIs
  <2> QED
    BY <1>1, <1>2, <1>6, <2>2, IntegerStored DEF v
<1>7. CASE T \in {"Unsigned", "Timestamp"}
  <2>1. strtoul(text.any, ulong) \in Int
    BY <1>1, strtoulIs
  <2> DEFINE n == Wrap(strtoul(text.any, ulong), "Unsigned")
  <2>2. n \in Int /\ n \in Low("Unsigned")..High("Unsigned")
    BY <1>1, <2>1, WrapIs
  <2> HIDE DEF n
  <2>3. n \in Low(T)..High(T) /\ T \in Integral
    BY <1>1, <1>4, <1>7, <2>2
  <2>4. Stored(<<n>>)
    BY <2>2, <2>3, IntegerStored
  <2> QED
    BY <1>2, <1>7, <2>4 DEF v, n
<1>8. CASE T = "Bigint"
  <2> DEFINE n == strtol(text.any, "Bigint")
  <2>1. n \in Int /\ n \in Low("Bigint")..High("Bigint")
    BY <1>1, strtolIs
  <2> HIDE DEF n
  <2>2. Stored(<<n>>)
    BY <1>1, <1>8, <2>1, IntegerStored
  <2> QED
    BY <1>2, <1>8, <2>2 DEF v, n
<1>9. CASE T = "Bigunsigned"
  BY <1>1, <1>2, <1>4, <1>5, <1>9, IntegerStored DEF v
<1>10. CASE T = "Bit"
  <2>1. /\ Words(big) \in Seq(Int) /\ Len(Words(big)) = 2
        /\ Words(big)[1] \in 0..2^IntBits - 1 /\ Words(big)[2] \in 0..2^IntBits - 1
    BY <1>4, <1>5, WordsAre
  <2> DEFINE w == flip64(Words(big))
  <2>2. /\ w \in Seq(Int) /\ Len(w) = 2
        /\ w[1] \in 0..2^IntBits - 1 /\ w[2] \in 0..2^IntBits - 1
    BY <2>1, FlippedAre
  <2> HIDE DEF w
  <2>3. Stored(SubSeq(w, 1, column.len))
    BY <1>10, <2>2, WordsStored
  <2> QED
    BY <1>2, <1>10, <2>3 DEF v, w
<1>11. CASE T = "Year"
  <2>1. aux_int - YearBase \in Int
    BY <1>3, ValuesAssumption
  <2>2. Wrap(aux_int - YearBase, "Year") \in Int
        /\ Wrap(aux_int - YearBase, "Year") \in Low("Year")..High("Year")
    BY <1>1, <2>1, WrapIs
  <2> QED
    BY <1>2, <1>11, <2>2, IntegerStored DEF v
<1>12. CASE T \in Narrow
  <2>1. Low(T) \in Int /\ High(T) \in Int /\ Low(T) <= High(T)
    BY BoundsAre
  <2>2. NarrowValue(T, aux_int) \in Int /\ NarrowValue(T, aux_int) \in Low(T)..High(T)
    BY <1>3, <2>1, ClampIs DEF NarrowValue
  <2> QED
    BY <1>1, <1>2, <1>12, <2>2, IntegerStored DEF v
<1> QED
  BY <1>6, <1>7, <1>8, <1>9, <1>10, <1>11, <1>12, NumericIs

\* What the database makes of a number that is set as it is
LEMMA DirectStored ==
    ASSUME column \in Columns, column.type \in Numeric, NEW n \in 0..High("Bit")
    PROVE  Stored(Direct(column, n))
<1>1. CASE column.type = "Bit"
  <2>1. /\ Words(n) \in Seq(Int) /\ Len(Words(n)) = 2
        /\ Words(n)[1] \in 0..2^IntBits - 1 /\ Words(n)[2] \in 0..2^IntBits - 1
    BY WordsAre
  <2>2. Stored(SubSeq(Words(n), 1, column.len))
    BY <1>1, <2>1, WordsStored
  <2> QED
    BY <1>1, <2>2 DEF Direct
<1>2. CASE column.type # "Bit"
  <2>1. n \in Int
    BY BoundsAre DEF Numeric
  <2>2. /\ Wrap(n, column.type) \in Int
        /\ Wrap(n, column.type) \in Low(column.type)..High(column.type)
    BY <2>1, WrapIs
  <2>3. column.type \in Integral \union {"Year"}
    BY <1>2 DEF Numeric
  <2>4. Stored(<<Wrap(n, column.type)>>)
    BY <2>2, <2>3, IntegerStored
  <2> QED
    BY <1>2, <2>4 DEF Direct
<1> QED
  BY <1>1, <1>2

LEMMA InterpretedStored ==
    ASSUME column \in Columns, NEW row \in [null : BOOLEAN, v : Seq(Int)],
           ~row.null => Stored(row.v), NEW by \in {1, -1}, NEW w \in Interpreted(row, by)
    PROVE  \E v : Stored(v) /\ w = [row |-> Row(v), said |-> Operand]
<1>1. column.type \in {"Unsigned", "Bigunsigned"} /\ ~row.null
      /\ w = [row |-> Row(<<Wrap(row.v[1] + by, column.type)>>), said |-> Operand]
  BY DEF Interpreted
<1>2. column.type \in Integral /\ column.type \in Numeric
  BY <1>1 DEF Integral, Numeric
<1>3. row.v \in Seq(Int) /\ Len(row.v) = 1
  BY <1>1, <1>2 DEF Stored
<1>4. row.v[1] + by \in Int
  BY <1>3
<1>5. Stored(<<Wrap(row.v[1] + by, column.type)>>)
  BY <1>2, <1>4, WrapIs, IntegerStored
<1> QED
  BY <1>1, <1>5

\* what is printed, type by type
LEMMA PrintedIs ==
    ASSUME NEW v
    PROVE  /\ column.type \in Integral => Printed(v) = v
           /\ column.type = "Year" => Printed(v) = <<YearBase + v[1]>>
           /\ column.type = "Bit" =>
                 LET w == flip64(Pad(v, 2, 0)) IN Printed(v) = <<w[1] + w[2] * 2^IntBits>>
           /\ column.type \in Dates => Printed(v) = field_to_tm(column.type, v)
<1>1. Integral = {"Tinyint", "Tinyunsigned", "Smallint", "Smallunsigned", "Mediumint",
                  "Mediumunsigned", "Int", "Unsigned", "Timestamp", "Bigint", "Bigunsigned"}
  BY DEF Integral, Narrow
<1>2. Dates = {"Date", "Time", "Datetime"}
  BY DEF Dates
<1> QED
  BY <1>1, <1>2 DEF Printed

LEMMA ClampTwice ==
    ASSUME NEW n \in Int, NEW lo \in Int, NEW hi \in Int, NEW a \in Int, NEW b \in Int,
           lo <= hi, a <= b, a <= lo, hi <= b
    PROVE  Clamp(Clamp(n, a, b), lo, hi) = Clamp(n, lo, hi)
  BY DEF Clamp

LEMMA FitsIs ==
    ASSUME NEW n, column.type \in Numeric
    PROVE  /\ column.type \in Narrow \union {"Int"} =>
                 (Fits(n) <=> arch = "i386" \/ n \in Low("Int")..High("Int"))
           /\ column.type \in {"Unsigned", "Timestamp"} =>
                 (Fits(n) <=> n >= 0 /\ (arch = "i386" \/ n <= High("Unsigned")))
           /\ column.type = "Bigunsigned" => (Fits(n) <=> n >= 0)
           /\ column.type = "Bit" =>
                 (Fits(n) <=> n >= 0 /\ (column.len = 2 \/ (arch = "i386" /\ n <= High("Unsigned"))))
           /\ column.type = "Year" => (Fits(n) <=> n \in YearBase..YearBase + 2^CharBits - 1)
  BY DEF Fits, Narrow

\* the int that strtol() was assigned to
LEMMA AssignedInt ==
    ASSUME arch \in Archs, NEW n \in Int, arch = "i386" \/ n \in Low("Int")..High("Int")
    PROVE  Wrap(strtol(n, long), "Int") = Clamp(n, Low("Int"), High("Int"))
<1> DEFINE lo == Low("Int")
           hi == High("Int")
<1>1. "Int" \in Numeric /\ "Bigint" \in Numeric
  BY DEF Numeric, Integral
<1>2. /\ lo \in Int /\ hi \in Int /\ lo <= hi
      /\ Low("Bigint") \in Int /\ High("Bigint") \in Int
  BY <1>1, BoundsAre
<1>3. Low("Bigint") <= lo /\ hi <= High("Bigint")
  BY RangesAre
<1>4. Clamp(n, lo, hi) \in Int /\ Clamp(n, lo, hi) \in lo..hi
      /\ (n \in lo..hi => Clamp(n, lo, hi) = n)
  BY <1>2, ClampIs
<1>5. strtol(n, long) = Clamp(n, lo, hi)
  <2>1. CASE arch = "i386"
    BY <2>1 DEF strtol, long
  <2>2. CASE arch # "i386"
    <3>1. long = "Bigint" /\ n \in lo..hi
      BY <2>2 DEF long
    <3>2. n \in Low("Bigint")..High("Bigint")
      BY <1>2, <1>3, <3>1
    <3>3. strtol(n, "Bigint") = n
      BY <1>1, <3>2, strtolIs
    <3> QED
      BY <1>4, <3>1, <3>3
  <2> QED
    BY <2>1, <2>2
<1> HIDE DEF lo, hi
<1>6. Wrap(Clamp(n, lo, hi), "Int") = Clamp(n, lo, hi)
  BY <1>1, <1>4, WrapIs DEF lo, hi
<1> QED
  BY <1>5, <1>6 DEF lo, hi

\* A number that fits is shown as it was, or as the nearest one its column can hold.
LEMMA NumberShown ==
    ASSUME column \in Columns, column.type \in Numeric, arch \in Archs,
           NEW text, text.any \in Int, text.dec \in Int,
           NEW n, n = IF column.type = "Int" THEN text.dec ELSE text.any, Fits(n)
    PROVE  Printed(number_value(column, text))
              = <<IF column.type = "Year" THEN n
                  ELSE Clamp(n, Low(column.type), High(column.type))>>
<1> DEFINE T == column.type
           v == number_value(column, text)
           aux_int == Wrap(strtol(text.any, long), "Int")
           big == strtoul(text.any, "Bigunsigned")
           lo == Low(T)
           hi == High(T)
<1>1. /\ n \in Int
      /\ T # "Int" => n = text.any
      /\ {"Int", "Unsigned", "Timestamp", "Bigint", "Bigunsigned", "Year", "Bit"} \subseteq Numeric
      /\ {"Int", "Unsigned", "Timestamp", "Bigint", "Bigunsigned"} \subseteq Integral
      /\ Narrow \subseteq Integral
      /\ "Int" \notin Narrow /\ "Year" \notin Integral
  BY DEF Numeric, Integral, Narrow
<1>2. /\ T = "Int" => v = <<Wrap(strtol(text.dec, long), "Int")>>
      /\ T \in {"Unsigned", "Timestamp"} => v = <<Wrap(strtoul(text.any, ulong), "Unsigned")>>
      /\ T = "Bigint" => v = <<strtol(text.any, "Bigint")>>
      /\ T = "Bigunsigned" => v = <<big>>
      /\ T = "Bit" => v = SubSeq(flip64(Words(big)), 1, column.len)
      /\ T = "Year" => v = <<Wrap(aux_int - YearBase, "Year")>>
      /\ T \in Narrow => v = <<NarrowValue(T, aux_int)>>
  BY NumberValueIs, Zenon
<1>3. lo \in Int /\ hi \in Int /\ lo <= hi
  BY BoundsAre
<1>4. T \in Integral => Printed(v) = v
  BY PrintedIs
<1> HIDE DEF v
<1>6. CASE T = "Int"
  <2>1. arch = "i386" \/ n \in Low("Int")..High("Int")
    BY <1>6, FitsIs
  <2>2. Wrap(strtol(n, long), "Int") = Clamp(n, Low("Int"), High("Int"))
    BY <1>1, <2>1, AssignedInt
  <2> QED
    BY <1>1, <1>2, <1>4, <1>6, <2>2 DEF v
<1>7. CASE T \in {"Unsigned", "Timestamp"}
  <2>1. n >= 0 /\ (arch = "i386" \/ n <= High("Unsigned"))
    BY <1>7, FitsIs
  <2>2. /\ Low("Unsigned") = 0 /\ Low("Timestamp") = 0 /\ High("Timestamp") = High("Unsigned")
        /\ High("Unsigned") <= High("Bigunsigned") /\ Low("Bigunsigned") = 0
    BY RangesAre
  <2>3. High("Unsigned") \in Int /\ 0 < High("Unsigned") /\ High("Bigunsigned") \in Int
    BY <1>1, BoundsAre
  <2> DEFINE c == Clamp(n, 0, High("Unsigned"))
  <2>4. c \in Int /\ c \in 0..High("Unsigned") /\ (n \in 0..High("Unsigned") => c = n)
    BY <1>1, <2>3 DEF Clamp
  <2>5. strtoul(n, ulong) = c
    <3>1. CASE arch = "i386"
      <4>1. ulong = "Unsigned"
        BY <3>1 DEF ulong
      <4> QED
        BY <1>1, <2>1, <2>2, <4>1, strtoulIs
    <3>2. CASE arch # "i386"
      <4>1. ulong = "Bigunsigned" /\ n <= High("Unsigned")
        BY <2>1, <3>2 DEF ulong
      <4>2. strtoul(n, "Bigunsigned") = Clamp(n, 0, High("Bigunsigned"))
        BY <1>1, <2>1, <2>2, strtoulIs
      <4>3. n \in 0..High("Bigunsigned") /\ n \in 0..High("Unsigned") /\ 0 <= High("Bigunsigned")
        BY <1>1, <2>1, <2>2, <2>3, <4>1
      <4>4. Clamp(n, 0, High("Bigunsigned")) = n
        BY <1>1, <2>3, <4>3 DEF Clamp
      <4> QED
        BY <2>4, <4>1, <4>2, <4>3, <4>4
    <3> QED
      BY <3>1, <3>2
  <2> HIDE DEF c
  <2>6. Wrap(c, "Unsigned") = c
    BY <1>1, <2>2, <2>4, WrapIs
  <2>7. text.any = n /\ T \in Integral /\ lo = 0 /\ hi = High("Unsigned") /\ T # "Year"
    BY <1>1, <1>7, <2>2
  <2>8. v = <<c>> /\ Printed(v) = <<c>>
    BY <1>2, <1>4, <1>7, <2>5, <2>6, <2>7
  <2> QED
    BY <2>7, <2>8 DEF c, v
<1>8. CASE T = "Bigint"
  <2>1. v = <<Clamp(n, lo, hi)>> /\ T \in Integral
    BY <1>1, <1>2, <1>8 DEF strtol
  <2> QED
    BY <1>4, <1>8, <2>1 DEF v
<1>9. CASE T = "Bigunsigned"
  <2>1. n >= 0 /\ Low("Bigunsigned") = 0
    BY <1>9, FitsIs, RangesAre
  <2>2. big = Clamp(n, 0, High("Bigunsigned"))
    BY <1>1, <1>9, <2>1, strtoulIs
  <2>3. T \in Integral
    BY <1>1, <1>9
  <2> QED
    BY <1>2, <1>4, <1>9, <2>1, <2>2, <2>3 DEF v
<1>10. CASE T = "Bit"
  <2>1. n >= 0 /\ (column.len = 2 \/ (arch = "i386" /\ n <= High("Unsigned")))
    BY <1>10, FitsIs
  <2>2. /\ Low("Bit") = 0 /\ High("Bit") = High("Bigunsigned") /\ Low("Bigunsigned") = 0
        /\ High("Unsigned") <= High("Bigunsigned") /\ High("Unsigned") = 2^IntBits - 1
    BY RangesAre
  <2>3. /\ big \in Int /\ big \in 0..High("Bigunsigned") /\ big = Clamp(n, 0, High("Bigunsigned"))
    BY <1>1, <1>10, <2>1, <2>2, strtoulIs
  <2> HIDE DEF big
  <2> DEFINE W == Words(big)
             w == flip64(W)
  <2>4. /\ W \in Seq(Int) /\ Len(W) = 2
        /\ W[1] \in 0..2^IntBits - 1 /\ W[2] \in 0..2^IntBits - 1
        /\ W[1] + W[2] * 2^IntBits = big
        /\ big <= High("Unsigned") => W[1] = big /\ W[2] = 0
    BY <2>2, <2>3, WordsAre
  <2>5. /\ w \in Seq(Int) /\ Len(w) = 2 /\ flip64(w) = W
        /\ w = IF arch = "i386" THEN W ELSE <<W[2], W[1]>>
    <3> HIDE DEF W
    <3> QED
      BY <2>4, FlippedAre
  <2> HIDE DEF W, w
  <2>6. v = SubSeq(w, 1, column.len)
    BY <1>2, <1>10 DEF w, W
  <2>7. flip64(Pad(v, 2, 0)) = W
    <3>1. CASE column.len = 2
      <4>1. v = w
        BY <2>5, <2>6, <3>1
      <4>2. Pad(w, 2, 0) = w
        <5>1. [k \in 1..(2 - Len(w)) |-> 0] = << >>
          BY <2>5
        <5> QED
          BY <2>5, <5>1, ConcatEmptySeq DEF Pad
      <4> QED
        BY <2>5, <4>1, <4>2
    <3>2. CASE column.len # 2
      <4>1. arch = "i386" /\ n <= High("Unsigned") /\ column.len = 1
        BY <1>10, <2>1, <3>2, ColumnIs
      <4>2. n \in 0..High("Bigunsigned") /\ High("Bigunsigned") \in Int /\ 0 <= High("Bigunsigned")
        <5>1. High("Bigunsigned") \in Int /\ High("Unsigned") \in Int
          BY <1>1, BoundsAre
        <5> QED
          BY <1>1, <2>1, <2>2, <4>1, <5>1
      <4>3. big = n
        BY <1>1, <2>3, <4>2 DEF Clamp
      <4>4. w = W /\ W[1] = n /\ W[2] = 0
        BY <2>4, <2>5, <4>1, <4>3
      <4>5. v = <<n>>
        <5>1. v = SubSeq(w, 1, 1)
          BY <2>6, <4>1
        <5>2. SubSeq(w, 1, 1) = <<w[1]>>
          <6>1. SubSeq(w, 1, 1) \in Seq(Int) /\ Len(SubSeq(w, 1, 1)) = 1 /\ SubSeq(w, 1, 1)[1] = w[1]
            BY <2>5, SubSeqProperties
          <6> QED
            BY <6>1, OneIs
        <5> QED
          BY <4>4, <5>1, <5>2
      <4>6. Pad(v, 2, 0) = <<n, 0>>
        <5>1. Len(v) = 1 /\ [k \in 1..(2 - Len(v)) |-> 0] = <<0>>
          BY <4>5
        <5> QED
          <6>1. Pad(v, 2, 0) = <<n>> \o <<0>>
            BY <4>5, <5>1 DEF Pad
          <6>2. <<n>> \o <<0>> = <<n, 0>>
            <7>1. <<n>> \in Seq(Int) /\ <<0>> \in Seq(Int) /\ Len(<<n>>) = 1 /\ Len(<<0>>) = 1
              BY <1>1
            <7>2. /\ <<n>> \o <<0>> \in Seq(Int) /\ Len(<<n>> \o <<0>>) = 2
                  /\ (<<n>> \o <<0>>)[1] = n /\ (<<n>> \o <<0>>)[2] = 0
              BY <7>1, ConcatProperties
            <7>3. <<n>> \o <<0>> = <<(<<n>> \o <<0>>)[1], (<<n>> \o <<0>>)[2]>>
              BY <7>2, TwoAre
            <7> QED
              BY <7>2, <7>3
          <6> QED
            BY <6>1, <6>2
      <4>7. W = <<n, 0>>
        BY <2>4, <4>4
      <4> QED
        BY <4>1, <4>6, <4>7 DEF flip64
    <3> QED
      BY <3>1, <3>2
  <2>8. Printed(v) = <<W[1] + W[2] * 2^IntBits>>
    BY <1>10, <2>7, PrintedIs
  <2> QED
    BY <1>10, <2>2, <2>3, <2>4, <2>8 DEF v
<1>11. CASE T = "Year"
  <2>1. n \in YearBase..YearBase + 2^CharBits - 1
    BY <1>11, FitsIs
  <2>2. /\ YearBase \in Nat /\ CharBits \in Nat /\ IntBits - 1 \in Nat
        /\ YearBase + 2^CharBits <= 2^(IntBits - 1)
    BY ValuesAssumption
  <2>3. 2^CharBits \in Nat /\ 2^(IntBits - 1) \in Nat
    BY <2>2, PowerIs
  <2>4. /\ High("Int") = 2^(IntBits - 1) - 1 /\ Low("Year") = 0 /\ High("Year") = 2^CharBits - 1
    BY RangesAre
  <2>5. Low("Int") \in Int /\ Low("Int") <= 0 /\ High("Int") \in Int
    BY <1>1, BoundsAre
  <2>6. n \in Low("Int")..High("Int") /\ n - YearBase \in 0..2^CharBits - 1 /\ n - YearBase \in Int
    BY <1>1, <2>1, <2>2, <2>3, <2>4, <2>5
  <2>7. aux_int = n
    <3>1. Low("Int") <= High("Int")
      BY <1>1, BoundsAre
    <3>2. Clamp(n, Low("Int"), High("Int")) = n
      BY <1>1, <2>5, <2>6, <3>1, ClampIs
    <3>3. Wrap(strtol(n, long), "Int") = Clamp(n, Low("Int"), High("Int"))
      BY <1>1, <2>6, AssignedInt
    <3> QED
      BY <1>1, <1>11, <3>2, <3>3
  <2>8. Wrap(n - YearBase, "Year") = n - YearBase
    BY <1>1, <2>4, <2>6, WrapIs
  <2>9. v = <<n - YearBase>> /\ Printed(v) = <<YearBase + v[1]>>
    BY <1>2, <1>11, <2>7, <2>8, PrintedIs
  <2>10. Printed(v) = <<n>>
    BY <1>1, <2>2, <2>9
  <2> QED
    BY <1>11, <2>10 DEF v
<1>12. CASE T \in Narrow
  <2>1. arch = "i386" \/ n \in Low("Int")..High("Int")
    BY <1>12, FitsIs
  <2>2. aux_int = Clamp(n, Low("Int"), High("Int"))
    BY <1>1, <1>12, <2>1, AssignedInt
  <2>3. Low("Int") <= lo /\ hi <= High("Int")
    BY <1>12, RangesAre
  <2>4. Low("Int") \in Int /\ High("Int") \in Int /\ Low("Int") <= High("Int")
    BY <1>1, BoundsAre
  <2>5. NarrowValue(T, aux_int) = Clamp(Clamp(n, Low("Int"), High("Int")), lo, hi)
    BY <2>2 DEF NarrowValue
  <2> HIDE DEF lo, hi, aux_int
  <2>6. NarrowValue(T, aux_int) = Clamp(n, lo, hi)
    BY <1>1, <1>3, <2>3, <2>4, <2>5, ClampTwice
  <2>7. v = <<Clamp(n, lo, hi)>> /\ T \in Integral /\ T # "Year"
    BY <1>1, <1>2, <1>12, <2>6
  <2> QED
    BY <1>4, <2>7 DEF v, lo, hi
<1> QED
  BY <1>6, <1>7, <1>8, <1>9, <1>10, <1>11, <1>12, NumericIs

-----------------------------------------------------------------------------
(* The inductive invariant.                                                 *)

\* A row of the table: NULL, or a value of its type, of which the text it was
\* made from is known unless the database computed it.
RowOK(row, text) ==
    /\ row.null => row.v = << >> /\ text = Operand
    /\ ~row.null => Stored(row.v)
    /\ text # Operand => text \in Texts[column.type] /\ row.v = value(column, text)

TableInv ==
    /\ arch \in Archs /\ column \in Columns
    /\ table \in Seq([null : BOOLEAN, v : Seq(Int)])
    /\ DOMAIN said = 1..Len(table) /\ Len(said) = Len(table) /\ Len(table) <= Rows
    /\ \A k \in 1..Len(table) : RowOK(table[k], said[k])

Escapes == {"none", "json", "xml", "xmljson"}

PCs == {"result", "init", "construct", "hook", "build", "row", "out", "send",
        "delete", "return"}

Requests == [pc : PCs, rows : Seq(Nat), at : Nat,
             scan : BOOLEAN, raw : BOOLEAN, esc : Escapes]

\* A request and how far its rows have been read.
RequestInv ==
    \/ req = NoRequest
    \/ /\ req \in Requests
       /\ Len(req.rows) > 0 /\ \A n \in 1..Len(req.rows) : req.rows[n] \in 1..Len(table)
       /\ req.at \in 1..Len(req.rows) + 1
       /\ ~req.scan => Len(req.rows) = 1
       /\ req.esc # "none" => column.type \notin Numeric \union Dates
       /\ req.pc = "out" => req.at <= Len(req.rows)
       /\ req.pc \in {"result", "init", "construct", "hook", "build"} => req.at = 1
       /\ req.pc \in {"result", "init", "hook"} => IsBlob
       /\ req.pc = "hook" => ~req.scan

\* The states of the page at each step of a request, and of the contents of a
\* Text or Blob.
PageStates(pc) ==
    CASE pc \in {"idle", "result", "init", "construct"} -> {"none"}
      [] pc \in {"hook", "build"}    -> {"constructed"}
      [] pc \in {"row", "out"}       -> {"ready"}
      [] pc = "send"                 -> {"ready", "overlaid"}
      [] pc \in {"delete", "return"} -> {"constructed", "ready", "overlaid"}

ContentsStates(pc) ==
    CASE pc \in {"idle", "result", "return"} -> {"none"}
      [] pc = "init"                         -> {"constructed"}
      [] pc \in {"construct", "hook", "build", "row", "out"} -> {"ready"}
      [] pc \in {"send", "delete"}           -> {"ready", "taken"}

StatesAt(b, pc) == IF b = "page" THEN PageStates(pc)
                   ELSE IF b = "contents" /\ IsBlob THEN ContentsStates(pc)
                   ELSE {"none"}

\* What has become of a buffer: only the page may have to be written again.
BufferAt(b) == /\ buf[b].state \in StatesAt(b, req.pc)
               /\ buf[b].state = "none" => buf[b] = NoBuffer
               /\ b # "page" \/ req.pc # "row" => buf[b].todo = 0

StateInv == /\ req.pc = "idle" => ~fault
            /\ ~fault => \A b \in Buffers : BufferAt(b)

\* What the page shows of a row: the number of the row, the value and its length.
Entries == [k : Nat, v : Seq(Int), len : Nat]

Lengths(s) == FoldLeft(LAMBDA n, e : n + e.len, 0, s)

\* The lengths of the buffers.
SizeInv ==
    ~oom =>
        /\ buf["contents"].state = "ready" => buf["contents"].sz = Len(blob)
        /\ req.pc \in {"row", "out", "send"} =>
               buf["page"].sz + buf["page"].todo = Lengths(shown)

\* What the page shows of a value.
ShownOf(v) ==
    CASE column.type \in Numeric \union Dates    -> Printed(v)
      [] column.type \in Chars \union Binaries   -> Stripped(v)
      [] OTHER                                   -> v

\* The entries of which the value is not known: of a scan, those after the
\* first, a page that is raw, and a Blob that is to be escaped.
Unknown(i) == IsBlob /\ \/ i > 1
                        \/ req.raw /\ req.scan
                        \/ column.type = "Blob" /\ req.esc # "none"

EntryOK(e, i) == /\ e.k \in 1..Len(table)
                 /\ Unknown(i) \/ e.v = ShownOf(table[e.k].v)

\* The text of the first row that is shown is that of the row alone.
BlobInv ==
    /\ req.pc = "build" => blob = IF req.scan THEN << >> ELSE table[req.rows[1]].v
    /\ req.pc = "row" /\ shown = << >> =>
          /\ req.scan => blob = << >>
          /\ ~req.scan /\ req.at = 1 => blob = table[req.rows[1]].v
    /\ req.pc = "out" /\ shown = << >> => blob = table[req.rows[req.at]].v

ShownInv ==
    /\ blob \in Seq(Int) /\ shown \in Seq(Entries)
    /\ req.pc \in {"idle", "result", "init", "construct", "hook", "build"} => shown = << >>
    /\ req.pc \in {"idle", "result", "init", "construct", "hook"} => blob = << >>
    /\ IsBlob => BlobInv
    /\ \A i \in 1..Len(shown) : EntryOK(shown[i], i)
ValuesInv == /\ BufferInv /\ TableInv /\ RequestInv
             /\ StateInv /\ SizeInv /\ ShownInv

-----------------------------------------------------------------------------
(* What is printed: figures, padding, the text of a number or of a date.    *)

\* How many figures a number has.
LEMMA FiguresIs ==
    /\ Figures \in [Nat -> Nat]
    /\ \A n \in Nat : Figures[n] = IF n < 10 THEN 1 ELSE Figures[n \div 10] + 1
<1> DEFINE F == [Nat -> Nat]
           one == [n \in Nat |-> 1]
           more == [k \in Nat |-> [h \in F |->
                      [n \in Nat |-> IF n < 10 THEN 1 ELSE h[n \div 10] + 1]]]
<1>1. \A n \in Nat : n \div 10 \in Nat /\ (n >= 10 => n \div 10 <= n - 1)
  OBVIOUS
<1>2. one \in F /\ more \in [Nat -> [F -> F]]
  <2>1. ASSUME NEW h \in F, NEW n \in Nat
        PROVE  (IF n < 10 THEN 1 ELSE h[n \div 10] + 1) \in Nat
    BY <1>1
  <2> QED
    BY <2>1
<1>3. PICK g \in [Nat -> F] : IsRecurrence(g, one, more)
  <2> HIDE DEF F, one, more
  <2> QED
    BY <1>2, RecurrenceExists
<1>4. \A n \in Nat : g[0][n] = 1
  BY <1>3 DEF IsRecurrence
<1>5. ASSUME NEW j \in Nat, NEW n \in Nat
      PROVE  g[j + 1][n] = IF n < 10 THEN 1 ELSE g[j][n \div 10] + 1
  <2>1. j + 1 \in Nat /\ j + 1 # 0 /\ (j + 1) - 1 = j /\ g[j] \in F
    OBVIOUS
  <2>2. g[j + 1] = more[j + 1][g[j]]
    BY <1>3, <2>1 DEF IsRecurrence
  <2>3. more[j + 1][g[j]] = [k \in Nat |-> IF k < 10 THEN 1 ELSE g[j][k \div 10] + 1]
    BY <2>1
  <2> QED
    BY <2>2, <2>3
<1>6. \A j \in Nat : \A n \in Nat : g[j][n] \in Nat
  BY DEF F
<1> HIDE DEF F, one, more
<1> DEFINE Good == {j \in Nat : \A n \in Nat : n <= j => g[j + 1][n] = g[j][n]}
<1>7. 0 \in Good
  BY <1>4, <1>5
<1>8. ASSUME NEW j \in Nat, j \in Good PROVE j + 1 \in Good
  <2>1. ASSUME NEW n \in Nat, n <= j + 1 PROVE g[(j + 1) + 1][n] = g[j + 1][n]
    <3>3. j + 1 \in Nat
      OBVIOUS
    <3>1. /\ g[(j + 1) + 1][n] = IF n < 10 THEN 1 ELSE g[j + 1][n \div 10] + 1
          /\ g[j + 1][n] = IF n < 10 THEN 1 ELSE g[j][n \div 10] + 1
      BY <1>5, <3>3, Zenon
    <3>2. n >= 10 => g[j + 1][n \div 10] = g[j][n \div 10]
      BY <1>1, <1>8, <2>1
    <3> QED
      BY <3>1, <3>2
  <2> QED
    BY <2>1
<1> HIDE DEF Good
<1>9. Nat \subseteq Good
  BY <1>7, <1>8, Induction
<1>10. ASSUME NEW j \in Nat, NEW n \in Nat, n <= j PROVE g[j + 1][n] = g[j][n]
  <2>1. j \in Good
    BY <1>9
  <2> QED
    BY <1>10, <2>1 DEF Good
<1>11. ASSUME NEW m \in Nat, NEW i \in Nat, m <= i PROVE g[i][m] = g[m][m]
  <2> DEFINE Same1 == {k \in Nat : g[m + k][m] = g[m][m]}
  <2>1. 0 \in Same1
    OBVIOUS
  <2>2. ASSUME NEW k \in Nat, k \in Same1 PROVE k + 1 \in Same1
    <3>1. m + (k + 1) = (m + k) + 1 /\ m + k \in Nat /\ m <= m + k
      OBVIOUS
    <3>2. g[(m + k) + 1][m] = g[m + k][m]
      BY <1>10, <3>1
    <3> QED
      BY <2>2, <3>1, <3>2
  <2> HIDE DEF Same1
  <2>3. Nat \subseteq Same1
    BY <2>1, <2>2, Induction
  <2>4. i - m \in Nat /\ m + (i - m) = i
    BY <1>11
  <2>5. i - m \in Same1
    BY <2>3, <2>4
  <2> QED
    BY <2>4, <2>5 DEF Same1
<1> DEFINE Is(f) == f = [n \in Nat |-> IF n < 10 THEN 1 ELSE f[n \div 10] + 1]
           d == [n \in Nat |-> g[n][n]]
<1>12. ASSUME NEW n \in Nat PROVE d[n] = IF n < 10 THEN 1 ELSE d[n \div 10] + 1
  <2>1. CASE n = 0
    BY <1>4, <2>1
  <2>2. CASE n # 0
    <3>1. n - 1 \in Nat /\ (n - 1) + 1 = n
      BY <2>2
    <3>2. g[n][n] = IF n < 10 THEN 1 ELSE g[n - 1][n \div 10] + 1
      <4>1. g[(n - 1) + 1][n] = IF n < 10 THEN 1 ELSE g[n - 1][n \div 10] + 1
        BY <1>5, <3>1, Zenon
      <4> QED
        BY <3>1, <4>1, Zenon
    <3>3. n >= 10 => g[n - 1][n \div 10] = g[n \div 10][n \div 10]
      BY <1>1, <1>11, <3>1
    <3>4. n \div 10 \in Nat
      BY <1>1
    <3> QED
      BY <3>2, <3>3, <3>4
  <2> QED
    BY <2>1, <2>2
<1>13. Is(d)
  BY <1>12
<1>14. Is(Figures)
  <2>1. Figures = CHOOSE f : Is(f)
    BY DEF Figures
  <2> HIDE DEF Is, d
  <2> QED
    BY <1>13, <2>1
<1>15. \A n \in Nat : Figures[n] = IF n < 10 THEN 1 ELSE Figures[n \div 10] + 1
  BY <1>14
<1>16. DOMAIN Figures = Nat /\ Figures = [n \in Nat |-> Figures[n]]
  BY <1>14
<1> DEFINE Typed == {j \in Nat : \A n \in Nat : n <= j => Figures[n] \in Nat}
<1>17. 0 \in Typed
  BY <1>15
<1>18. ASSUME NEW j \in Nat, j \in Typed PROVE j + 1 \in Typed
  <2>1. ASSUME NEW n \in Nat, n <= j + 1 PROVE Figures[n] \in Nat
    <3>1. n >= 10 => n \div 10 \in Nat /\ n \div 10 <= j
      BY <1>1, <2>1
    <3>2. n >= 10 => Figures[n \div 10] \in Nat
      BY <1>18, <3>1
    <3> QED
      BY <1>15, <3>2
  <2> QED
    BY <2>1
<1> HIDE DEF Typed
<1>19. Nat \subseteq Typed
  BY <1>17, <1>18, Induction
<1>20. \A n \in Nat : Figures[n] \in Nat
  BY <1>19 DEF Typed
<1> QED
  BY <1>15, <1>16, <1>20

LEMMA PadIs ==
    ASSUME NEW s \in Seq(Int), NEW len \in Nat, NEW c \in Int
    PROVE  /\ Pad(s, len, c) \in Seq(Int)
           /\ Len(Pad(s, len, c)) = IF Len(s) < len THEN len ELSE Len(s)
           /\ \A n \in 1..Len(Pad(s, len, c)) :
                 Pad(s, len, c)[n] = IF n <= Len(s) THEN s[n] ELSE c
           /\ len <= Len(s) => Pad(s, len, c) = s
<1> DEFINE N == len - Len(s)
           M == IF N < 0 THEN 0 ELSE N
           p == [n \in 1..N |-> c]
<1>1. Len(s) \in Nat
  BY LenProperties
<1>2. 1..N = 1..M /\ M \in Nat /\ N \in Int
  BY <1>1
<1>3. p \in Seq(Int) /\ Len(p) = M /\ \A n \in 1..M : p[n] = c
  <2>1. p = [n \in 1..M |-> c]
    BY <1>2
  <2> HIDE DEF p, M, N
  <2>2. DOMAIN p = 1..M /\ \A n \in 1..M : p[n] = c
    BY <2>1
  <2>3. p \in [1..M -> Int]
    BY <2>1
  <2>4. p \in Seq(Int)
    BY <1>2, <2>3
  <2> QED
    BY <1>2, <2>2, <2>4, LenProperties
<1>4. Pad(s, len, c) = s \o p
  BY DEF Pad
<1> HIDE DEF p
<1>5. /\ s \o p \in Seq(Int) /\ Len(s \o p) = Len(s) + M
      /\ \A n \in 1..Len(s) + M : (s \o p)[n] = IF n <= Len(s) THEN s[n] ELSE p[n - Len(s)]
  BY <1>3, ConcatProperties
<1>6. ASSUME NEW n \in 1..Len(s) + M PROVE (s \o p)[n] = IF n <= Len(s) THEN s[n] ELSE c
  <2>1. n > Len(s) => n - Len(s) \in 1..M
    BY <1>1, <1>2
  <2> QED
    BY <1>1, <1>3, <1>5, <2>1
<1>7. len <= Len(s) => s \o p = s
  <2> SUFFICES ASSUME len <= Len(s) PROVE s \o p = s
    OBVIOUS
  <2>1. M = 0
    BY <1>1
  <2>2. p = << >>
    BY <1>3, <2>1, EmptySeq
  <2> QED
    BY <2>2, ConcatEmptySeq
<1>8. Len(s) + M = IF Len(s) < len THEN len ELSE Len(s)
  BY <1>1
<1> QED
  BY <1>4, <1>5, <1>6, <1>7, <1>8

\* the two words of a Bit, whose order is the platform's
LEMMA PaddedIs ==
    ASSUME column \in Columns, column.type = "Bit", NEW v, Stored(v)
    PROVE  /\ Pad(v, 2, 0) \in Seq(Int) /\ Len(Pad(v, 2, 0)) = 2
           /\ Pad(v, 2, 0)[1] \in 0..2^IntBits - 1 /\ Pad(v, 2, 0)[2] \in 0..2^IntBits - 1
<1>1. v \in Seq(Int) /\ Len(v) \in {1, 2} /\ \A n \in 1..Len(v) : v[n] \in 0..2^IntBits - 1
  <2>1. v \in Seq(Int) /\ Len(v) = column.len /\ Holds(v)
    BY DEF Stored
  <2>2. column.len \in {1, 2}
    BY ColumnIs
  <2>3. \A n \in DOMAIN v : v[n] \in 0..2^IntBits - 1
    BY <2>1, HoldsIs
  <2> QED
    BY <2>1, <2>2, <2>3
<1>2. 2^IntBits \in Nat /\ 2^IntBits > 0
  BY PowerIs, ValuesAssumption
<1>3. /\ Pad(v, 2, 0) \in Seq(Int) /\ Len(Pad(v, 2, 0)) = IF Len(v) < 2 THEN 2 ELSE Len(v)
      /\ \A n \in 1..Len(Pad(v, 2, 0)) : Pad(v, 2, 0)[n] = IF n <= Len(v) THEN v[n] ELSE 0
  <2>1. 2 \in Nat /\ 0 \in Int /\ v \in Seq(Int)
    BY <1>1
  <2> QED
    BY <2>1, PadIs
<1>4. Len(Pad(v, 2, 0)) = 2
  BY <1>1, <1>3
<1>5. 0 \in 0..2^IntBits - 1
  BY <1>2
<1> QED
  BY <1>1, <1>3, <1>4, <1>5

\* The year, month and day of a number
LEMMA FactorDateType ==
    ASSUME NEW n \in Int
    PROVE  factor_YYYYMMDD(n) \in Seq(Int) /\ Len(factor_YYYYMMDD(n)) = 3
<1> DEFINE sign == IF n < 0 THEN -1 ELSE 1
           m == sign * n
           a == (m \div 10000) % 10000
           b == (m \div 100) % 100
           c == m % 100
<1>1. sign \in Int /\ m \in Int
  OBVIOUS
<1>2. factor_YYYYMMDD(n) = <<sign * a, sign * b, sign * c>>
  BY DEF factor_YYYYMMDD
<1> HIDE DEF m
<1>3. a \in Int /\ b \in Int /\ c \in Int
  BY <1>1
<1> HIDE DEF a, b, c
<1>4. sign * a \in Int /\ sign * b \in Int /\ sign * c \in Int
  BY <1>3
<1> HIDE DEF sign
<1> QED
  BY <1>2, <1>4

LEMMA ZeroPaddedType ==
    ASSUME NEW n \in Int, NEW least \in Nat
    PROVE  ZeroPadded(n, least) \in Nat
<1>1. n >= 0 => Figures[n] \in Nat
  BY FiguresIs
<1>2. n < 0 => Figures[-n] \in Nat
  <2>1. n < 0 => -n \in Nat
    OBVIOUS
  <2> QED
    BY <2>1, FiguresIs
<1>3. Decimals(n) \in Nat
  BY <1>1, <1>2 DEF Decimals
<1> QED
  BY <1>3 DEF ZeroPadded

\* What is printed of a value, and how many characters that takes
LEMMA PrintedStored ==
    ASSUME column \in Columns, column.type \in Numeric \union Dates, NEW v, Stored(v)
    PROVE  Printed(v) \in Seq(Int) /\ Width(v) \in Nat
<1> DEFINE T == column.type
           p == Printed(v)
<1>1. v \in Seq(Int)
  BY DEF Stored
<1>2. CASE T \in Integral \union {"Bit"}
  <2>1. p \in Seq(Int) /\ p[1] \in Int
    <3>1. CASE T \in Integral
      <4>1. p = v /\ Len(v) = 1
        BY <3>1, PrintedIs DEF Stored
      <4>2. 1 \in 1..Len(v)
        BY <4>1
      <4>3. v[1] \in Int
        BY <1>1, <4>2, ElementOfSeq
      <4> HIDE DEF p
      <4> QED
        BY <1>1, <4>1, <4>3, Zenon
    <3>2. CASE T = "Bit"
      <4> DEFINE w == flip64(Pad(v, 2, 0))
      <4>1. w[1] \in 0..2^IntBits - 1 /\ w[2] \in 0..2^IntBits - 1
        BY <3>2, PaddedIs, FlippedAre
      <4>2. p = <<w[1] + w[2] * 2^IntBits>>
        BY <3>2, PrintedIs
      <4> HIDE DEF w
      <4>3. 2^IntBits \in Nat
        BY PowerIs, ValuesAssumption
      <4>4. w[1] + w[2] * 2^IntBits \in Int
        BY <4>1, <4>3
      <4> HIDE DEF p
      <4> QED
        BY <4>2, <4>4
    <3> QED
      BY <1>2, <3>1, <3>2
  <2>2. Width(v) = IF p[1] < 0 THEN 1 + Figures[-p[1]] ELSE Figures[p[1]]
    BY <1>2 DEF Width, Decimals, Integral, Narrow
  <2> HIDE DEF p
  <2>3. Width(v) \in Nat
    <3>1. p[1] < 0 => -p[1] \in Nat
      BY <2>1
    <3>2. p[1] >= 0 => p[1] \in Nat
      BY <2>1
    <3>3. \A n \in Nat : Figures[n] \in Nat
      BY FiguresIs
    <3> QED
      BY <2>1, <2>2, <3>1, <3>2, <3>3
  <2> QED
    BY <2>1, <2>3 DEF p
<1>3. CASE T = "Year"
  <2>1. p = <<YearBase + v[1]>> /\ Len(v) = 1 /\ Width(v) = 4
    BY <1>3, PrintedIs DEF Stored, Width, Integral, Narrow
  <2>2. YearBase + v[1] \in Int
    <3>2. Len(v) = 1
      BY <2>1
    <3>4. 1 \in 1..Len(v)
      BY <3>2
    <3>1. v[1] \in Int
      BY <1>1, <3>4, ElementOfSeq
    <3>3. YearBase \in Int
      BY ValuesAssumption
    <3> QED
      BY <3>1, <3>3
  <2> QED
    BY <2>1, <2>2
<1>4. CASE T = "Date"
  <2>1. v[1] \in Int
    BY <1>1, <1>4 DEF Stored
  <2>2. p = <<v[1] \div 512, (v[1] \div 32) % 16, v[1] % 32>>
    BY <1>4, PrintedIs DEF field_to_tm, Dates
  <2>3. p \in Seq(Int)
    BY <2>1, <2>2
  <2>4. Width(v) = IF p[1] < 10000 THEN 10 ELSE 11
    BY <1>4 DEF Width, Integral, Narrow
  <2> QED
    BY <2>3, <2>4
<1>5. CASE T = "Time"
  <2>1. v[1] \in Int
    BY <1>1, <1>5 DEF Stored
  <2>2. p = IF v[1] = -99 THEN <<0, 0, 0, 0>>
            ELSE <<IF v[1] < 0 THEN 1 ELSE 0>> \o factor_HHMMSS(v[1])
    BY <1>5, PrintedIs DEF field_to_tm, Dates
  <2>3. p \in Seq(Int) /\ Len(p) = 4 /\ p[1] \in {0, 1} /\ p[2] \in Nat
    <3>1. CASE v[1] = -99
      BY <2>2, <3>1
    <3>2. CASE v[1] # -99
      <4> DEFINE m == IF v[1] < 0 THEN -v[1] ELSE v[1]
                 a == <<IF v[1] < 0 THEN 1 ELSE 0>>
                 b == <<m \div 10000, (m \div 100) % 100, m % 100>>
      <4>1. m \in Nat
        BY <2>1
      <4>2. p = a \o b
        BY <2>2, <3>2 DEF factor_HHMMSS
      <4> HIDE DEF m, p
      <4>3. /\ m \div 10000 \in Nat /\ (m \div 100) % 100 \in Int /\ m % 100 \in Int
        BY <4>1
      <4>4. a \in Seq(Int) /\ Len(a) = 1 /\ a[1] \in {0, 1}
        OBVIOUS
      <4>5. b \in Seq(Int) /\ Len(b) = 3 /\ b[1] \in Nat
        BY <4>3
      <4> HIDE DEF a, b
      <4>6. /\ a \o b \in Seq(Int) /\ Len(a \o b) = 4
            /\ (a \o b)[1] = a[1] /\ (a \o b)[2] = b[1]
        <5>1. /\ a \o b \in Seq(Int) /\ Len(a \o b) = Len(a) + Len(b)
              /\ \A n \in 1..Len(a) + Len(b) :
                    (a \o b)[n] = IF n <= Len(a) THEN a[n] ELSE b[n - Len(a)]
          BY <4>4, <4>5, ConcatProperties
        <5>2. 1 \in 1..4 /\ 2 \in 1..4 /\ 2 - 1 = 1
          OBVIOUS
        <5> QED
          BY <4>4, <4>5, <5>1, <5>2
      <4> QED
        BY <4>2, <4>4, <4>5, <4>6
    <3> QED
      BY <3>1, <3>2
  <2>4. Width(v) = p[1] + 6 + IF Figures[p[2]] < 2 THEN 2 ELSE Figures[p[2]]
    BY <1>5 DEF Width, Integral, Narrow
  <2> HIDE DEF p
  <2>5. Figures[p[2]] \in Nat
    BY <2>3, FiguresIs
  <2> QED
    BY <2>3, <2>4, <2>5 DEF p
<1>6. CASE T = "Datetime"
  <2>0. Len(v) = 2
    BY <1>6 DEF Stored
  <2>1. v[1] \in Int /\ v[2] \in Int
    <3>1. 1 \in 1..Len(v) /\ 2 \in 1..Len(v)
      BY <2>0
    <3> QED
      BY <1>1, <3>1, ElementOfSeq
  <2>2. p = factor_YYYYMMDD(v[1]) \o factor_HHMMSS(v[2])
    BY <1>6, PrintedIs DEF field_to_tm, Dates
  <2>3. factor_YYYYMMDD(v[1]) \in Seq(Int) /\ Len(factor_YYYYMMDD(v[1])) = 3
    BY <2>1, FactorDateType
  <2>4. factor_HHMMSS(v[2]) \in Seq(Int) /\ Len(factor_HHMMSS(v[2])) = 3
    <3> DEFINE m == IF v[2] < 0 THEN -v[2] ELSE v[2]
    <3>1. m \in Int /\ factor_HHMMSS(v[2]) = <<m \div 10000, (m \div 100) % 100, m % 100>>
      BY <2>1 DEF factor_HHMMSS
    <3> HIDE DEF m
    <3> QED
      BY <3>1
  <2>5. p \in Seq(Int) /\ Len(p) = 6
    <3> DEFINE ymd == factor_YYYYMMDD(v[1])
               hms == factor_HHMMSS(v[2])
    <3>1. ymd \in Seq(Int) /\ Len(ymd) = 3 /\ hms \in Seq(Int) /\ Len(hms) = 3
      BY <2>3, <2>4
    <3>2. p = ymd \o hms
      BY <2>2
    <3> HIDE DEF ymd, hms, p
    <3>3. ymd \o hms \in Seq(Int) /\ Len(ymd \o hms) = Len(ymd) + Len(hms)
      BY <3>1, ConcatProperties
    <3> QED
      BY <3>1, <3>2, <3>3 DEF p
  <2>6. Width(v) = ZeroPadded(p[1], 4) + ZeroPadded(p[2], 2) + ZeroPadded(p[3], 2) + 11
    BY <1>6 DEF Width, Integral, Narrow
  <2>7. p[1] \in Int /\ p[2] \in Int /\ p[3] \in Int
    <3>1. 1 \in 1..Len(p) /\ 2 \in 1..Len(p) /\ 3 \in 1..Len(p)
      BY <2>5
    <3> QED
      BY <2>5, <3>1, ElementOfSeq
  <2> HIDE DEF p
  <2>8. ZeroPadded(p[1], 4) \in Nat /\ ZeroPadded(p[2], 2) \in Nat /\ ZeroPadded(p[3], 2) \in Nat
    BY <2>7, ZeroPaddedType
  <2> QED
    BY <2>5, <2>6, <2>8 DEF p
<1> QED
  BY <1>2, <1>3, <1>4, <1>5, <1>6 DEF Numeric, Dates

-----------------------------------------------------------------------------
(* Strings, and what an escaped character stands for in XML and JSON.       *)

LEMMA CutIs ==
    ASSUME NEW s \in Seq(Int), NEW len \in Nat
    PROVE  /\ Cut(s, len) \in Seq(Int)
           /\ Len(Cut(s, len)) = IF Len(s) < len THEN Len(s) ELSE len
           /\ Len(s) <= len => Cut(s, len) = s
<1> DEFINE n == IF Len(s) < len THEN Len(s) ELSE len
<1>1. Len(s) \in Nat /\ n \in 0..Len(s) /\ Cut(s, len) = SubSeq(s, 1, n)
  BY DEF Cut
<1> HIDE DEF n
<1>2. SubSeq(s, 1, n) \in Seq(Int) /\ Len(SubSeq(s, 1, n)) = n
  BY <1>1, SubSeqProperties
<1>3. n = Len(s) => SubSeq(s, 1, n) = s
  OBVIOUS
<1> QED
  BY <1>1, <1>2, <1>3 DEF n

\* The text before the first zero byte
LEMMA AsStringIs ==
    ASSUME NEW s \in Seq(Int)
    PROVE  /\ AsString(s) \in Seq(Int) /\ Len(AsString(s)) <= Len(s)
           /\ AsString(s) # s => Len(AsString(s)) < Len(s)
<1> DEFINE I == {i \in 1..Len(s) : s[i] = 0}
           k == CString(s)
<1>1. Len(s) \in Nat
  OBVIOUS
<1>2. k = IF I # {} THEN Min(I) ELSE 0
  BY DEF CString, SelectInSeq
<1>3. I \in SUBSET Nat
  BY <1>1
<1>4. k \in 0..Len(s)
  <2>1. CASE I # {}
    <3>1. Min(I) \in I
      <4> HIDE DEF I
      <4> QED
        BY <1>3, <2>1, MinIs
    <3> QED
      BY <1>1, <1>2, <2>1, <3>1
  <2>2. CASE I = {}
    BY <1>1, <1>2, <2>2
  <2> QED
    BY <2>1, <2>2
<1> HIDE DEF k
<1>5. CASE k = 0
  <2>1. AsString(s) = s
    BY <1>5 DEF AsString, k
  <2> QED
    BY <1>1, <2>1
<1>6. CASE k # 0
  <2>1. AsString(s) = SubSeq(s, 1, k - 1)
    BY <1>6 DEF AsString, k
  <2>2. k - 1 \in 0..Len(s)
    BY <1>1, <1>4, <1>6
  <2>3. SubSeq(s, 1, k - 1) \in Seq(Int) /\ Len(SubSeq(s, 1, k - 1)) = k - 1
    BY <2>2, SubSeqProperties
  <2> QED
    BY <1>1, <1>4, <2>1, <2>3
<1> QED
  BY <1>5, <1>6

\* A string without the zero bytes at its end
LEMMA StrippedIs ==
    ASSUME NEW s \in Seq(Int)
    PROVE  Stripped(s) \in Seq(Int)
<1> DEFINE I == {i \in 1..Len(s) : s[i] # 0}
           k == SelectLastInSeq(s, LAMBDA c : c # 0)
<1>1. Len(s) \in Nat
  OBVIOUS
<1>2. k = IF I # {} THEN Max(I) ELSE 0
  BY DEF SelectLastInSeq
<1>3. I \in SUBSET (0..Len(s))
  BY <1>1
<1>4. k \in 0..Len(s)
  <2>1. CASE I # {}
    <3>1. Max(I) \in I
      <4> HIDE DEF I
      <4> QED
        BY <1>1, <1>3, <2>1, MaxIs
    <3> QED
      BY <1>1, <1>2, <2>1, <3>1
  <2>2. CASE I = {}
    BY <1>1, <1>2, <2>2
  <2> QED
    BY <2>1, <2>2
<1>5. Stripped(s) = SubSeq(s, 1, k)
  BY DEF Stripped
<1> HIDE DEF k
<1> QED
  BY <1>1, <1>4, <1>5, SubSeqProperties

\* What stands for a character in each format
LEMMA EscapeIs ==
    ASSUME NEW esc \in Escapes, NEW c \in Int
    PROVE  Escape(esc, c) \in Seq(Int) /\ (esc = "none" => Escape(esc, c) = <<c>>)
<1>1. leaning_toothpicks(c) \in Seq(Int)
  <2>1. CASE c \in 0..31 \ {8, 9, 10, 12, 13}
    <3> DEFINE hex == c % 16
               a == 48 + c \div 16
               b == IF hex < 10 THEN 48 + hex ELSE 87 + hex
    <3>1. leaning_toothpicks(c) = <<92, 117, 48, 48, a, b>>
      BY <2>1 DEF leaning_toothpicks
    <3>2. a \in Int /\ b \in Int
      OBVIOUS
    <3> HIDE DEF a, b
    <3> QED
      BY <3>1, <3>2
  <2>2. CASE c \in {8, 9, 10, 12, 13, 34, 92}
    BY <2>2 DEF leaning_toothpicks
  <2>3. CASE c \notin 0..31 \union {34, 92}
    BY <2>3 DEF leaning_toothpicks
  <2> QED
    BY <2>1, <2>2, <2>3
<1>2. xml_entities(c) \in Seq(Int)
  BY DEF xml_entities
<1>3. <<c>> \in Seq(Int)
  OBVIOUS
<1> QED
  BY <1>1, <1>2, <1>3 DEF Escape, Escapes

LEMMA escape_stringIs ==
    ASSUME NEW esc \in Escapes, NEW s \in Seq(Int)
    PROVE  /\ escape_string(esc, s) \in Seq(Int)
           /\ s = << >> => escape_string(esc, s) = << >>
           /\ esc = "none" => Len(escape_string(esc, s)) = Len(s)
<1> DEFINE V == Int
           N == Len(s)
           seqs == [n \in 1..N |-> Escape(esc, s[n])]
<1>1. N \in Nat
  OBVIOUS
<1>2. \A n \in 1..N : Escape(esc, s[n]) \in Seq(V) /\ (esc = "none" => Escape(esc, s[n]) = <<s[n]>>)
  BY EscapeIs
<1>3. seqs \in Seq(Seq(V)) /\ Len(seqs) = N /\ \A n \in 1..N : seqs[n] = Escape(esc, s[n])
  <2> HIDE DEF V, N
  <2>1. seqs \in [1..N -> Seq(V)]
    BY <1>2
  <2>2. seqs \in Seq(Seq(V))
    BY <1>1, <2>1
  <2>3. DOMAIN seqs = 1..N
    OBVIOUS
  <2> HIDE DEF seqs
  <2>4. Len(seqs) = N
    BY <1>1, <2>2, <2>3, LenProperties
  <2> QED
    BY <2>2, <2>4 DEF seqs
<1>4. escape_string(esc, s) = FlattenSeq(seqs)
  BY DEF escape_string
<1> HIDE DEF V, N, seqs
<1>5. PICK g \in [0..Len(seqs) -> Seq(V)] :
         /\ g[0] = << >>
         /\ \A i \in 1..Len(seqs) : g[i] = g[i - 1] \o seqs[i]
         /\ FlattenSeq(seqs) = g[Len(seqs)]
  BY <1>3, FlattenIs
<1>6. FlattenSeq(seqs) \in Seq(V)
  BY <1>1, <1>3, <1>5
<1>7. s = << >> => FlattenSeq(seqs) = << >>
  BY <1>3, <1>5 DEF N
<1>8. ASSUME esc = "none" PROVE Len(FlattenSeq(seqs)) = N
  <2> DEFINE Good == {n \in Nat : n <= N => Len(g[n]) = n}
  <2>1. 0 \in Good
    BY <1>5
  <2>2. ASSUME NEW n \in Nat, n \in Good PROVE n + 1 \in Good
    <3>0. SUFFICES ASSUME n + 1 <= N PROVE Len(g[n + 1]) = n + 1
      <4>1. n + 1 \in Nat
        OBVIOUS
      <4> QED
        BY <4>1, Zenon
    <3>1. n + 1 \in 1..N /\ (n + 1) - 1 = n /\ n \in 0..N /\ Len(g[n]) = n
      BY <1>1, <2>2, <3>0
    <3>2. g[n + 1] = g[n] \o seqs[n + 1]
      BY <1>3, <1>5, <3>1
    <3>3. g[n] \in Seq(V)
      BY <1>3, <3>1
    <3>4. seqs[n + 1] \in Seq(V) /\ Len(seqs[n + 1]) = 1
      <4>1. seqs[n + 1] = <<s[n + 1]>>
        BY <1>2, <1>3, <1>8, <3>1
      <4> QED
        BY <1>2, <1>3, <3>1, <4>1
    <3>5. Len(g[n] \o seqs[n + 1]) = Len(g[n]) + Len(seqs[n + 1])
      BY <3>3, <3>4, ConcatProperties
    <3> QED
      BY <3>1, <3>2, <3>4, <3>5
  <2> HIDE DEF Good
  <2>3. Nat \subseteq Good
    BY <2>1, <2>2, Induction
  <2>4. N \in Good
    BY <1>1, <2>3
  <2> QED
    BY <1>1, <1>3, <1>5, <2>4 DEF Good
<1> QED
  BY <1>4, <1>6, <1>7, <1>8 DEF V, N

-----------------------------------------------------------------------------
(* JSON: a string that is shown can be sent back.                           *)

\* Decimal() is a recurrence along the digits.
LEMMA DecimalIs ==
    ASSUME NEW digits \in Seq(Int)
    PROVE  \E g \in [0..Len(digits) -> Int] :
              /\ g[0] = 0
              /\ \A n \in 1..Len(digits) : g[n] = 10 * g[n - 1] + (digits[n] - 48)
              /\ Decimal(digits) = g[Len(digits)]
<1> DEFINE N == Len(digits)
           step == [n \in 1..N |-> [x \in Int |-> 10 * x + (digits[n] - 48)]]
           Is(f) == f = [s \in SUBSET (1..N) |->
                           IF s = {} THEN 0 ELSE 10 * f[s \ {Max(s)}] + (digits[Max(s)] - 48)]
           f == CHOOSE h : Is(h)
<1>1. N \in Nat /\ DOMAIN digits = 1..N /\ \A n \in 1..N : digits[n] \in Int
  OBVIOUS
<1>2. Decimal(digits) = f[1..N]
  BY <1>1 DEF Decimal, FoldLeft, MapThenFoldSet
<1>3. step \in [1..N -> [Int -> Int]]
  BY <1>1
<1>4. \E h : Is(h)
  <2>1. PICK h \in [SUBSET (1..N) -> Int] : IsFold(h, N, 0, step)
    <3> HIDE DEF N, step
    <3>1. 0 \in Int
      OBVIOUS
    <3> QED
      BY <1>1, <1>3, <3>1, FoldExists
  <2>2. ASSUME NEW s \in SUBSET (1..N)
        PROVE  h[s] = IF s = {} THEN 0 ELSE 10 * h[s \ {Max(s)}] + (digits[Max(s)] - 48)
    <3>1. h[s] = IF s = {} THEN 0 ELSE step[Max(s)][h[s \ {Max(s)}]]
      BY <2>1, Zenon DEF IsFold
    <3>2. CASE s # {}
      <4>1. s \in SUBSET (0..N)
        OBVIOUS
      <4>2. Max(s) \in s
        BY <1>1, <3>2, <4>1, MaxIs
      <4>3. Max(s) \in 1..N /\ h[s \ {Max(s)}] \in Int
        BY <4>2
      <4> QED
        BY <3>1, <3>2, <4>3
    <3> QED
      BY <3>1, <3>2
  <2> QED
    BY <2>2
<1>5. Is(f)
  BY <1>4, Zenon
<1>6. f[{}] = 0
  BY <1>5
<1>7. ASSUME NEW s \in SUBSET (1..N), s # {}, f[s \ {Max(s)}] \in Int
      PROVE  f[s] = step[Max(s)][f[s \ {Max(s)}]]
  <2>1. s \in SUBSET (0..N)
    OBVIOUS
  <2>2. Max(s) \in 1..N
    BY <1>1, <1>7, <2>1, MaxIs
  <2>3. f[s] = 10 * f[s \ {Max(s)}] + (digits[Max(s)] - 48)
    BY <1>5, <1>7
  <2> QED
    BY <1>7, <2>2, <2>3
<1>8. FoldsIn(f, Int, N, 0, step)
  BY <1>6, <1>7 DEF FoldsIn
<1> HIDE DEF f, step, N
<1>9. PICK g \in [0..N -> Int] : UpTo(g, N, 0, step) /\ g[N] = f[1..N]
  <2> DEFINE V == Int
  <2>1. 0 \in V
    OBVIOUS
  <2>2. N \in Nat /\ step \in [1..N -> [V -> V]] /\ FoldsIn(f, V, N, 0, step)
    BY <1>1, <1>3, <1>8, Zenon
  <2> HIDE DEF V
  <2>3. \E g \in [0..N -> V] : UpTo(g, N, 0, step) /\ g[N] = f[1..N]
    BY <2>1, <2>2, FoldIsLoop
  <2> QED
    BY <2>3 DEF V
<1>10. ASSUME NEW n \in 1..N PROVE g[n] = 10 * g[n - 1] + (digits[n] - 48)
  <2>1. g[n] = step[n][g[n - 1]]
    BY <1>9 DEF UpTo
  <2>2. g[n - 1] \in Int
    BY <1>1
  <2> QED
    BY <2>1, <2>2 DEF step
<1> QED
  BY <1>2, <1>9, <1>10 DEF N, UpTo

\* The characters of a JSON text
Codes == {x \in [esc : {"no", "esc", "u"}, c : Int] :
             /\ x.esc = "u" => x.c \in Nat
             /\ x.esc = "esc" => x.c \in DOMAIN JSON_unescape_table}

LEMMA TableIs ==
    /\ DOMAIN JSON_unescape_table = {34, 47, 92, 98, 102, 110, 114, 116}
    /\ \A c \in DOMAIN JSON_unescape_table : JSON_unescape_table[c] \in Int
    /\ JSON_unescape_table[34] = 34 /\ JSON_unescape_table[92] = 92
    /\ JSON_unescape_table[98] = 8 /\ JSON_unescape_table[102] = 12
    /\ JSON_unescape_table[110] = 10 /\ JSON_unescape_table[114] = 13
    /\ JSON_unescape_table[116] = 9
  BY DEF JSON_unescape_table

LEMMA UTF8Is ==
    ASSUME NEW c \in Nat
    PROVE  UTF8(c) \in Seq(Int) /\ (c < 128 => UTF8(c) = <<c>>)
<1> DEFINE n == UTF8Length(c)
           byte == [k \in 1..n |-> ((c \div <<1, 64, 4096, 262144>>[n - k + 1]) % 64)
                      + IF k > 1 THEN 128 ELSE <<0, 192, 224, 240>>[n]]
<1>1. n \in {2, 3, 4}
  BY DEF UTF8Length
<1>2. UTF8(c) = IF c < 128 THEN <<c>> ELSE byte
  BY DEF UTF8, UTF8Bytes
<1> HIDE DEF n
<1>3. ASSUME NEW k \in 1..n PROVE byte[k] \in Int
  <2> DEFINE p == <<1, 64, 4096, 262144>>[n - k + 1]
             first == IF k > 1 THEN 128 ELSE <<0, 192, 224, 240>>[n]
  <2>1. n - k + 1 \in {1, 2, 3, 4}
    BY <1>1, SMT
  <2>2. \A m \in {1, 2, 3, 4} :
           <<1, 64, 4096, 262144>>[m] \in Nat /\ <<1, 64, 4096, 262144>>[m] > 0
    BY SMT
  <2>3. p \in Nat /\ p > 0
    BY <2>1, <2>2, SMT
  <2>4. first \in Int
    BY <1>1
  <2> HIDE DEF p, first
  <2>5. (c \div p) % 64 \in Int
    BY <2>3, SMT
  <2> QED
    BY <2>4, <2>5, SMT DEF p, first
<1>4. byte \in [1..n -> Int]
  BY <1>3
<1> HIDE DEF byte
<1>5. byte \in Seq(Int) /\ <<c>> \in Seq(Int)
  BY <1>1, <1>4
<1> QED
  BY <1>2, <1>5

Unescaped == [pair1 : Nat, text : Seq(Int)]

LEMMA UnescapeType ==
    ASSUME NEW s \in Unescaped, NEW x \in Codes
    PROVE  Unescape(s, x) \in Unescaped
<1>1. s.pair1 \in Nat /\ s.text \in Seq(Int) /\ x.c \in Int /\ x.esc \in {"no", "esc", "u"}
  BY DEF Unescaped, Codes
<1>2. ASSUME NEW t \in Seq(Int)
      PROVE  [s EXCEPT !.text = s.text \o t] \in Unescaped
  <2>1. s.text \o t \in Seq(Int)
    BY <1>1, ConcatProperties
  <2> QED
    BY <2>1 DEF Unescaped
<1>3. CASE x.esc = "no"
  <2>1. Unescape(s, x) = [s EXCEPT !.text = s.text \o <<x.c>>]
    BY <1>3 DEF Unescape
  <2>2. <<x.c>> \in Seq(Int)
    BY <1>1
  <2> QED
    BY <1>2, <2>1, <2>2
<1>4. CASE x.esc = "esc"
  <2>1. Unescape(s, x) = [s EXCEPT !.text = s.text \o <<JSON_unescape_table[x.c]>>]
    BY <1>4 DEF Unescape
  <2>2. x.c \in DOMAIN JSON_unescape_table
    BY <1>4 DEF Codes
  <2>3. <<JSON_unescape_table[x.c]>> \in Seq(Int)
    BY <2>2, TableIs
  <2> QED
    BY <1>2, <2>1, <2>3
<1>5. CASE x.esc = "u" /\ x.c \in 55296..57343 /\ s.pair1 = 0
  <2>1. Unescape(s, x) = [s EXCEPT !.pair1 = x.c]
    BY <1>5 DEF Unescape
  <2>2. x.c \in Nat
    BY <1>5 DEF Codes
  <2> QED
    BY <2>1, <2>2 DEF Unescaped
<1>6. CASE x.esc = "u" /\ x.c \in 55296..57343 /\ s.pair1 # 0
  <2> DEFINE n == 65536 + (s.pair1 % 1024) * 1024 + (x.c % 1024)
  <2>1. n \in Nat
    BY <1>1, <1>6
  <2>2. Unescape(s, x) = [pair1 |-> 0, text |-> s.text \o UTF8(n)]
    BY <1>6 DEF Unescape
  <2> HIDE DEF n
  <2>3. s.text \o UTF8(n) \in Seq(Int)
    BY <1>1, <2>1, UTF8Is, ConcatProperties
  <2> QED
    BY <2>2, <2>3 DEF Unescaped
<1>7. CASE x.esc = "u" /\ x.c \notin 55296..57343
  <2>1. Unescape(s, x) = [s EXCEPT !.text = s.text \o UTF8(x.c)]
    BY <1>7 DEF Unescape
  <2>2. x.c \in Nat
    BY <1>7 DEF Codes
  <2> QED
    BY <1>2, <2>1, <2>2, UTF8Is
<1> QED
  BY <1>1, <1>3, <1>4, <1>5, <1>6, <1>7

\* A character that was escaped in one of three ways, and is less than a byte
\* has if it was escaped as a number
LEMMA UnescapeOne ==
    ASSUME NEW s \in Unescaped, NEW x \in Codes, NEW c,
           \/ x.esc = "no" /\ x.c = c
           \/ x.esc = "esc" /\ JSON_unescape_table[x.c] = c
           \/ x.esc = "u" /\ x.c < 128 /\ x.c = c
    PROVE  Unescape(s, x).text = s.text \o <<c>>
<1>1. s = [pair1 |-> s.pair1, text |-> s.text]
  BY DEF Unescaped
<1>2. \A t : [s EXCEPT !.text = t].text = t
  BY DEF Unescaped
<1>3. CASE x.esc = "no" /\ x.c = c
  <2>1. Unescape(s, x) = [s EXCEPT !.text = s.text \o <<x.c>>]
    BY <1>3 DEF Unescape
  <2> QED
    BY <1>2, <1>3, <2>1
<1>4. CASE x.esc = "esc" /\ JSON_unescape_table[x.c] = c
  <2>1. Unescape(s, x) = [s EXCEPT !.text = s.text \o <<JSON_unescape_table[x.c]>>]
    BY <1>4 DEF Unescape
  <2> QED
    BY <1>2, <1>4, <2>1
<1>5. CASE x.esc = "u" /\ x.c < 128 /\ x.c = c
  <2>1. x.c \in Nat
    BY <1>5 DEF Codes
  <2>2. x.c \notin 55296..57343
    BY <1>5, <2>1
  <2>3. UTF8(x.c) = <<x.c>>
    <3>1. x.c < 128
      BY <1>5
    <3> QED
      BY <2>1, <3>1, UTF8Is
  <2>4. x.c = c
    BY <1>5, Zenon
  <2>5. Unescape(s, x) = [s EXCEPT !.text = s.text \o UTF8(x.c)]
    BY <1>5, <2>2, SMT DEF Unescape
  <2>6. Unescape(s, x).text = s.text \o UTF8(x.c)
    BY <1>2, <2>5, Zenon
  <2> QED
    BY <2>3, <2>4, <2>6, Zenon
<1> QED
  BY <1>3, <1>4, <1>5

\* JSON_unescape() is a recurrence along the characters.
LEMMA JSON_unescapeIs ==
    ASSUME NEW s \in Seq(Codes)
    PROVE  \E g \in [0..Len(s) -> Unescaped] :
              /\ g[0] = [pair1 |-> 0, text |-> << >>]
              /\ \A n \in 1..Len(s) : g[n] = Unescape(g[n - 1], s[n])
              /\ JSON_unescape(s) = g[Len(s)].text
<1> DEFINE N == Len(s)
           c == [pair1 |-> 0, text |-> << >>]
           step == [n \in 1..N |-> [x \in Unescaped |-> Unescape(x, s[n])]]
           Is(f) == f = [t \in SUBSET (1..N) |->
                           IF t = {} THEN c ELSE Unescape(f[t \ {Max(t)}], s[Max(t)])]
           f == CHOOSE h : Is(h)
<1>1. N \in Nat /\ DOMAIN s = 1..N /\ \A n \in 1..N : s[n] \in Codes
  OBVIOUS
<1>2. JSON_unescape(s) = f[1..N].text
  BY <1>1 DEF JSON_unescape, FoldLeft, MapThenFoldSet
<1>3. step \in [1..N -> [Unescaped -> Unescaped]]
  BY <1>1, UnescapeType
<1>4. c \in Unescaped
  BY DEF Unescaped
<1> HIDE DEF c
<1>5. \E h : Is(h)
  <2>1. PICK h \in [SUBSET (1..N) -> Unescaped] : IsFold(h, N, c, step)
    <3> HIDE DEF N, step
    <3> QED
      BY <1>1, <1>3, <1>4, FoldExists
  <2>2. ASSUME NEW t \in SUBSET (1..N)
        PROVE  h[t] = IF t = {} THEN c ELSE Unescape(h[t \ {Max(t)}], s[Max(t)])
    <3>1. h[t] = IF t = {} THEN c ELSE step[Max(t)][h[t \ {Max(t)}]]
      BY <2>1, Zenon DEF IsFold
    <3>2. CASE t # {}
      <4>1. t \in SUBSET (0..N)
        OBVIOUS
      <4>2. Max(t) \in t
        BY <1>1, <3>2, <4>1, MaxIs
      <4>3. Max(t) \in 1..N /\ h[t \ {Max(t)}] \in Unescaped
        BY <4>2
      <4> QED
        BY <3>1, <3>2, <4>3
    <3> QED
      BY <3>1, <3>2
  <2> QED
    BY <2>2
<1>6. Is(f)
  BY <1>5, Zenon
<1>7. f[{}] = c
  BY <1>6
<1>8. ASSUME NEW t \in SUBSET (1..N), t # {}, f[t \ {Max(t)}] \in Unescaped
      PROVE  f[t] = step[Max(t)][f[t \ {Max(t)}]]
  <2>1. t \in SUBSET (0..N)
    OBVIOUS
  <2>2. Max(t) \in 1..N
    BY <1>1, <1>8, <2>1, MaxIs
  <2>3. f[t] = Unescape(f[t \ {Max(t)}], s[Max(t)])
    BY <1>6, <1>8
  <2> QED
    BY <1>8, <2>2, <2>3
<1>9. FoldsIn(f, Unescaped, N, c, step)
  BY <1>7, <1>8 DEF FoldsIn
<1> HIDE DEF f, step, N
<1>10. PICK g \in [0..N -> Unescaped] : UpTo(g, N, c, step) /\ g[N] = f[1..N]
  BY <1>1, <1>3, <1>4, <1>9, FoldIsLoop
<1>11. ASSUME NEW n \in 1..N PROVE g[n] = Unescape(g[n - 1], s[n])
  <2>1. g[n] = step[n][g[n - 1]]
    BY <1>10 DEF UpTo
  <2>2. g[n - 1] \in Unescaped
    BY <1>1
  <2> QED
    BY <2>1, <2>2 DEF step
<1> QED
  BY <1>2, <1>10, <1>11 DEF N, UpTo, c

LEMMA JSON_unescapeType ==
    ASSUME NEW s \in Seq(Codes)
    PROVE  JSON_unescape(s) \in Seq(Int)
<1>1. PICK g \in [0..Len(s) -> Unescaped] : JSON_unescape(s) = g[Len(s)].text
  BY JSON_unescapeIs
<1>2. Len(s) \in 0..Len(s)
  OBVIOUS
<1>3. g[Len(s)] \in Unescaped
  BY <1>1, <1>2
<1> QED
  BY <1>1, <1>3 DEF Unescaped

\* If each character stands for one of t's, what is unescaped is t.
LEMMA UnescapedIs ==
    ASSUME NEW s \in Seq(Codes), NEW t \in Seq(Int), Len(t) = Len(s),
           \A n \in 1..Len(s) :
              \/ s[n].esc = "no" /\ s[n].c = t[n]
              \/ s[n].esc = "esc" /\ JSON_unescape_table[s[n].c] = t[n]
              \/ s[n].esc = "u" /\ s[n].c < 128 /\ s[n].c = t[n]
    PROVE  JSON_unescape(s) = t
<1> DEFINE N == Len(s)
<1>1. PICK g \in [0..N -> Unescaped] :
         /\ g[0] = [pair1 |-> 0, text |-> << >>]
         /\ \A n \in 1..N : g[n] = Unescape(g[n - 1], s[n])
         /\ JSON_unescape(s) = g[N].text
  BY JSON_unescapeIs
<1>2. N \in Nat /\ \A n \in 1..N : s[n] \in Codes
  OBVIOUS
<1> DEFINE Good == {n \in Nat : n <= N =>
                       /\ Len(g[n].text) = n
                       /\ \A i \in 1..n : g[n].text[i] = t[i]}
<1>3. 0 \in Good
  BY <1>1
<1>4. ASSUME NEW n \in Nat, n \in Good, n + 1 <= N
      PROVE  Len(g[n + 1].text) = n + 1 /\ \A i \in 1..n + 1 : g[n + 1].text[i] = t[i]
  <2>1. n + 1 \in 1..N /\ (n + 1) - 1 = n /\ n \in 0..N
    BY <1>2, <1>4
  <2>2. Len(g[n].text) = n /\ \A i \in 1..n : g[n].text[i] = t[i]
    BY <1>4, <2>1
  <2>3. g[n] \in Unescaped /\ g[n].text \in Seq(Int)
    BY <2>1 DEF Unescaped
  <2>4. s[n + 1] \in Codes /\ g[n + 1] = Unescape(g[n], s[n + 1])
    BY <1>1, <1>2, <2>1
  <2>5. \/ s[n + 1].esc = "no" /\ s[n + 1].c = t[n + 1]
        \/ s[n + 1].esc = "esc" /\ JSON_unescape_table[s[n + 1].c] = t[n + 1]
        \/ s[n + 1].esc = "u" /\ s[n + 1].c < 128 /\ s[n + 1].c = t[n + 1]
    BY <2>1
  <2>6. g[n + 1].text = g[n].text \o <<t[n + 1]>>
    <3>1. Unescape(g[n], s[n + 1]).text = g[n].text \o <<t[n + 1]>>
      BY <2>3, <2>4, <2>5, UnescapeOne
    <3> QED
      BY <2>4, <3>1, Zenon
  <2>7. <<t[n + 1]>> \in Seq(Int) /\ Len(<<t[n + 1]>>) = 1 /\ <<t[n + 1]>>[1] = t[n + 1]
    BY <2>1
  <2> DEFINE a == g[n].text
             b == <<t[n + 1]>>
  <2> HIDE DEF a, b
  <2>8. /\ Len(a \o b) = Len(a) + Len(b)
        /\ \A i \in 1..Len(a) + Len(b) : (a \o b)[i] = IF i <= Len(a) THEN a[i] ELSE b[i - Len(a)]
    BY <2>3, <2>7, ConcatProperties DEF a, b
  <2>9. Len(a) = n /\ Len(b) = 1 /\ b[1] = t[n + 1] /\ \A i \in 1..n : a[i] = t[i]
    BY <2>2, <2>7 DEF a, b
  <2>10. Len(a \o b) = n + 1 /\ \A i \in 1..n + 1 : (a \o b)[i] = t[i]
    <3>1. ASSUME NEW i \in 1..n + 1 PROVE (a \o b)[i] = t[i]
      <4>1. (a \o b)[i] = IF i <= n THEN a[i] ELSE b[i - n]
        BY <2>8, <2>9
      <4>2. i <= n => i \in 1..n
        OBVIOUS
      <4>3. i > n => i - n = 1 /\ i = n + 1
        OBVIOUS
      <4> QED
        BY <2>9, <4>1, <4>2, <4>3
    <3> QED
      BY <2>8, <2>9, <3>1
  <2> QED
    BY <2>6, <2>10, Zenon DEF a, b
<1>5. \A n \in Nat : n \in Good => n + 1 \in Good
  <2>1. ASSUME NEW n \in Nat, n \in Good PROVE n + 1 \in Good
    <3>1. n + 1 \in Nat
      OBVIOUS
    <3> QED
      BY <1>4, <2>1, <3>1, Zenon
  <2> QED
    BY <2>1
<1> HIDE DEF Good
<1>6. Nat \subseteq Good
  BY <1>3, <1>5, Induction
<1>7. N \in Good
  BY <1>2, <1>6
<1> DEFINE r == g[N].text
<1>8. r \in Seq(Int)
  <2>1. g[N] \in Unescaped
    BY <1>2
  <2> QED
    BY <2>1 DEF Unescaped
<1>9. Len(r) = N /\ \A i \in 1..N : r[i] = t[i]
  BY <1>2, <1>7 DEF Good
<1> HIDE DEF r
<1>10. r = t
  BY <1>8, <1>9, SeqEqual
<1> QED
  BY <1>1, <1>10, Zenon DEF r

\* what stands for the characters that JSON escapes
LEMMA leaning_toothpicksIs ==
    ASSUME NEW c \in Int
    PROVE  /\ c \in 0..31 \ {8, 9, 10, 12, 13} =>
                 leaning_toothpicks(c)
                    = <<92, 117, 48, 48, 48 + c \div 16,
                        IF c % 16 < 10 THEN 48 + (c % 16) ELSE 87 + (c % 16)>>
           /\ c \in {34, 92} => leaning_toothpicks(c) = <<92, c>>
           /\ c = 8 => leaning_toothpicks(c) = <<92, 98>>
           /\ c = 9 => leaning_toothpicks(c) = <<92, 116>>
           /\ c = 10 => leaning_toothpicks(c) = <<92, 110>>
           /\ c = 12 => leaning_toothpicks(c) = <<92, 102>>
           /\ c = 13 => leaning_toothpicks(c) = <<92, 114>>
           /\ c \notin 0..31 \union {34, 92} => leaning_toothpicks(c) = <<c>>
<1>1. CASE c \in 0..31 \ {8, 9, 10, 12, 13}
  BY <1>1 DEF leaning_toothpicks
<1>2. CASE c \in {34, 92}
  BY <1>2 DEF leaning_toothpicks
<1>3. CASE c = 8
  BY <1>3 DEF leaning_toothpicks
<1>4. CASE c = 9
  BY <1>4 DEF leaning_toothpicks
<1>5. CASE c = 10
  BY <1>5 DEF leaning_toothpicks
<1>6. CASE c = 12
  BY <1>6 DEF leaning_toothpicks
<1>7. CASE c = 13
  BY <1>7 DEF leaning_toothpicks
<1>8. CASE c \notin 0..31 \union {34, 92}
  BY <1>8 DEF leaning_toothpicks
<1> QED
  BY <1>1, <1>2, <1>3, <1>4, <1>5, <1>6, <1>7, <1>8

\* Each character that the JSON format shows stands for itself when it is sent back.
LEMMA AsJSONIs ==
    ASSUME NEW s \in Seq(Int), NEW n \in 1..Len(s)
    PROVE  LET x == AsJSON(s)[n]
           IN /\ x \in Codes
              /\ \/ x.esc = "no" /\ x.c = s[n]
                 \/ x.esc = "esc" /\ JSON_unescape_table[x.c] = s[n]
                 \/ x.esc = "u" /\ x.c < 128 /\ x.c = s[n]
<1> DEFINE c == s[n]
           e == Escape("json", c)
           x == AsJSON(s)[n]
           digit(d) == IF d < 58 THEN d - 48 ELSE d - 87
<1>1. c \in Int
  OBVIOUS
<1>2. e = leaning_toothpicks(c)
  BY DEF Escape
<1>3. x = IF Len(e) = 6 THEN [esc |-> "u", c |-> 16 * digit(e[5]) + digit(e[6])]
          ELSE IF Len(e) = 2 THEN [esc |-> "esc", c |-> e[2]]
          ELSE [esc |-> "no", c |-> e[1]]
  BY DEF AsJSON
<1> HIDE DEF x, e, c, digit
<1> SUFFICES /\ x \in Codes
             /\ \/ x.esc = "no" /\ x.c = c
                \/ x.esc = "esc" /\ JSON_unescape_table[x.c] = c
                \/ x.esc = "u" /\ x.c < 128 /\ x.c = c
  BY Zenon DEF x, c
<1>4. CASE c \in 0..31 \ {8, 9, 10, 12, 13}
  <2> DEFINE hex == c % 16
             a == 48 + c \div 16
             b == IF hex < 10 THEN 48 + hex ELSE 87 + hex
  <2>1. e = <<92, 117, 48, 48, a, b>>
    <3>1. leaning_toothpicks(c) = <<92, 117, 48, 48, a, b>>
      BY <1>1, <1>4, leaning_toothpicksIs
    <3> HIDE DEF a, b
    <3> QED
      BY <1>2, <3>1, Zenon
  <2>2. 16 * digit(a) + digit(b) = c
    BY <1>4 DEF digit
  <2>3. Len(e) = 6 /\ e[5] = a /\ e[6] = b
    <3> HIDE DEF a, b
    <3> QED
      BY <2>1
  <2>4. x = [esc |-> "u", c |-> 16 * digit(a) + digit(b)]
    BY <1>3, <2>3
  <2> HIDE DEF a, b
  <2>5. x = [esc |-> "u", c |-> c]
    BY <2>2, <2>4
  <2>6. c \in Nat /\ c < 128
    BY <1>4
  <2> QED
    BY <2>5, <2>6 DEF Codes
<1>5. CASE c \in {8, 9, 10, 12, 13, 34, 92}
  <2>1. PICK d \in {34, 92, 98, 102, 110, 114, 116} : e = <<92, d>> /\ JSON_unescape_table[d] = c
    <3>1. CASE c \in {34, 92}
      <4>1. e = <<92, c>> /\ JSON_unescape_table[c] = c
        BY <1>1, <1>2, <3>1, leaning_toothpicksIs, TableIs
      <4> QED
        BY <3>1, <4>1
    <3>2. CASE c = 8
      BY <1>1, <1>2, <3>2, leaning_toothpicksIs, TableIs
    <3>3. CASE c = 9
      BY <1>1, <1>2, <3>3, leaning_toothpicksIs, TableIs
    <3>4. CASE c = 10
      BY <1>1, <1>2, <3>4, leaning_toothpicksIs, TableIs
    <3>5. CASE c = 12
      BY <1>1, <1>2, <3>5, leaning_toothpicksIs, TableIs
    <3>6. CASE c = 13
      BY <1>1, <1>2, <3>6, leaning_toothpicksIs, TableIs
    <3> QED
      BY <1>5, <3>1, <3>2, <3>3, <3>4, <3>5, <3>6
  <2>2. Len(e) = 2 /\ e[2] = d
    BY <2>1
  <2>3. x = [esc |-> "esc", c |-> d]
    BY <1>3, <2>2
  <2>4. d \in Int /\ d \in DOMAIN JSON_unescape_table
    BY <2>1, TableIs
  <2> QED
    BY <2>1, <2>3, <2>4 DEF Codes
<1>6. CASE c \notin 0..31 \union {34, 92}
  <2>1. e = <<c>>
    BY <1>1, <1>2, <1>6, leaning_toothpicksIs
  <2>2. x = [esc |-> "no", c |-> c]
    BY <1>3, <2>1
  <2> QED
    BY <1>1, <2>2 DEF Codes, c
<1> QED
  BY <1>1, <1>4, <1>5, <1>6

\* What the JSON format shows of a string is the string again for a JSON request.
LEMMA JSONIsRead ==
    ASSUME NEW s \in Seq(Int)
    PROVE  JSON_unescape(AsJSON(s)) = s
<1> DEFINE t == AsJSON(s)
<1>1. Len(s) \in Nat /\ DOMAIN t = 1..Len(s)
  BY DEF AsJSON
<1>2. \A n \in 1..Len(s) : t[n] \in Codes
  BY AsJSONIs
<1>3. t = [n \in 1..Len(s) |-> t[n]]
  BY <1>1 DEF AsJSON
<1> HIDE DEF t
<1>4. t \in Seq(Codes)
  BY <1>1, <1>2, <1>3
<1>5. Len(t) = Len(s)
  BY <1>1, <1>4, LenProperties
<1>6. \A n \in 1..Len(t) :
         \/ t[n].esc = "no" /\ t[n].c = s[n]
         \/ t[n].esc = "esc" /\ JSON_unescape_table[t[n].c] = s[n]
         \/ t[n].esc = "u" /\ t[n].c < 128 /\ t[n].c = s[n]
  BY <1>5, AsJSONIs DEF t
<1>7. JSON_unescape(t) = s
  BY <1>4, <1>5, <1>6, UnescapedIs
<1> QED
  BY <1>7 DEF t

-----------------------------------------------------------------------------
(* Every column stores what MySQL::value() makes of a text.                 *)

\* Or() is a recurrence along the bits.
LEMMA OrIs ==
    ASSUME NEW a \in Int, NEW b \in Int
    PROVE  \E g \in [0..30 -> Int] :
              /\ g[0] = 0
              /\ \A n \in 1..30 :
                    g[n] = IF BitOf(a, n - 1) + BitOf(b, n - 1) > 0
                           THEN g[n - 1] + 2^(n - 1) ELSE g[n - 1]
              /\ Or(a, b) = g[30]
<1> DEFINE N == 30
           V == Int
           set(n) == BitOf(a, n - 1) + BitOf(b, n - 1) > 0
           bits == [n \in 1..N |-> n - 1]
           step == [n \in 1..N |-> [x \in V |-> IF set(n) THEN x + 2^(n - 1) ELSE x]]
           add(x, k) == IF BitOf(a, k) + BitOf(b, k) > 0 THEN x + 2^k ELSE x
           Is(f) == f = [t \in SUBSET (1..N) |->
                           IF t = {} THEN 0 ELSE add(f[t \ {Max(t)}], bits[Max(t)])]
           f == CHOOSE h : Is(h)
<1>1. N \in Nat /\ DOMAIN bits = 1..N
  OBVIOUS
<1>2. Or(a, b) = f[1..N]
  <2> DEFINE D == DOMAIN bits
             IsD(h) == h = [t \in SUBSET D |->
                           IF t = {} THEN 0 ELSE add(h[t \ {Max(t)}], bits[Max(t)])]
  <2>1. Or(a, b) = (CHOOSE h : IsD(h))[D]
    BY DEF Or, FoldLeft, MapThenFoldSet
  <2>2. D = 1..N
    BY <1>1
  <2> HIDE DEF D, N, bits, add
  <2> QED
    BY <2>1, <2>2, Zenon
<1>3. \A n \in 1..N : 2^(n - 1) \in Int
  <2>1. ASSUME NEW n \in 1..N PROVE 2^(n - 1) \in Int
    <3>1. n - 1 \in Nat
      BY <1>1
    <3> QED
      BY <3>1, PowerIs
  <2> QED
    BY <2>1
<1> HIDE DEF set
<1>4. step \in [1..N -> [V -> V]]
  BY <1>3
<1>5. 0 \in V
  OBVIOUS
<1>6. ASSUME NEW n \in 1..N, NEW x \in V
      PROVE  add(x, bits[n]) = step[n][x]
  BY <1>6 DEF set
<1> HIDE DEF N, V, step, bits, add
<1>7. \E h : Is(h)
  <2>1. PICK h \in [SUBSET (1..N) -> V] : IsFold(h, N, 0, step)
    BY <1>1, <1>4, <1>5, FoldExists
  <2>2. ASSUME NEW t \in SUBSET (1..N)
        PROVE  h[t] = IF t = {} THEN 0 ELSE add(h[t \ {Max(t)}], bits[Max(t)])
    <3>1. h[t] = IF t = {} THEN 0 ELSE step[Max(t)][h[t \ {Max(t)}]]
      BY <2>1, Zenon DEF IsFold
    <3>2. CASE t # {}
      <4>1. t \in SUBSET (0..N)
        BY <1>1
      <4>2. Max(t) \in t
        BY <1>1, <3>2, <4>1, MaxIs
      <4>3. Max(t) \in 1..N /\ h[t \ {Max(t)}] \in V
        BY <4>2
      <4>4. add(h[t \ {Max(t)}], bits[Max(t)]) = step[Max(t)][h[t \ {Max(t)}]]
        BY <1>6, <4>3, Zenon
      <4> QED
        BY <3>1, <3>2, <4>4, Zenon
    <3> QED
      BY <3>1, <3>2, Zenon
  <2> QED
    BY <2>2
<1>8. Is(f)
  BY <1>7, Zenon
<1> HIDE DEF f
<1>9. f[{}] = 0
  BY <1>8
<1>10. ASSUME NEW t \in SUBSET (1..N), t # {}, f[t \ {Max(t)}] \in V
       PROVE  f[t] = step[Max(t)][f[t \ {Max(t)}]]
  <2>1. t \in SUBSET (0..N)
    BY <1>1
  <2>2. Max(t) \in 1..N
    BY <1>1, <1>10, <2>1, MaxIs
  <2>3. f[t] = add(f[t \ {Max(t)}], bits[Max(t)])
    BY <1>8, <1>10
  <2> QED
    BY <1>6, <1>10, <2>2, <2>3, Zenon
<1>11. FoldsIn(f, V, N, 0, step)
  BY <1>9, <1>10, Zenon DEF FoldsIn
<1>12. PICK g \in [0..N -> V] : UpTo(g, N, 0, step) /\ g[N] = f[1..N]
  BY <1>1, <1>4, <1>5, <1>11, FoldIsLoop
<1>13. ASSUME NEW n \in 1..N
       PROVE  g[n] = IF set(n) THEN g[n - 1] + 2^(n - 1) ELSE g[n - 1]
  <2>1. g[n] = step[n][g[n - 1]]
    BY <1>12 DEF UpTo
  <2>2. g[n - 1] \in V
    BY <1>1
  <2> QED
    BY <2>1, <2>2 DEF step
<1>14. g[0] = 0 /\ Or(a, b) = g[N]
  BY <1>2, <1>12 DEF UpTo
<1> QED
  BY <1>13, <1>14 DEF N, V, set

LEMMA TextsAre ==
    ASSUME column \in Columns, NEW text \in Texts[column.type]
    PROVE  /\ text.kind \in {"@++", "@--", "@null", "@time", "@autoinc",
                             "number", "date", "string"}
           /\ text.kind \in {"@time", "@autoinc", "number"} => column.type \in Numeric
           /\ text.kind = "number" => text.dec \in Int /\ text.any \in Int
           /\ text.kind \in {"date", "string"} => text.json \in BOOLEAN /\ text.chars \in Seq(Characters)
           /\ text.kind = "date" => column.type \in Dates /\ IsDate(text)
           /\ text.kind = "string" => column.type \in Types \ (Numeric \union Dates)
           /\ text.kind = "string" /\ column.type = "Char" => Len(AsString(Item(text))) <= column.len
  BY TextsAssumption

LEMMA ItemIs ==
    ASSUME NEW text, text.json \in BOOLEAN, text.chars \in Seq(Characters)
    PROVE  Item(text) \in Seq(Int)
<1> DEFINE s == text.chars
<1>1. Characters \subseteq Codes
  BY DEF Characters, Codes
<1>2. s \in Seq(Codes) /\ Len(s) \in Nat /\ \A n \in 1..Len(s) : s[n].c \in Int
  <2>1. \A x \in Characters : x.c \in Int
    BY DEF Characters
  <2> QED
    BY <1>1, <2>1
<1> HIDE DEF s
<1>3. CASE text.json
  BY <1>2, <1>3, JSON_unescapeType DEF Item, s
<1>4. CASE ~text.json
  <2> DEFINE t == [n \in 1..Len(s) |-> s[n].c]
  <2>1. t \in Seq(Int)
    BY <1>2
  <2>2. Item(text) = AsString(t)
    BY <1>4 DEF Item, s
  <2> QED
    BY <2>1, <2>2, AsStringIs
<1> QED
  BY <1>3, <1>4

LEMMA DigitsInType ==
    ASSUME NEW s \in Seq(Int)
    PROVE  DigitsIn(s) \in Seq(Int)
<1> DEFINE D == 48..57
           t == [n \in 1..Len(s) |-> IF s[n] \in D THEN <<s[n]>> ELSE << >>]
<1>1. DigitsIn(s) = FlattenSeq(t)
  BY DEF DigitsIn
<1>3. Len(s) \in Nat
  OBVIOUS
<1> HIDE DEF D
<1>2. \A n \in 1..Len(s) : (IF s[n] \in D THEN <<s[n]>> ELSE << >>) \in Seq(D)
  OBVIOUS
<1>4. t \in Seq(Seq(D))
  BY <1>2, <1>3
<1> HIDE DEF t
<1>5. FlattenSeq(t) \in Seq(D)
  BY <1>4, FlattenType
<1>6. \A d \in Seq(D) : d \in Seq(Int)
  BY DEF D
<1> QED
  BY <1>1, <1>5, <1>6

\* the characters of a date that are looked at, all if there are not too many
LEMMA DigitsOfIs ==
    ASSUME NEW text, Item(text) \in Seq(Int)
    PROVE  /\ DigitsOf(text) \in Seq(Int)
           /\ Len(AsString(Item(text))) <= DateChars =>
                  DigitsOf(text) = DigitsIn(AsString(Item(text)))
<1> DEFINE s == AsString(Item(text))
           len == DateChars + IF s # << >> /\ Head(s) \in Signs THEN 1 ELSE 0
<1>1. DigitsOf(text) = DigitsIn(Cut(s, len))
  BY DEF DigitsOf
<1>2. s \in Seq(Int)
  BY AsStringIs
<1>3. len \in Nat /\ DateChars <= len /\ DateChars \in Nat
  BY DEF DateChars
<1> HIDE DEF s, len
<1>4. Cut(s, len) \in Seq(Int) /\ (Len(s) <= len => Cut(s, len) = s)
  BY <1>2, <1>3, CutIs
<1>5. Len(s) <= DateChars => Len(s) <= len
  BY <1>2, <1>3
<1> QED
  BY <1>1, <1>4, <1>5, DigitsInType DEF s

LEMMA DecimalType ==
    ASSUME NEW digits \in Seq(Int)
    PROVE  Decimal(digits) \in Int
<1>1. PICK g \in [0..Len(digits) -> Int] : Decimal(digits) = g[Len(digits)]
  BY DecimalIs
<1> QED
  BY <1>1

LEMMA OrType ==
    ASSUME NEW a \in Int, NEW b \in Int
    PROVE  Or(a, b) \in Int
<1>1. PICK g \in [0..30 -> Int] : Or(a, b) = g[30]
  BY OrIs
<1> QED
  BY <1>1

\* The number of a date, with its sign
SignedOf(text) == IF IsNegative(text) THEN -Decimal(DigitsOf(text)) ELSE Decimal(DigitsOf(text))

\* what is stored for a date, type by type
LEMMA DateValueIs ==
    ASSUME NEW col, NEW text
    PROVE  LET digits == DigitsOf(text)
               x      == SignedOf(text)
               tm     == factor_YYYYMMDD(x)
               cut    == IF Len(digits) > 6 THEN Len(digits) - 6 ELSE 0
               v      == date_value(col, text)
           IN /\ col.type = "Date" => v = <<PackDate(tm[1], tm[2], tm[3]) % 2^24>>
              /\ col.type = "Time" => v = <<((x + 2^23) % 2^24) - 2^23>>
              /\ col.type = "Datetime" =>
                    v = Datetime(Decimal(SubSeq(digits, 1, cut)),
                                 Decimal(SubSeq(digits, cut + 1, Len(digits))), IsNegative(text))
  BY DEF date_value, SignedOf

LEMMA DateStored ==
    ASSUME column \in Columns, column.type \in Dates, NEW text, Item(text) \in Seq(Int)
    PROVE  Stored(date_value(column, text))
<1> DEFINE digits == DigitsOf(text)
           x == SignedOf(text)
           v == date_value(column, text)
<1>1. digits \in Seq(Int) /\ x \in Int
  BY DigitsOfIs, DecimalType DEF SignedOf
<1> HIDE DEF x
<1>2. CASE column.type = "Date"
  <2> DEFINE tm == factor_YYYYMMDD(x)
             p == PackDate(tm[1], tm[2], tm[3])
             e == p % 2^24
  <2>1. p \in Int
    <3> DEFINE a == tm[1]
               b == tm[2]
               c == tm[3]
    <3>1. a * 512 \in Int /\ b * 32 \in Int /\ c \in Int
      <4>1. tm \in Seq(Int) /\ Len(tm) = 3
        BY <1>1, FactorDateType
      <4>2. 1 \in 1..Len(tm) /\ 2 \in 1..Len(tm) /\ 3 \in 1..Len(tm)
        BY <4>1
      <4>3. a \in Int /\ b \in Int /\ c \in Int
        BY <4>1, <4>2, ElementOfSeq
      <4> HIDE DEF a, b, c
      <4> QED
        BY <4>3
    <3>2. p = Or(Or(a * 512, b * 32), c)
      BY DEF PackDate
    <3> HIDE DEF a, b, c
    <3>3. Or(a * 512, b * 32) \in Int
      BY <3>1, OrType
    <3> QED
      BY <3>1, <3>2, <3>3, OrType
  <2>2. v = <<e>>
    BY <1>2, DateValueIs DEF x
  <2> HIDE DEF p
  <2>3. e \in 0..2^24 - 1 /\ e \in Int
    BY <2>1, SMT
  <2> HIDE DEF e, v
  <2>4. v \in Seq(Int) /\ Len(v) = 1 /\ v[1] = e
    BY <2>2, <2>3
  <2>5. Holds(v)
    BY <1>2, <2>3, <2>4, HoldsIs
  <2> QED
    BY <1>2, <2>4, <2>5 DEF Stored, v
<1>3. CASE column.type = "Time"
  <2> DEFINE e == ((x + 2^23) % 2^24) - 2^23
  <2>2. v = <<e>>
    BY <1>3, DateValueIs DEF x
  <2>3. e \in -(2^23)..2^23 - 1 /\ e \in Int
    BY <1>1, SMT
  <2> HIDE DEF e, v
  <2>4. v \in Seq(Int) /\ Len(v) = 1 /\ v[1] = e
    BY <2>2, <2>3
  <2>5. Holds(v)
    BY <1>3, <2>3, <2>4, HoldsIs
  <2> QED
    BY <1>3, <2>4, <2>5 DEF Stored, v
<1>4. CASE column.type = "Datetime"
  <2> DEFINE cut == IF Len(digits) > 6 THEN Len(digits) - 6 ELSE 0
             a == Decimal(SubSeq(digits, 1, cut))
             b == Decimal(SubSeq(digits, cut + 1, Len(digits)))
  <2>1. v = Datetime(a, b, IsNegative(text))
    BY <1>4, DateValueIs
  <2>2. cut \in 0..Len(digits) /\ Len(digits) \in Nat
    BY <1>1
  <2> HIDE DEF cut
  <2>3. SubSeq(digits, 1, cut) \in Seq(Int) /\ SubSeq(digits, cut + 1, Len(digits)) \in Seq(Int)
    BY <1>1, <2>2
  <2>4. a \in Int /\ b \in Int
    BY <2>3, DecimalType
  <2> HIDE DEF a, b, v
  <2>5. v \in Seq(Int) /\ Len(v) = 2
    <3> DEFINE q == -140462611 - a - IF b > 551616 THEN 1 ELSE 0
               r == (551616 - b) % 1000000
    <3>1. q \in Int /\ r \in Int
      BY <2>4
    <3>2. v = <<q, r>> \/ v = <<a, b>>
      BY <2>1 DEF Datetime
    <3> HIDE DEF q, r
    <3>3. <<q, r>> \in Seq(Int) /\ Len(<<q, r>>) = 2
      BY <3>1
    <3>4. <<a, b>> \in Seq(Int) /\ Len(<<a, b>>) = 2
      BY <2>4
    <3> QED
      BY <3>2, <3>3, <3>4, Zenon
  <2>6. Holds(v)
    BY <1>4, HoldsIs
  <2> QED
    BY <1>4, <2>5, <2>6 DEF Stored, v, Integral, Narrow
<1> QED
  BY <1>2, <1>3, <1>4 DEF Dates

\* what is stored for a string, type by type
LEMMA StringValueIs ==
    ASSUME NEW col, NEW text
    PROVE  LET s == AsString(Item(text))
               b == Cut(Item(text), col.len)
           IN /\ col.type = "Varchar" => char_value(col, text) = Varchar(s, col.len)
              /\ col.type = "Longvarchar" => char_value(col, text) = Longvarchar(s, col.len)
              /\ col.type = "Char" => char_value(col, text) = Char(s, col.len)
              /\ col.type = "Binary" => binary_value(col, text) = Pad(b, col.len, 0)
              /\ col.type = "Varbinary" => binary_value(col, text) = b
              /\ col.type = "Longvarbinary" =>
                    binary_value(col, text) = IF AsString(b) = b THEN b
                                              ELSE Pad(Append(AsString(b), 0), Len(b), Junk)
              /\ col.type \in Blobs => binary_value(col, text) = Item(text)
  BY DEF char_value, binary_value, Blobs

LEMMA StoredIsString ==
    ASSUME column.type \in Types \ (Numeric \union Dates), NEW v \in Seq(Int),
           column.type \in {"Char", "Binary"} => Len(v) = column.len,
           column.type \in (Chars \union Binaries) \ {"Char", "Binary"} => Len(v) <= column.len
    PROVE  Stored(v)
<1>1. /\ column.type \notin Integral \union {"Year", "Date", "Time"}
      /\ column.type # "Datetime" /\ column.type # "Bit"
  BY DEF Numeric, Dates
<1>2. column.type \in Chars \union Binaries \union Blobs
  BY DEF Types
<1>3. Holds(v)
  BY <1>2, HoldsIs
<1> QED
  BY <1>1, <1>3 DEF Stored

LEMMA StringStored ==
    ASSUME column \in Columns, NEW text, Item(text) \in Seq(Int),
           column.type \in Types \ (Numeric \union Dates),
           column.type = "Char" => Len(AsString(Item(text))) <= column.len
    PROVE  /\ column.type \in Chars => Stored(char_value(column, text))
           /\ column.type \in Binaries \union Blobs => Stored(binary_value(column, text))
<1> DEFINE len == column.len
           s == AsString(Item(text))
           b == Cut(Item(text), len)
<1>1. len \in Nat
  BY ColumnIs
<1>2. s \in Seq(Int)
  BY AsStringIs
<1>3. b \in Seq(Int) /\ Len(b) <= len
  BY <1>1, CutIs
<1>4. ASSUME NEW n \in Nat PROVE Cut(Cut(s, n), len) \in Seq(Int) /\ Len(Cut(Cut(s, n), len)) <= len
  <2>1. Cut(s, n) \in Seq(Int)
    BY <1>2, CutIs
  <2> HIDE DEF len
  <2> QED
    BY <1>1, <2>1, CutIs
<1>5. /\ column.type = "Varchar" => char_value(column, text) = Varchar(s, len)
      /\ column.type = "Longvarchar" => char_value(column, text) = Longvarchar(s, len)
      /\ column.type = "Char" => char_value(column, text) = Char(s, len)
      /\ column.type = "Binary" => binary_value(column, text) = Pad(b, len, 0)
      /\ column.type = "Varbinary" => binary_value(column, text) = b
      /\ column.type = "Longvarbinary" =>
            binary_value(column, text) = IF AsString(b) = b THEN b
                                         ELSE Pad(Append(AsString(b), 0), Len(b), Junk)
      /\ column.type \in Blobs => binary_value(column, text) = Item(text)
  BY StringValueIs, Zenon
<1> HIDE DEF s, b
<1>6. CASE column.type \in {"Varchar", "Longvarchar"}
  <2> DEFINE n == IF column.type = "Varchar" THEN Len(s) % 2^CharBits ELSE Len(s) % 2^ShortBits
  <2>1. n \in Nat
    <3>1. 2^CharBits \in Nat /\ 2^CharBits > 0 /\ 2^ShortBits \in Nat /\ 2^ShortBits > 0
      BY ValuesAssumption, PowerIs
    <3>2. Len(s) \in Nat
      BY <1>2
    <3> QED
      BY <3>1, <3>2
  <2>2. char_value(column, text) = Cut(Cut(s, n), len)
    BY <1>5, <1>6 DEF Varchar, Longvarchar
  <2> HIDE DEF n
  <2>3. char_value(column, text) \in Seq(Int) /\ Len(char_value(column, text)) <= len
    BY <1>4, <2>1, <2>2
  <2>4. Stored(char_value(column, text))
    BY <1>6, <2>3, StoredIsString
  <2> QED
    BY <1>6, <2>4 DEF Binaries, Blobs
<1>7. CASE column.type = "Char"
  <2>1. Len(s) <= len
    BY <1>7 DEF s
  <2>2. char_value(column, text) = Pad(s, len, 32)
    BY <1>5, <1>7 DEF Char
  <2>3. Pad(s, len, 32) \in Seq(Int) /\ Len(Pad(s, len, 32)) = IF Len(s) < len THEN len ELSE Len(s)
    BY <1>1, <1>2, PadIs
  <2>4. Len(Pad(s, len, 32)) = len
    BY <1>1, <1>2, <2>1, <2>3
  <2>5. Stored(char_value(column, text))
    BY <1>7, <2>2, <2>3, <2>4, StoredIsString
  <2> QED
    BY <1>7, <2>5 DEF Binaries, Blobs
<1>8. CASE column.type = "Binary"
  <2>1. Pad(b, len, 0) \in Seq(Int) /\ Len(Pad(b, len, 0)) = IF Len(b) < len THEN len ELSE Len(b)
    BY <1>1, <1>3, PadIs
  <2>2. Len(Pad(b, len, 0)) = len
    BY <1>1, <1>3, <2>1
  <2>3. Stored(binary_value(column, text))
    BY <1>5, <1>8, <2>1, <2>2, StoredIsString
  <2> QED
    BY <1>8, <2>3 DEF Chars
<1>9. CASE column.type = "Varbinary"
  <2>1. Stored(binary_value(column, text))
    BY <1>3, <1>5, <1>9, StoredIsString
  <2> QED
    BY <1>9, <2>1 DEF Chars
<1>10. CASE column.type = "Longvarbinary"
  <2> DEFINE v == binary_value(column, text)
             a == Append(AsString(b), 0)
  <2>1. v = IF AsString(b) = b THEN b ELSE Pad(a, Len(b), Junk)
    BY <1>5, <1>10
  <2> HIDE DEF v
  <2>2. ASSUME AsString(b) = b PROVE v \in Seq(Int) /\ Len(v) <= len
    <3>1. v = b
      BY <2>1, <2>2
    <3> QED
      BY <1>3, <3>1
  <2>3. ASSUME AsString(b) # b PROVE v \in Seq(Int) /\ Len(v) <= len
    <3>1. AsString(b) \in Seq(Int) /\ Len(AsString(b)) < Len(b)
      BY <1>3, <2>3, AsStringIs
    <3>2. a \in Seq(Int) /\ Len(a) <= Len(b)
      BY <1>3, <3>1
    <3> HIDE DEF a
    <3>3. Len(b) \in Nat /\ Junk \in Int
      BY <1>3 DEF Junk
    <3>4. Pad(a, Len(b), Junk) \in Seq(Int)
          /\ Len(Pad(a, Len(b), Junk)) = IF Len(a) < Len(b) THEN Len(b) ELSE Len(a)
      BY <3>2, <3>3, PadIs
    <3>5. Len(a) \in Nat
      BY <3>2, LenProperties
    <3>6. Len(Pad(a, Len(b), Junk)) <= len
      BY <1>1, <1>3, <3>2, <3>3, <3>4, <3>5
    <3>7. v = Pad(a, Len(b), Junk)
      BY <2>1, <2>3
    <3> QED
      BY <3>4, <3>6, <3>7
  <2>4. v \in Seq(Int) /\ Len(v) <= len
    BY <2>2, <2>3
  <2>5. Stored(v)
    BY <1>10, <2>4, StoredIsString
  <2> QED
    BY <1>10, <2>5 DEF Chars, v
<1>11. CASE column.type \in Blobs
  <2>1. column.type \notin Chars \union Binaries
    BY <1>11 DEF Chars, Binaries, Blobs
  <2>2. Stored(binary_value(column, text))
    BY <1>5, <1>11, <2>1, StoredIsString DEF Chars, Binaries
  <2> QED
    BY <2>1, <2>2
<1> QED
  BY <1>6, <1>7, <1>8, <1>9, <1>10, <1>11 DEF Types, Chars, Binaries

\* Plan::Write() stores what the column can hold.
LEMMA ValueStored ==
    ASSUME column \in Columns, arch \in Archs, NEW text \in Texts[column.type],
           text.kind \in {"number", "date", "string"}
    PROVE  Stored(value(column, text))
<1>1. CASE column.type \in Numeric
  <2>1. column.type \notin Dates /\ text.kind = "number"
    BY <1>1, TextsAre DEF Numeric, Integral, Narrow, Dates
  <2>2. value(column, text) = number_value(column, text)
    BY <1>1 DEF value, Numeric, Integral, Narrow, Dates, Chars, Binaries, Blobs
  <2> QED
    BY <1>1, <2>1, <2>2, TextsAre, NumberStored
<1>2. CASE column.type \in Dates
  <2>1. value(column, text) = date_value(column, text)
    BY <1>2 DEF value, Numeric, Integral, Narrow, Dates, Chars, Binaries, Blobs
  <2>2. column.type \notin Numeric /\ text.kind = "date"
    BY <1>2, TextsAre DEF Numeric, Integral, Narrow, Dates
  <2>3. Item(text) \in Seq(Int)
    BY <2>2, TextsAre, ItemIs
  <2> QED
    BY <1>2, <2>1, <2>3, DateStored
<1>3. CASE column.type \in Types \ (Numeric \union Dates)
  <2>1. text.kind = "string"
    BY <1>3, TextsAre
  <2>2. Item(text) \in Seq(Int)
    BY <2>1, TextsAre, ItemIs
  <2>3. /\ column.type \in Chars => Stored(char_value(column, text))
        /\ column.type \in Binaries \union Blobs => Stored(binary_value(column, text))
    BY <1>3, <2>1, <2>2, TextsAre, StringStored
  <2>4. /\ column.type \in Chars => value(column, text) = char_value(column, text)
        /\ column.type \in Binaries \union Blobs => value(column, text) = binary_value(column, text)
    BY DEF value, Numeric, Integral, Narrow, Dates, Chars, Binaries, Blobs
  <2>5. column.type \in Chars \union Binaries \union Blobs
    BY <1>3 DEF Types
  <2> QED
    BY <2>3, <2>4, <2>5
<1> QED
  BY <1>1, <1>2, <1>3, ColumnIs

-----------------------------------------------------------------------------
(* The lengths of the buffers, and what each operation does to one.         *)

LEMMA LengthsIs ==
    ASSUME NEW s \in Seq(Entries)
    PROVE  \E g \in [0..Len(s) -> Int] :
              /\ g[0] = 0
              /\ \A n \in 1..Len(s) : g[n] = g[n - 1] + s[n].len
              /\ Lengths(s) = g[Len(s)]
<1> DEFINE N == Len(s)
           step == [n \in 1..N |-> [x \in Int |-> x + s[n].len]]
           Is(f) == f = [t \in SUBSET (1..N) |->
                           IF t = {} THEN 0 ELSE f[t \ {Max(t)}] + s[Max(t)].len]
           f == CHOOSE h : Is(h)
<1>1. N \in Nat /\ DOMAIN s = 1..N /\ \A n \in 1..N : s[n].len \in Int
  <2>1. N \in Nat /\ DOMAIN s = 1..N /\ \A n \in 1..N : s[n] \in Entries
    OBVIOUS
  <2>2. \A e \in Entries : e.len \in Int
    BY DEF Entries
  <2> HIDE DEF N
  <2> QED
    BY <2>1, <2>2
<1>2. Lengths(s) = f[1..N]
  BY <1>1 DEF Lengths, FoldLeft, MapThenFoldSet
<1>3. step \in [1..N -> [Int -> Int]]
  BY <1>1
<1>4. \E h : Is(h)
  <2>1. PICK h \in [SUBSET (1..N) -> Int] : IsFold(h, N, 0, step)
    <3> HIDE DEF N, step
    <3>1. 0 \in Int
      OBVIOUS
    <3> QED
      BY <1>1, <1>3, <3>1, FoldExists
  <2>2. ASSUME NEW t \in SUBSET (1..N)
        PROVE  h[t] = IF t = {} THEN 0 ELSE h[t \ {Max(t)}] + s[Max(t)].len
    <3>1. h[t] = IF t = {} THEN 0 ELSE step[Max(t)][h[t \ {Max(t)}]]
      BY <2>1, Zenon DEF IsFold
    <3>2. CASE t # {}
      <4>1. t \in SUBSET (0..N)
        OBVIOUS
      <4>2. Max(t) \in t
        BY <1>1, <3>2, <4>1, MaxIs
      <4>3. Max(t) \in 1..N /\ h[t \ {Max(t)}] \in Int
        BY <4>2
      <4> QED
        BY <3>1, <3>2, <4>3
    <3> QED
      BY <3>1, <3>2
  <2> QED
    BY <2>2
<1>5. Is(f)
  BY <1>4, Zenon
<1>6. f[{}] = 0
  BY <1>5
<1>7. ASSUME NEW t \in SUBSET (1..N), t # {}, f[t \ {Max(t)}] \in Int
      PROVE  f[t] = step[Max(t)][f[t \ {Max(t)}]]
  <2>1. t \in SUBSET (0..N)
    OBVIOUS
  <2>2. Max(t) \in 1..N
    BY <1>1, <1>7, <2>1, MaxIs
  <2>3. f[t] = f[t \ {Max(t)}] + s[Max(t)].len
    BY <1>5, <1>7
  <2> QED
    BY <1>7, <2>2, <2>3
<1>8. FoldsIn(f, Int, N, 0, step)
  BY <1>6, <1>7 DEF FoldsIn
<1> HIDE DEF f, step, N
<1>9. PICK g \in [0..N -> Int] : UpTo(g, N, 0, step) /\ g[N] = f[1..N]
  <2> DEFINE V == Int
  <2>1. 0 \in V
    OBVIOUS
  <2>2. N \in Nat /\ step \in [1..N -> [V -> V]] /\ FoldsIn(f, V, N, 0, step)
    BY <1>1, <1>3, <1>8, Zenon
  <2> HIDE DEF V
  <2>3. \E g \in [0..N -> V] : UpTo(g, N, 0, step) /\ g[N] = f[1..N]
    BY <2>1, <2>2, FoldIsLoop
  <2> QED
    BY <2>3 DEF V
<1>10. ASSUME NEW n \in 1..N PROVE g[n] = g[n - 1] + s[n].len
  <2>1. g[n] = step[n][g[n - 1]]
    BY <1>9 DEF UpTo
  <2>2. g[n - 1] \in Int
    BY <1>1
  <2> QED
    BY <2>1, <2>2 DEF step
<1> QED
  BY <1>2, <1>9, <1>10 DEF N, UpTo

LEMMA LengthsMore ==
    /\ Lengths(<< >>) = 0
    /\ \A s \in Seq(Entries), e \in Entries : Lengths(Append(s, e)) = Lengths(s) + e.len
<1>1. Lengths(<< >>) = 0
  <2>1. << >> \in Seq(Entries) /\ Len(<< >>) = 0
    OBVIOUS
  <2> QED
    BY <2>1, LengthsIs, Zenon
<1>2. ASSUME NEW s \in Seq(Entries), NEW e \in Entries
      PROVE  Lengths(Append(s, e)) = Lengths(s) + e.len
  <2> DEFINE t == Append(s, e)
             N == Len(s)
  <2>1. t \in Seq(Entries) /\ Len(t) = N + 1 /\ t[N + 1] = e /\ \A n \in 1..N : t[n] = s[n]
    OBVIOUS
  <2>2. N \in Nat
    OBVIOUS
  <2>3. PICK g \in [0..N -> Int] :
          /\ g[0] = 0 /\ \A n \in 1..N : g[n] = g[n - 1] + s[n].len
          /\ Lengths(s) = g[N]
    BY LengthsIs
  <2> HIDE DEF t
  <2>4. PICK h \in [0..Len(t) -> Int] :
          /\ h[0] = 0 /\ \A n \in 1..Len(t) : h[n] = h[n - 1] + t[n].len
          /\ Lengths(t) = h[Len(t)]
    BY <2>1, LengthsIs
  <2> HIDE DEF N
  <2>5. ASSUME NEW n \in 1..N, g[n - 1] = h[n - 1] PROVE g[n] = h[n]
    <3>1. n \in 1..Len(t) /\ t[n] = s[n]
      BY <2>1, <2>2
    <3>2. g[n] = g[n - 1] + s[n].len /\ h[n] = h[n - 1] + t[n].len
      BY <2>3, <2>4, <3>1
    <3> QED
      BY <2>5, <3>1, <3>2
  <2>6. SameSteps(g, h, N)
    BY <2>3, <2>4, <2>5 DEF SameSteps
  <2>7. g[N] = h[N]
    BY <2>2, <2>6, LoopsAgree
  <2>8. N + 1 \in 1..Len(t) /\ (N + 1) - 1 = N
    BY <2>1, <2>2
  <2>9. h[N + 1] = h[N] + e.len
    BY <2>1, <2>4, <2>8
  <2> QED
    BY <2>1, <2>3, <2>4, <2>7, <2>9 DEF t
<1> QED
  BY <1>1, <1>2

\* Nothing happens to the other buffers.
OnlyOf(b) == \A c \in Buffers : c # b => buf'[c] = buf[c]

\* The buffers, and what is known of one after each operation
LEMMA BufferType ==
    ASSUME BufferInv
    PROVE  /\ DOMAIN buf = Buffers
           /\ \A b \in Buffers :
                 /\ buf[b] \in [state : States, alloc_sz : Nat, sz : Nat,
                                buff : Blocks \union {Null}, todo : Nat]
                 /\ buf[b].sz \in Nat /\ buf[b].todo \in Nat
           /\ oom \in BOOLEAN /\ fault \in BOOLEAN /\ (fault => oom)
BY DEF BufferInv, BufferTypeOK, FaultsFollowOom

LEMMA OneChanges ==
    ASSUME BufferInv, NEW b \in Buffers, NEW R, buf' = [buf EXCEPT ![b] = R]
    PROVE  buf'[b] = R /\ OnlyOf(b)
BY BufferType DEF OnlyOf

LEMMA ConstructDoes ==
    ASSUME BufferInv, NEW b \in Buffers, construct(b)
    PROVE  /\ buf'[b].state = "constructed" /\ buf'[b].todo = 0 /\ buf[b].state = "none"
           /\ OnlyOf(b) /\ oom' = oom /\ fault' = fault
<1>1. PICK alloc \in Garbage : buf' = [buf EXCEPT ![b] = Buffer("constructed", alloc, 0, Null)]
  BY DEF construct
<1>2. buf'[b] = Buffer("constructed", alloc, 0, Null) /\ OnlyOf(b)
  BY <1>1, OneChanges
<1> QED
  BY <1>2 DEF construct, Buffer

LEMMA InitDoes ==
    ASSUME BufferInv, NEW b \in Buffers, NEW size \in Nat, init(b, size)
    PROVE  /\ buf'[b].state = "ready" /\ buf'[b].todo = 0 /\ buf'[b].sz = 0
           /\ OnlyOf(b) /\ (oom => oom')
<1>1. PICK m \in realloc(heap, buf[b].buff, size) :
          buf' = [buf EXCEPT ![b] = Buffer("ready", size, 0, m.buff)]
  BY DEF init
<1>2. buf'[b] = Buffer("ready", size, 0, m.buff) /\ OnlyOf(b)
  BY <1>1, OneChanges
<1>3. oom => oom'
  BY DEF init
<1> QED
  BY <1>2, <1>3 DEF Buffer

LEMMA FillDoes ==
    ASSUME BufferInv, NEW b \in Buffers, NEW len \in Nat, NEW looks \in BOOLEAN,
           fill(b, len, len, looks)
    PROVE  /\ buf'[b].state = "ready" /\ buf'[b].todo = 0
           /\ ~oom' => buf'[b].sz = buf[b].sz + len
           /\ OnlyOf(b) /\ (oom => oom')
<1> DEFINE B == buf[b]
           grows == B.sz + len > B.alloc_sz
           alloc == IF grows THEN Grown(B.alloc_sz, B.sz + len) ELSE B.alloc_sz
           sz(m) == IF grows /\ m.buff = Null /\ looks THEN B.sz ELSE B.sz + len
<1>1. PICK m : /\ buf' = [buf EXCEPT ![b] = Buffer("ready", alloc, sz(m), m.buff)]
               /\ oom' = (oom \/ (grows /\ m.buff = Null))
  BY DEF fill
<1>2. buf'[b] = Buffer("ready", alloc, sz(m), m.buff) /\ OnlyOf(b)
  <2> HIDE DEF alloc, sz
  <2> QED
    BY <1>1, OneChanges
<1>3. buf'[b].state = "ready" /\ buf'[b].todo = 0 /\ buf'[b].sz = sz(m)
  <2> HIDE DEF alloc, sz
  <2> QED
    BY <1>2 DEF Buffer
<1>4. ~oom' => sz(m) = B.sz + len
  BY <1>1
<1> QED
  BY <1>1, <1>2, <1>3, <1>4

LEMMA PassDoes ==
    ASSUME BufferInv, NEW b \in Buffers, NEW len \in Nat, pass(b, len)
    PROVE  /\ buf'[b].state = "ready"
           /\ ~oom' => buf'[b].sz + buf'[b].todo = buf[b].sz + len
           /\ OnlyOf(b) /\ (oom => oom')
<1> DEFINE B == buf[b]
           fits == B.sz + len < B.alloc_sz
           alloc == IF fits THEN B.alloc_sz ELSE Larger(B.alloc_sz)
           sz == IF fits THEN B.sz + len ELSE Restarted(B.sz, len)
           todo(m) == IF fits \/ m.buff = Null THEN 0 ELSE len
           R(m) == [state |-> "ready", buff |-> m.buff, alloc_sz |-> alloc,
                    sz |-> sz, todo |-> todo(m)]
<1>1. PICK m : /\ buf' = [buf EXCEPT ![b] = R(m)]
               /\ oom' = (oom \/ (~fits /\ m.buff = Null))
  BY DEF pass
<1>2. buf'[b] = R(m) /\ OnlyOf(b)
  <2> HIDE DEF R
  <2> QED
    BY <1>1, OneChanges
<1>3. buf'[b].state = "ready" /\ buf'[b].todo = todo(m) /\ buf'[b].sz = sz
  <2> HIDE DEF sz, todo, alloc
  <2> QED
    BY <1>2
<1>4. B.sz \in Nat
  BY BufferType
<1>5. ~oom' => sz + todo(m) = B.sz + len
  <2>1. CASE fits
    BY <1>4, <2>1
  <2>2. CASE ~fits
    <3> HIDE DEF fits
    <3>1. ~oom' => m.buff # Null
      BY <1>1, <2>2
    <3> QED
      BY <1>4, <2>2, <3>1 DEF Restarted
  <2> QED
    BY <2>1, <2>2
<1> QED
  BY <1>1, <1>2, <1>3, <1>5

LEMMA OutfDoes ==
    ASSUME BufferInv, NEW b \in Buffers, NEW len \in Nat, outf(b, len)
    PROVE  /\ buf'[b].state = "ready"
           /\ ~oom' => buf'[b].sz + buf'[b].todo = buf[b].sz + len
           /\ OnlyOf(b) /\ (oom => oom')
BY PassDoes DEF outf

LEMMA RetryDoes ==
    ASSUME BufferInv, NEW b \in Buffers, retry(b)
    PROVE  /\ buf'[b].state = "ready" /\ buf[b].todo > 0 /\ ~fault
           /\ ~oom' => buf'[b].sz + buf'[b].todo = buf[b].sz + buf[b].todo
           /\ OnlyOf(b) /\ (oom => oom')
<1>1. pass(b, buf[b].todo) /\ buf[b].todo > 0 /\ ~fault
  BY DEF retry
<1>2. buf[b].todo \in Nat
  BY BufferType
<1> QED
  BY <1>1, <1>2, PassDoes

LEMMA OverlayDoes ==
    ASSUME BufferInv, NEW b \in Buffers, NEW other \in Buffers, overlay(b, other)
    PROVE  /\ b # other
           /\ buf'[b].state = "overlaid" /\ buf'[b].todo = 0 /\ buf'[b].sz = buf[other].sz
           /\ buf'[other].state = "taken" /\ buf'[other].todo = buf[other].todo
           /\ buf[other].state = "ready"
           /\ \A c \in Buffers : c # b /\ c # other => buf'[c] = buf[c]
           /\ oom' = oom
<1> DEFINE O == buf[other]
           R == Buffer("overlaid", O.alloc_sz, O.sz, O.buff)
<1>1. /\ b # other /\ oom' = oom /\ O.state = "ready"
      /\ buf' = [buf EXCEPT ![b] = R, ![other].state = "taken", ![other].alloc_sz = 0]
  BY DEF overlay
<1>2. /\ DOMAIN buf = Buffers
      /\ O \in [state : States, alloc_sz : Nat, sz : Nat, buff : Blocks \union {Null}, todo : Nat]
  BY BufferType
<1>3. buf'[b] = R /\ \A c \in Buffers : c # b /\ c # other => buf'[c] = buf[c]
  <2> HIDE DEF R
  <2> QED
    BY <1>1, <1>2
<1>4. buf'[other] = [O EXCEPT !.state = "taken", !.alloc_sz = 0]
  <2> HIDE DEF R
  <2> QED
    BY <1>1, <1>2
<1>5. buf'[other].state = "taken" /\ buf'[other].todo = O.todo
  BY <1>2, <1>4
<1>6. R.state = "overlaid" /\ R.todo = 0 /\ R.sz = O.sz
  BY DEF Buffer
<1> HIDE DEF R
<1> QED
  BY <1>1, <1>3, <1>5, <1>6

LEMMA DestroyDoes ==
    ASSUME BufferInv, NEW b \in Buffers, destroy(b)
    PROVE  buf'[b] = NoBuffer /\ OnlyOf(b) /\ oom' = oom /\ ~fault'
<1>1. /\ ~fault
      /\ heap' = IF buf[b].alloc_sz > 0 THEN free(heap, buf[b].buff) ELSE heap
      /\ buf' = [buf EXCEPT ![b] = NoBuffer] /\ oom' = oom
      /\ fault' = (buf[b].alloc_sz > 0 /\ BadFree(buf[b].buff))
  BY DEF destroy, Idle
<1>2. /\ NoBuffer \in [state : States, alloc_sz : Nat, sz : Nat, buff : {Null}, todo : {0}]
      /\ BufferOK(NoBuffer)'
  BY DEF NoBuffer, Buffer, States, BufferOK
<1>3. buf[b].alloc_sz > 0 => ~BadFree(buf[b].buff)
  BY <1>1, <1>2, Released
<1>4. buf'[b] = NoBuffer /\ OnlyOf(b)
  BY <1>1, OneChanges
<1> QED
  BY <1>1, <1>3, <1>4

-----------------------------------------------------------------------------
(* What a step leaves of the invariant: the table, the request, the buffers,*)
(* what is shown.                                                           *)

\* What depends on the column and the architecture only is not changed by a step.
LEMMA number_valueKept ==
    ASSUME UNCHANGED <<arch, column>>, NEW col, NEW text
    PROVE  number_value(col, text)' = number_value(col, text)
<1>1. long' = long /\ ulong' = ulong
  BY DEF long, ulong
<1>2. \A w : flip64(w)' = flip64(w)
  BY DEF flip64
<1> QED
  BY <1>1, <1>2, Zenon DEF number_value

LEMMA RestKept ==
    ASSUME UNCHANGED <<arch, column>>
    PROVE  /\ \A v : Stored(v)' <=> Stored(v)
           /\ \A text : value(column, text)' = value(column, text)
           /\ \A v : ShownOf(v)' = ShownOf(v)
           /\ Rows' = Rows /\ (IsBlob' <=> IsBlob)
<1>1. ASSUME NEW v PROVE Stored(v)' <=> Stored(v)
  <2>1. Holds(v)' <=> Holds(v)
    BY Zenon DEF Holds
  <2> QED
    BY <2>1 DEF Stored
<1>2. ASSUME NEW text PROVE value(column, text)' = value(column, text)
  <2>1. \A col : number_value(col, text)' = number_value(col, text)
    BY number_valueKept
  <2> QED
    BY <2>1, Zenon DEF value
<1>3. ASSUME NEW v PROVE ShownOf(v)' = ShownOf(v)
  <2>1. \A w : flip64(w)' = flip64(w)
    BY DEF flip64
  <2>2. Printed(v)' = Printed(v)
    BY <2>1, Zenon DEF Printed
  <2> QED
    BY <2>2, Zenon DEF ShownOf
<1>4. Rows' = Rows /\ (IsBlob' <=> IsBlob)
  BY DEF Rows, IsBlob
<1> QED
  BY <1>1, <1>2, <1>3, <1>4

LEMMA TableKept ==
    ASSUME TableInv, UNCHANGED rest
    PROVE  TableInv'
<1>1. arch' = arch /\ column' = column /\ table' = table /\ said' = said
  BY DEF rest
<1>2. /\ \A v : Stored(v)' <=> Stored(v)
      /\ \A text : value(column, text)' = value(column, text)
      /\ Rows' = Rows
  BY <1>1, RestKept
<1>3. \A row, text : RowOK(row, text)' <=> RowOK(row, text)
  BY <1>1, <1>2 DEF RowOK
<1> QED
  BY <1>1, <1>2, <1>3 DEF TableInv

\* A row is put into the table: the new one, or another one.
LEMMA PutInv ==
    ASSUME TableInv, NEW k \in 1..Len(table) + 1, k <= Rows, NEW w, Put(k, w),
           w.row \in [null : BOOLEAN, v : Seq(Int)], RowOK(w.row, w.said)
    PROVE  TableInv'
<1> DEFINE N == Len(table)
           M == IF k = N + 1 THEN k ELSE N
           Row3 == [null : BOOLEAN, v : Seq(Int)]
           T == {w.said} \union {said[n] : n \in 1..N}
<1>1. /\ N \in Nat /\ N <= Rows /\ table \in Seq(Row3) /\ DOMAIN said = 1..N
      /\ \A n \in 1..N : RowOK(table[n], said[n])
      /\ arch \in Archs /\ column \in Columns
  BY DEF TableInv
<1>2. /\ arch' = arch /\ column' = column
      /\ table' = [n \in 1..N \union {k} |-> IF n = k THEN w.row ELSE table[n]]
      /\ said' = [n \in 1..N \union {k} |-> IF n = k THEN w.said ELSE said[n]]
  BY DEF Put
<1>3. M \in Nat /\ 1..N \union {k} = 1..M /\ M <= Rows
  BY <1>1
<1> HIDE DEF M
<1>4. \A n \in 1..M : n = k \/ n \in 1..N
  BY <1>3
<1>5. table' \in [1..M -> Row3] /\ \A n \in 1..M : table'[n] = IF n = k THEN w.row ELSE table[n]
  <2>1. w.row \in Row3
    OBVIOUS
  <2> HIDE DEF Row3
  <2>2. \A n \in 1..N : table[n] \in Row3
    BY <1>1, ElementOfSeq
  <2> HIDE DEF N
  <2>3. table' = [n \in 1..M |-> IF n = k THEN w.row ELSE table[n]]
    BY <1>2, <1>3
  <2>4. \A n \in 1..M : (IF n = k THEN w.row ELSE table[n]) \in Row3
    BY <1>4, <2>1, <2>2
  <2> QED
    BY <2>3, <2>4
<1>6. said' \in [1..M -> T] /\ \A n \in 1..M : said'[n] = IF n = k THEN w.said ELSE said[n]
  BY <1>2, <1>3, <1>4
<1> HIDE DEF T, Row3
<1>7. table' \in Seq(Row3) /\ Len(table') = M /\ said' \in Seq(T) /\ Len(said') = M
      /\ DOMAIN said' = 1..M
  BY <1>3, <1>5, <1>6
<1>8. ASSUME NEW n \in 1..M PROVE RowOK(table'[n], said'[n])
  <2>1. CASE n = k
    BY <1>5, <1>6, <2>1
  <2>2. CASE n # k
    <3>1. n \in 1..N /\ table'[n] = table[n] /\ said'[n] = said[n]
      BY <1>4, <1>5, <1>6, <2>2
    <3> QED
      BY <1>1, <3>1
  <2> QED
    BY <2>1, <2>2
<1>9. /\ \A v : Stored(v)' <=> Stored(v)
      /\ \A text : value(column, text)' = value(column, text)
      /\ Rows' = Rows
  BY <1>2, RestKept
<1>10. \A row, text : RowOK(row, text)' <=> RowOK(row, text)
  BY <1>2, <1>9 DEF RowOK
<1>11. \A n \in 1..M : RowOK(table[n], said[n])'
  BY <1>8, <1>10
<1> QED
  BY <1>1, <1>2, <1>3, <1>7, <1>9, <1>11 DEF TableInv, Row3

\* What Plan::Write() can put into the table is a row that its column can have.
LEMMA WrittenIs ==
    ASSUME TableInv, NEW text \in Texts[column.type], NEW k \in 1..Len(table) + 1,
           NEW w \in write(text, IF k \in DOMAIN table THEN {table[k]} ELSE {})
    PROVE  w.row \in [null : BOOLEAN, v : Seq(Int)] /\ RowOK(w.row, w.said)
<1> DEFINE old == IF k \in DOMAIN table THEN {table[k]} ELSE {}
           Row3 == [null : BOOLEAN, v : Seq(Int)]
<1>1. /\ column \in Columns /\ arch \in Archs /\ table \in Seq(Row3)
      /\ \A n \in 1..Len(table) : RowOK(table[n], said[n])
  BY DEF TableInv
<1>2. ASSUME NEW row \in old PROVE row \in Row3 /\ (~row.null => Stored(row.v))
  <2>1. k \in 1..Len(table) /\ row = table[k]
    BY <1>1, <1>2
  <2> HIDE DEF Row3, old
  <2>2. row \in Row3
    BY <1>1, <2>1, ElementOfSeq
  <2>3. RowOK(row, said[k])
    BY <1>1, <2>1
  <2> QED
    BY <2>2, <2>3 DEF RowOK
<1>3. ASSUME NEW v, Stored(v)
      PROVE  LET u == [row |-> Row(v), said |-> Operand]
             IN u.row \in Row3 /\ RowOK(u.row, u.said)
  <2>1. v \in Seq(Int)
    BY <1>3 DEF Stored
  <2> QED
    BY <1>3, <2>1 DEF Row, RowOK
<1>4. ASSUME NEW by \in {1, -1}, w \in UNION {Interpreted(row, by) : row \in old}
      PROVE  w.row \in Row3 /\ RowOK(w.row, w.said)
  <2>1. PICK row \in old : w \in Interpreted(row, by)
    BY <1>4
  <2>2. row \in Row3 /\ (~row.null => Stored(row.v))
    BY <1>2, <2>1
  <2>3. PICK v : Stored(v) /\ w = [row |-> Row(v), said |-> Operand]
    <3> HIDE DEF old
    <3> QED
      BY <1>1, <2>1, <2>2, InterpretedStored
  <2> QED
    BY <1>3, <2>3
<1>5. ASSUME NEW n \in 0..High("Bit"), column.type \in Numeric,
             w \in {[row |-> Row(Direct(column, n)), said |-> Operand]}
      PROVE  w.row \in Row3 /\ RowOK(w.row, w.said)
  <2>1. Stored(Direct(column, n))
    BY <1>1, <1>5, DirectStored
  <2> QED
    BY <1>3, <1>5, <2>1
<1>6. Now \in 0..High("Bit") /\ NextId \in 0..High("Bit")
  <2>1. High("Bit") = 2^(2 * IntBits) - 1
    BY DEF High, Bits, Signed
  <2> QED
    BY <2>1, ValuesAssumption
<1>7. /\ text.kind \in {"@++", "@--", "@null", "@time", "@autoinc",
                        "number", "date", "string"}
      /\ text.kind \in {"@time", "@autoinc", "number"} => column.type \in Numeric
  BY <1>1, TextsAre
<1> HIDE DEF old
<1>8. CASE text.kind = "@++"
  <2>1. w \in UNION {Interpreted(row, 1) : row \in old}
    BY <1>8, Zenon DEF write, old
  <2> QED
    BY <1>4, <2>1
<1>9. CASE text.kind = "@--"
  <2>1. w \in UNION {Interpreted(row, -1) : row \in old}
    BY <1>9 DEF write, old
  <2> QED
    BY <1>4, <2>1
<1>10. CASE text.kind = "@null"
  <2>1. w = [row |-> NullRow, said |-> Operand]
    BY <1>10 DEF write
  <2> QED
    BY <2>1 DEF NullRow, RowOK
<1>11. CASE text.kind = "@time"
  <2>1. w \in {[row |-> Row(Direct(column, Now)), said |-> Operand]}
    BY <1>11 DEF write
  <2> QED
    BY <1>5, <1>6, <1>7, <1>11, <2>1
<1>12. CASE text.kind = "@autoinc"
  <2>1. w \in {[row |-> Row(Direct(column, NextId)), said |-> Operand]}
    BY <1>12 DEF write
  <2> QED
    BY <1>5, <1>6, <1>7, <1>12, <2>1
<1>13. CASE text.kind \in {"number", "date", "string"}
  <2>1. w = [row |-> Row(value(column, text)), said |-> text]
    BY <1>13 DEF write
  <2>2. Stored(value(column, text))
    BY <1>1, <1>13, ValueStored
  <2>3. value(column, text) \in Seq(Int)
    BY <2>2 DEF Stored
  <2> QED
    BY <2>1, <2>2, <2>3 DEF Row, RowOK
<1> QED
  BY <1>7, <1>8, <1>9, <1>10, <1>11, <1>12, <1>13

\* What a step may do to the buffers
BufferNext == (\E b \in Buffers : BufferStep(b)) \/ UNCHANGED bvars

\* While no request is executed, a step that changes the table only
LEMMA IdleInv ==
    ASSUME ValuesInv, TableInv', req.pc = "idle",
           UNCHANGED <<bvars, arch, column, req, blob, shown>>
    PROVE  ValuesInv' /\ BufferNext
<1>1. req = NoRequest /\ shown = << >> /\ blob = << >>
  <2>1. \A r \in Requests : r.pc # "idle"
    BY DEF Requests, PCs
  <2> QED
    BY <2>1 DEF ValuesInv, RequestInv, ShownInv
<1>2. BufferInv'
  BY BufferStutterInv DEF ValuesInv
<1>3. RequestInv'
  BY <1>1 DEF RequestInv
<1>4. heap' = heap /\ buf' = buf /\ fault' = fault /\ oom' = oom /\ req' = req
  BY DEF bvars
<1>5. (IsBlob' <=> IsBlob)
  BY RestKept
<1>6. StateInv'
  <2>1. StateInv
    BY DEF ValuesInv
  <2>2. \A b \in Buffers : BufferAt(b) => BufferAt(b)'
    BY <1>4, <1>5 DEF BufferAt, StatesAt
  <2> QED
    BY <1>4, <2>1, <2>2 DEF StateInv
<1>7. SizeInv'
  <2>1. SizeInv
    BY DEF ValuesInv
  <2> QED
    BY <1>4, <2>1 DEF SizeInv
<1>8. ShownInv'
  <2>1. shown' = << >> /\ blob' = << >> /\ << >> \in Seq(Entries) /\ << >> \in Seq(Int)
        /\ Len(<< >>) = 0 /\ req'.pc = "idle"
    BY <1>1, <1>4
  <2>2. \A i \in 1..0 : EntryOK(shown[i], i)'
    OBVIOUS
  <2>3. BlobInv'
    BY <2>1 DEF BlobInv
  <2> QED
    BY <2>1, <2>2, <2>3 DEF ShownInv
<1> QED
  BY <1>2, <1>3, <1>6, <1>7, <1>8 DEF ValuesInv, BufferNext

LEMMA PostInv ==
    ASSUME ValuesInv, NEW text \in Texts[column.type], NEW k \in 1..Len(table) + 1, Post(text, k)
    PROVE  ValuesInv' /\ BufferNext
<1>1. PICK w \in write(text, IF k \in DOMAIN table THEN {table[k]} ELSE {}) : Put(k, w)
  BY DEF Post
<1>2. TableInv /\ k <= Rows /\ req.pc = "idle"
  BY DEF ValuesInv, Post
<1>3. TableInv'
  BY <1>1, <1>2, WrittenIs, PutInv
<1>4. UNCHANGED <<bvars, arch, column, req, blob, shown>>
  BY <1>1 DEF Put
<1> QED
  BY <1>2, <1>3, <1>4, IdleInv

LEMMA OtherClientInv ==
    ASSUME ValuesInv, OtherClient(Len(table) + 1)
    PROVE  ValuesInv' /\ BufferNext
<1> DEFINE k == Len(table) + 1
           w == [row |-> NullRow, said |-> Operand]
<1>1. TableInv /\ k <= Rows /\ req.pc = "idle" /\ Put(k, w)
  BY DEF ValuesInv, OtherClient
<1>2. k \in 1..Len(table) + 1
  BY <1>1 DEF TableInv
<1>3. w.row \in [null : BOOLEAN, v : Seq(Int)] /\ RowOK(w.row, w.said)
  BY DEF NullRow, RowOK
<1> HIDE DEF k, w
<1>4. TableInv'
  BY <1>1, <1>2, <1>3, PutInv
<1>5. UNCHANGED <<bvars, arch, column, req, blob, shown>>
  BY <1>1 DEF Put
<1> QED
  BY <1>1, <1>4, <1>5, IdleInv

\* The states of the two buffers, step by step
LEMMA StatesAre ==
    /\ \A pc \in {"idle", "result", "init", "construct"} : PageStates(pc) = {"none"}
    /\ \A pc \in {"hook", "build"} : PageStates(pc) = {"constructed"}
    /\ \A pc \in {"row", "out"} : PageStates(pc) = {"ready"}
    /\ PageStates("send") = {"ready", "overlaid"}
    /\ \A pc \in {"delete", "return"} : PageStates(pc) = {"constructed", "ready", "overlaid"}
    /\ \A pc \in {"idle", "result", "return"} : ContentsStates(pc) = {"none"}
    /\ ContentsStates("init") = {"constructed"}
    /\ \A pc \in {"construct", "hook", "build", "row", "out"} : ContentsStates(pc) = {"ready"}
    /\ \A pc \in {"send", "delete"} : ContentsStates(pc) = {"ready", "taken"}
    /\ \A pc : StatesAt("page", pc) = PageStates(pc)
    /\ \A pc : StatesAt("contents", pc) = IF IsBlob THEN ContentsStates(pc) ELSE {"none"}
    /\ \A b, pc : b # "page" /\ b # "contents" => StatesAt(b, pc) = {"none"}
BY DEF PageStates, ContentsStates, StatesAt

LEMMA TwoBuffers == "page" \in Buffers /\ "contents" \in Buffers
BY ValuesAssumption

\* A request that is being executed
LEMMA RequestIs ==
    ASSUME RequestInv, req.pc # "idle"
    PROVE  /\ req \in Requests
           /\ Len(req.rows) \in Nat /\ Len(req.rows) > 0
           /\ \A n \in 1..Len(req.rows) : req.rows[n] \in 1..Len(table)
           /\ req.at \in 1..Len(req.rows) + 1
           /\ ~req.scan => Len(req.rows) = 1
           /\ req.esc # "none" => column.type \notin Numeric \union Dates
           /\ req.pc = "out" => req.at <= Len(req.rows)
           /\ req.pc \in {"result", "init", "construct", "hook", "build"} => req.at = 1
           /\ req.pc \in {"result", "init", "hook"} => IsBlob
           /\ req.pc = "hook" => ~req.scan
<1>1. req # NoRequest
  BY DEF NoRequest
<1>2. req \in Requests
  BY <1>1 DEF RequestInv
<1>3. Len(req.rows) \in Nat
  BY <1>2, LenProperties DEF Requests
<1> QED
  BY <1>1, <1>2, <1>3 DEF RequestInv

LEMMA NoRequestIs ==
    ASSUME RequestInv, req.pc = "idle"
    PROVE  req = NoRequest
<1>1. \A r \in Requests : r.pc # "idle"
  BY DEF Requests, PCs
<1> QED
  BY <1>1 DEF RequestInv

\* the row that is read
LEMMA CurrentIs ==
    ASSUME TableInv, RequestInv, req.pc # "idle", req.at <= Len(req.rows)
    PROVE  /\ req.rows[req.at] \in 1..Len(table)
           /\ Current \in [null : BOOLEAN, v : Seq(Int)]
           /\ Current.null => Current.v = << >>
           /\ ~Current.null => Stored(Current.v)
           /\ Current.v \in Seq(Int) /\ Len(Current.v) \in Nat
<1>1. /\ req.at \in 1..Len(req.rows) + 1 /\ Len(req.rows) \in Nat
      /\ \A n \in 1..Len(req.rows) : req.rows[n] \in 1..Len(table)
  BY RequestIs
<1>2. req.rows[req.at] \in 1..Len(table)
  BY <1>1
<1>3. table \in Seq([null : BOOLEAN, v : Seq(Int)])
      /\ \A k \in 1..Len(table) : RowOK(table[k], said[k])
  BY DEF TableInv
<1>4. Current \in [null : BOOLEAN, v : Seq(Int)]
  BY <1>2, <1>3, ElementOfSeq DEF Current
<1>5. RowOK(Current, said[req.rows[req.at]])
  BY <1>2, <1>3 DEF Current
<1>6. (Current.null => Current.v = << >>) /\ (~Current.null => Stored(Current.v))
  BY <1>5 DEF RowOK
<1>7. Current.v \in Seq(Int)
  BY <1>4
<1>8. Len(Current.v) \in Nat
  BY <1>7, LenProperties
<1> QED
  BY <1>2, <1>4, <1>6, <1>7, <1>8

\* The request goes on.
LEMMA GoToInv ==
    ASSUME RequestInv, req.pc # "idle", UNCHANGED rest, NEW pc \in PCs, GoTo(pc),
           pc = "out" => req.at <= Len(req.rows),
           pc \in {"result", "init", "construct", "hook", "build"} => req.at = 1,
           pc \in {"result", "init", "hook"} => IsBlob,
           pc = "hook" => ~req.scan
    PROVE  /\ RequestInv' /\ req'.pc = pc /\ req'.rows = req.rows /\ req'.at = req.at
           /\ req'.scan = req.scan /\ req'.raw = req.raw /\ req'.esc = req.esc
<1>1. req \in Requests
  BY RequestIs
<1>2. req' = [req EXCEPT !.pc = pc]
  BY DEF GoTo
<1>3. /\ req'.pc = pc /\ req'.rows = req.rows /\ req'.at = req.at
      /\ req'.scan = req.scan /\ req'.raw = req.raw /\ req'.esc = req.esc
      /\ req' \in Requests
  BY <1>1, <1>2 DEF Requests
<1>4. column' = column /\ table' = table /\ (IsBlob' <=> IsBlob)
  BY DEF rest, IsBlob
<1>5. /\ Len(req.rows) > 0
      /\ \A n \in 1..Len(req.rows) : req.rows[n] \in 1..Len(table)
      /\ req.at \in 1..Len(req.rows) + 1
      /\ ~req.scan => Len(req.rows) = 1
      /\ req.esc # "none" => column.type \notin Numeric \union Dates
  BY RequestIs
<1> QED
  BY <1>3, <1>4, <1>5, Zenon DEF RequestInv

LEMMA DoneInv ==
    ASSUME RequestInv, req.pc = "out", UNCHANGED rest, Done
    PROVE  /\ RequestInv' /\ req'.pc = "row" /\ req'.rows = req.rows /\ req'.at = req.at + 1
           /\ req'.scan = req.scan /\ req'.raw = req.raw /\ req'.esc = req.esc
<1>1. req \in Requests
  BY RequestIs
<1>2. req' = [req EXCEPT !.pc = "row", !.at = req.at + 1]
  BY DEF Done
<1>3. /\ req'.pc = "row" /\ req'.rows = req.rows /\ req'.at = req.at + 1
      /\ req'.scan = req.scan /\ req'.raw = req.raw /\ req'.esc = req.esc
      /\ req' \in Requests
  <2>1. req.at + 1 \in Nat /\ "row" \in PCs
    BY <1>1 DEF Requests, PCs
  <2> QED
    BY <1>1, <1>2, <2>1 DEF Requests
<1>4. column' = column /\ table' = table /\ (IsBlob' <=> IsBlob)
  BY DEF rest, IsBlob
<1>5. /\ Len(req.rows) > 0 /\ Len(req.rows) \in Nat
      /\ \A n \in 1..Len(req.rows) : req.rows[n] \in 1..Len(table)
      /\ req.at \in 1..Len(req.rows) + 1 /\ req.at <= Len(req.rows)
      /\ ~req.scan => Len(req.rows) = 1
      /\ req.esc # "none" => column.type \notin Numeric \union Dates
  BY RequestIs
<1>6. req'.at \in 1..Len(req.rows) + 1
  BY <1>3, <1>5
<1> QED
  BY <1>3, <1>4, <1>5, <1>6, Zenon DEF RequestInv

\* A buffer to which nothing happens, and one to which something does
LEMMA KeptAt ==
    ASSUME NEW b \in Buffers, BufferAt(b), buf'[b] = buf[b], buf[b].todo = 0, UNCHANGED rest,
           buf[b].state \in StatesAt(b, req'.pc)
    PROVE  BufferAt(b)'
<1>1. IsBlob' <=> IsBlob
  BY DEF rest, IsBlob
<1>2. StatesAt(b, req.pc)' = StatesAt(b, req'.pc)
  BY <1>1 DEF StatesAt
<1> QED
  BY <1>2 DEF BufferAt, NoBuffer

LEMMA MovedAt ==
    ASSUME NEW b \in Buffers, UNCHANGED rest,
           buf'[b].state \in StatesAt(b, req'.pc), buf'[b].state = "none" => buf'[b] = NoBuffer,
           b # "page" \/ req'.pc # "row" => buf'[b].todo = 0
    PROVE  BufferAt(b)'
<1>1. IsBlob' <=> IsBlob
  BY DEF rest, IsBlob
<1>2. StatesAt(b, req.pc)' = StatesAt(b, req'.pc)
  BY <1>1 DEF StatesAt
<1> QED
  BY <1>2 DEF BufferAt, NoBuffer

\* All buffers
LEMMA StateStep ==
    ASSUME StateInv, ~fault, UNCHANGED rest, BufferAt("page")', BufferAt("contents")',
           \A b \in Buffers : b # "page" /\ b # "contents" => buf'[b] = buf[b],
           req'.pc # "idle" \/ ~fault'
    PROVE  StateInv'
<1>1. ASSUME NEW b \in Buffers, b # "page", b # "contents" PROVE BufferAt(b)'
  <2>1. BufferAt(b) /\ buf'[b] = buf[b]
    BY <1>1 DEF StateInv
  <2>2. StatesAt(b, req.pc) = {"none"} /\ StatesAt(b, req'.pc) = {"none"}
    BY <1>1, StatesAre
  <2>3. buf[b].todo = 0
    BY <1>1, <2>1 DEF BufferAt
  <2>4. buf[b].state \in StatesAt(b, req'.pc)
    BY <2>1, <2>2 DEF BufferAt
  <2> QED
    BY <2>1, <2>3, <2>4, KeptAt
<1>2. \A b \in Buffers : BufferAt(b)'
  BY <1>1
<1> QED
  BY <1>2 DEF StateInv

\* What is shown already
LEMMA EntriesKept ==
    ASSUME UNCHANGED rest, req'.scan = req.scan, req'.raw = req.raw, req'.esc = req.esc
    PROVE  \A e, i : EntryOK(e, i)' <=> EntryOK(e, i)
<1>1. column' = column /\ arch' = arch /\ table' = table
  BY DEF rest
<1>2. \A v : ShownOf(v)' = ShownOf(v)
  BY <1>1, RestKept
<1>3. IsBlob' <=> IsBlob
  BY <1>1, RestKept
<1>4. \A i : Unknown(i)' <=> Unknown(i)
  BY <1>1, <1>3 DEF Unknown
<1> QED
  BY <1>1, <1>2, <1>4 DEF EntryOK

\* The whole of a step of a request
LEMMA StepInv ==
    ASSUME ValuesInv, UNCHANGED rest, ~fault,
           (\E b \in Buffers : BufferStep(b)) \/ UNCHANGED bvars,
           RequestInv', BufferAt("page")', BufferAt("contents")',
           \A b \in Buffers : b # "page" /\ b # "contents" => buf'[b] = buf[b],
           req'.pc # "idle" \/ ~fault', SizeInv', ShownInv'
    PROVE  ValuesInv' /\ BufferNext
<1>1. BufferInv'
  BY BufferStepInv, BufferStutterInv DEF ValuesInv
<1>2. TableInv'
  BY TableKept DEF ValuesInv
<1>3. StateInv'
  BY StateStep DEF ValuesInv
<1> QED
  BY <1>1, <1>2, <1>3 DEF ValuesInv, BufferNext

\* The buffers while nothing is being written again
LEMMA AtIs ==
    ASSUME ValuesInv, Idle
    PROVE  /\ ~fault
           /\ \A b \in Buffers : /\ BufferAt(b) /\ buf[b].todo = 0
                                 /\ buf[b].state \in StatesAt(b, req.pc)
BY DEF Idle, ValuesInv, StateInv, BufferAt

\* A page that shows nothing yet
LEMMA EmptyShown ==
    ASSUME shown' = << >>, blob' = << >>,
           req'.pc \in {"idle", "result", "init", "construct", "hook"}
    PROVE  ShownInv'
<1>1. << >> \in Seq(Entries) /\ << >> \in Seq(Int) /\ Len(<< >>) = 0
  OBVIOUS
<1>2. \A i \in 1..0 : EntryOK(shown[i], i)'
  OBVIOUS
<1>3. BlobInv'
  BY DEF BlobInv
<1> QED
  BY <1>1, <1>2, <1>3 DEF ShownInv

\* A page to which nothing is added, and one to which a value is
LEMMA ShownKept ==
    ASSUME ValuesInv, UNCHANGED rest, shown' = shown, blob' \in Seq(Int),
           req'.scan = req.scan, req'.raw = req.raw, req'.esc = req.esc,
           req'.pc \in {"row", "out", "send", "delete", "return"}, IsBlob => BlobInv'
    PROVE  ShownInv'
<1>1. shown \in Seq(Entries) /\ \A i \in 1..Len(shown) : EntryOK(shown[i], i)
  BY DEF ValuesInv, ShownInv
<1>2. \A e, i : EntryOK(e, i)' <=> EntryOK(e, i)
  BY EntriesKept
<1>3. IsBlob' <=> IsBlob
  BY DEF rest, IsBlob
<1> QED
  BY <1>1, <1>2, <1>3 DEF ShownInv

LEMMA ShownMore ==
    ASSUME ValuesInv, UNCHANGED rest, NEW e \in Entries, shown' = Append(shown, e), blob' = blob,
           req'.scan = req.scan, req'.raw = req.raw, req'.esc = req.esc,
           req'.pc \in {"row", "send"}, EntryOK(e, Len(shown) + 1)
    PROVE  ShownInv'
<1>1. /\ shown \in Seq(Entries) /\ blob \in Seq(Int)
      /\ \A i \in 1..Len(shown) : EntryOK(shown[i], i)
  BY DEF ValuesInv, ShownInv
<1>2. \A x, i : EntryOK(x, i)' <=> EntryOK(x, i)
  BY EntriesKept
<1>3. /\ shown' \in Seq(Entries) /\ Len(shown') = Len(shown) + 1 /\ Len(shown) \in Nat
      /\ shown'[Len(shown) + 1] = e
      /\ \A i \in 1..Len(shown) : shown'[i] = shown[i]
  BY <1>1, AppendProperties, LenProperties
<1>4. ASSUME NEW i \in 1..Len(shown') PROVE EntryOK(shown'[i], i)
  <2>1. i \in 1..Len(shown) \/ i = Len(shown) + 1
    BY <1>3
  <2> QED
    BY <1>1, <1>3, <2>1
<1>5. BlobInv'
  <2>1. shown' # << >>
    <3>1. Len(<< >>) = 0
      OBVIOUS
    <3> QED
      BY <1>3, <3>1
  <2> QED
    BY <2>1 DEF BlobInv
<1>6. \A i \in 1..Len(shown') : EntryOK(shown[i], i)'
  BY <1>2, <1>4
<1> QED
  BY <1>1, <1>3, <1>5, <1>6 DEF ShownInv

LEMMA GetInv ==
    ASSUME ValuesInv, NEW k \in DOMAIN table, NEW scan \in BOOLEAN, NEW raw \in BOOLEAN,
           NEW esc \in Escapes, Get(k, scan, raw, esc)
    PROVE  ValuesInv' /\ BufferNext
<1> DEFINE pc == IF IsBlob THEN "result" ELSE "construct"
           N == Len(table)
           rows == IF scan THEN [n \in 1..N |-> n] ELSE <<k>>
<1>1. /\ req.pc = "idle" /\ Idle
      /\ esc # "none" => column.type \notin Numeric \union Dates
      /\ req' = [pc |-> pc, rows |-> rows, at |-> 1, scan |-> scan, raw |-> raw, esc |-> esc]
      /\ UNCHANGED bvars /\ UNCHANGED rest /\ blob' = blob /\ shown' = shown
  BY DEF Get, At, Same, Keep
<1>2. N \in Nat /\ k \in 1..N /\ DOMAIN table = 1..N
  BY DEF ValuesInv, TableInv
<1>3. rows \in Seq(Nat) /\ Len(rows) > 0 /\ \A n \in 1..Len(rows) : rows[n] \in 1..N
      /\ (~scan => Len(rows) = 1) /\ Len(rows) \in Nat
  <2>1. CASE scan
    <3>1. rows = [n \in 1..N |-> n]
      BY <2>1
    <3>2. rows \in Seq(Nat) /\ Len(rows) = N /\ \A n \in 1..N : rows[n] = n
      <4> HIDE DEF N
      <4> DEFINE all == [n \in 1..N |-> n]
      <4>1. all \in [1..N -> Nat] /\ \A n \in 1..N : all[n] = n
        OBVIOUS
      <4> HIDE DEF all
      <4>2. all \in Seq(Nat) /\ Len(all) = N
        BY <1>2, <4>1
      <4>3. rows = all
        BY <3>1, Zenon DEF all
      <4> HIDE DEF rows
      <4> QED
        BY <4>1, <4>2, <4>3
    <3> HIDE DEF rows, N
    <3> QED
      BY <1>2, <2>1, <3>2
  <2>2. CASE ~scan
    BY <1>2, <2>2
  <2> QED
    BY <2>1, <2>2
<1> HIDE DEF rows
<1>4. pc \in PCs /\ pc \in {"result", "construct"} /\ (pc = "result" => IsBlob)
  BY DEF PCs
<1>5. /\ req'.pc = pc /\ req'.rows = rows /\ req'.at = 1
      /\ req'.scan = scan /\ req'.raw = raw /\ req'.esc = esc
  BY <1>1
<1>6. req' \in Requests
  BY <1>1, <1>3, <1>4 DEF Requests
<1> HIDE DEF pc
<1>7. column' = column /\ table' = table /\ (IsBlob' <=> IsBlob)
  BY <1>1 DEF rest, IsBlob
<1>8. RequestInv'
  <2>1. 1 \in 1..Len(rows) + 1
    BY <1>3
  <2> QED
    BY <1>1, <1>3, <1>4, <1>5, <1>6, <1>7, <2>1 DEF RequestInv
<1>9. /\ ~fault
      /\ \A b \in Buffers : /\ BufferAt(b) /\ buf[b].todo = 0
                            /\ buf[b].state \in StatesAt(b, "idle")
  BY <1>1, AtIs
<1>10. buf' = buf /\ fault' = fault /\ oom' = oom
  BY <1>1 DEF bvars
<1>11. BufferAt("page")' /\ BufferAt("contents")'
  <2>1. StatesAt("page", "idle") = {"none"} /\ StatesAt("page", pc) = {"none"}
    BY <1>4, StatesAre
  <2>2. StatesAt("contents", "idle") = {"none"}
    BY StatesAre
  <2>3. pc = "result" => StatesAt("contents", pc) = {"none"}
    BY StatesAre
  <2>4. pc = "construct" => StatesAt("contents", pc) = {"none"}
    <3>1. pc = "construct" => ~IsBlob
      BY DEF pc
    <3> QED
      BY <3>1, StatesAre
  <2> QED
    BY <1>1, <1>4, <1>5, <1>9, <1>10, <2>1, <2>2, <2>3, <2>4, TwoBuffers, KeptAt
<1>12. ShownInv'
  <2>1. shown = << >> /\ blob = << >>
    BY <1>1 DEF ValuesInv, ShownInv
  <2> QED
    BY <1>1, <1>4, <1>5, <2>1, EmptyShown
<1>13. SizeInv'
  <2>1. SizeInv
    BY DEF ValuesInv
  <2> QED
    BY <1>1, <1>4, <1>5, <1>10, <2>1 DEF SizeInv
<1>14. req'.pc # "idle"
  BY <1>4, <1>5
<1> QED
  BY <1>1, <1>8, <1>9, <1>10, <1>11, <1>12, <1>13, <1>14, StepInv

-----------------------------------------------------------------------------
(* One lemma for each action of a request.                                  *)

LEMMA NewContentsInv ==
    ASSUME ValuesInv, NewContents
    PROVE  ValuesInv' /\ BufferNext
<1>1. /\ req.pc = "result" /\ Idle /\ construct("contents") /\ GoTo("init")
      /\ UNCHANGED rest /\ blob' = blob /\ shown' = shown
  BY DEF NewContents, At, Keep
<1>2. RequestInv /\ BufferInv /\ SizeInv /\ shown = << >> /\ blob = << >>
  BY <1>1 DEF ValuesInv, ShownInv
<1>3. IsBlob /\ req.at = 1
  BY <1>1, <1>2, RequestIs
<1>4. RequestInv' /\ req'.pc = "init"
  BY <1>1, <1>2, <1>3, GoToInv DEF PCs
<1>5. /\ buf'["contents"].state = "constructed" /\ buf'["contents"].todo = 0
      /\ OnlyOf("contents") /\ oom' = oom /\ fault' = fault
  BY <1>1, <1>2, TwoBuffers, ConstructDoes
<1>6. /\ ~fault
      /\ \A b \in Buffers : /\ BufferAt(b) /\ buf[b].todo = 0
                            /\ buf[b].state \in StatesAt(b, "result")
  BY <1>1, AtIs
<1>7. buf'["page"] = buf["page"]
      /\ \A b \in Buffers : b # "page" /\ b # "contents" => buf'[b] = buf[b]
  BY <1>5, TwoBuffers DEF OnlyOf
<1>8. BufferAt("page")'
  <2>1. StatesAt("page", "result") = {"none"} /\ StatesAt("page", "init") = {"none"}
    BY StatesAre
  <2> QED
    BY <1>1, <1>4, <1>6, <1>7, <2>1, TwoBuffers, KeptAt
<1>9. BufferAt("contents")'
  <2>1. StatesAt("contents", "init") = {"constructed"}
    BY <1>3, StatesAre
  <2> QED
    BY <1>1, <1>4, <1>5, <2>1, TwoBuffers, MovedAt
<1>10. ShownInv'
  BY <1>1, <1>2, <1>4, EmptyShown
<1>11. SizeInv'
  BY <1>4, <1>5 DEF SizeInv
<1>12. \E b \in Buffers : BufferStep(b)
  BY <1>1, TwoBuffers DEF BufferStep
<1> QED
  BY <1>1, <1>4, <1>6, <1>7, <1>8, <1>9, <1>10, <1>11, <1>12, StepInv

LEMMA InitContentsInv ==
    ASSUME ValuesInv, InitContents
    PROVE  ValuesInv' /\ BufferNext
<1>1. /\ req.pc = "init" /\ Idle /\ init("contents", InitSize) /\ GoTo("construct")
      /\ UNCHANGED rest /\ blob' = blob /\ shown' = shown
  BY DEF InitContents, At, Keep
<1>2. RequestInv /\ BufferInv /\ shown = << >> /\ blob = << >> /\ InitSize \in Nat
  BY <1>1, ValuesAssumption DEF ValuesInv, ShownInv
<1>3. IsBlob /\ req.at = 1
  BY <1>1, <1>2, RequestIs
<1>4. RequestInv' /\ req'.pc = "construct"
  BY <1>1, <1>2, <1>3, GoToInv DEF PCs
<1>5. /\ buf'["contents"].state = "ready" /\ buf'["contents"].todo = 0
      /\ buf'["contents"].sz = 0 /\ OnlyOf("contents")
  BY <1>1, <1>2, TwoBuffers, InitDoes
<1>6. /\ ~fault
      /\ \A b \in Buffers : /\ BufferAt(b) /\ buf[b].todo = 0
                            /\ buf[b].state \in StatesAt(b, "init")
  BY <1>1, AtIs
<1>7. buf'["page"] = buf["page"]
      /\ \A b \in Buffers : b # "page" /\ b # "contents" => buf'[b] = buf[b]
  BY <1>5, TwoBuffers DEF OnlyOf
<1>8. BufferAt("page")'
  <2>1. StatesAt("page", "init") = {"none"} /\ StatesAt("page", "construct") = {"none"}
    BY StatesAre
  <2> QED
    BY <1>1, <1>4, <1>6, <1>7, <2>1, TwoBuffers, KeptAt
<1>9. BufferAt("contents")'
  <2>1. StatesAt("contents", "construct") = {"ready"}
    BY <1>3, StatesAre
  <2> QED
    BY <1>1, <1>4, <1>5, <2>1, TwoBuffers, MovedAt
<1>10. ShownInv'
  BY <1>1, <1>2, <1>4, EmptyShown
<1>11. SizeInv'
  <2>1. Len(blob') = 0
    BY <1>1, <1>2
  <2> QED
    BY <1>4, <1>5, <2>1 DEF SizeInv
<1>12. \E b \in Buffers : BufferStep(b)
  BY <1>1, <1>2, TwoBuffers DEF BufferStep
<1> QED
  BY <1>1, <1>4, <1>6, <1>7, <1>8, <1>9, <1>10, <1>11, <1>12, StepInv

LEMMA NewPageInv ==
    ASSUME ValuesInv, NewPage
    PROVE  ValuesInv' /\ BufferNext
<1> DEFINE pc == IF IsBlob /\ ~req.scan THEN "hook" ELSE "build"
<1>1. /\ req.pc = "construct" /\ Idle /\ construct("page") /\ GoTo(pc)
      /\ UNCHANGED rest /\ blob' = blob /\ shown' = shown
  BY DEF NewPage, At, Keep
<1>2. /\ RequestInv /\ BufferInv /\ SizeInv /\ TableInv
      /\ shown = << >> /\ blob = << >>
  BY <1>1 DEF ValuesInv, ShownInv
<1>3. req.at = 1
  BY <1>1, <1>2, RequestIs
<1>4. pc \in PCs /\ pc \in {"hook", "build"} /\ (pc = "hook" => IsBlob /\ ~req.scan)
  BY DEF PCs
<1>5. pc = "build" => ~IsBlob \/ req.scan
  OBVIOUS
<1> HIDE DEF pc
<1>6. /\ RequestInv' /\ req'.pc = pc /\ req'.scan = req.scan /\ req'.rows = req.rows
  BY <1>1, <1>2, <1>3, <1>4, GoToInv
<1>7. /\ buf'["page"].state = "constructed" /\ buf'["page"].todo = 0
      /\ OnlyOf("page") /\ oom' = oom /\ fault' = fault
  BY <1>1, <1>2, TwoBuffers, ConstructDoes
<1>8. /\ ~fault
      /\ \A b \in Buffers : /\ BufferAt(b) /\ buf[b].todo = 0
                            /\ buf[b].state \in StatesAt(b, "construct")
  BY <1>1, AtIs
<1>9. buf'["contents"] = buf["contents"]
      /\ \A b \in Buffers : b # "page" /\ b # "contents" => buf'[b] = buf[b]
  BY <1>7, TwoBuffers DEF OnlyOf
<1>10. BufferAt("page")'
  <2>1. StatesAt("page", pc) = {"constructed"}
    BY <1>4, StatesAre
  <2> QED
    BY <1>1, <1>4, <1>6, <1>7, <2>1, TwoBuffers, MovedAt
<1>11. BufferAt("contents")'
  <2>1. StatesAt("contents", "construct") = StatesAt("contents", pc)
    BY <1>4, StatesAre
  <2> QED
    BY <1>1, <1>6, <1>8, <1>9, <2>1, TwoBuffers, KeptAt
<1>12. ShownInv'
  <2>1. CASE pc = "hook"
    BY <1>1, <1>2, <1>6, <2>1, EmptyShown
  <2>2. CASE pc = "build"
    <3>1. << >> \in Seq(Entries) /\ << >> \in Seq(Int) /\ Len(<< >>) = 0
      OBVIOUS
    <3>2. \A i \in 1..0 : EntryOK(shown[i], i)'
      OBVIOUS
    <3>3. IsBlob' <=> IsBlob
      BY <1>1 DEF rest, IsBlob
    <3>4. IsBlob => BlobInv'
      BY <1>1, <1>2, <1>5, <1>6, <2>2 DEF BlobInv
    <3> QED
      BY <1>1, <1>2, <1>6, <2>2, <3>1, <3>2, <3>3, <3>4 DEF ShownInv
  <2> QED
    BY <1>4, <2>1, <2>2
<1>13. SizeInv'
  BY <1>1, <1>2, <1>4, <1>6, <1>7, <1>9 DEF SizeInv
<1>14. \E b \in Buffers : BufferStep(b)
  BY <1>1, TwoBuffers DEF BufferStep
<1>15. req'.pc # "idle"
  BY <1>4, <1>6
<1> QED
  BY <1>1, <1>6, <1>8, <1>9, <1>10, <1>11, <1>12, <1>13, <1>14, <1>15, StepInv

LEMMA FailInv ==
    ASSUME ValuesInv, Fail
    PROVE  ValuesInv' /\ BufferNext
<1>1. /\ req.pc = "build" /\ Idle /\ GoTo("delete") /\ UNCHANGED bvars
      /\ UNCHANGED rest /\ blob' = blob /\ shown' = shown
  BY DEF Fail, At, Same, Keep
<1>2. /\ RequestInv /\ SizeInv /\ blob \in Seq(Int)
  BY <1>1 DEF ValuesInv, ShownInv
<1>3. /\ RequestInv' /\ req'.pc = "delete" /\ req'.scan = req.scan
      /\ req'.raw = req.raw /\ req'.esc = req.esc
  BY <1>1, <1>2, GoToInv DEF PCs
<1>4. /\ ~fault
      /\ \A b \in Buffers : /\ BufferAt(b) /\ buf[b].todo = 0
                            /\ buf[b].state \in StatesAt(b, "build")
  BY <1>1, AtIs
<1>5. buf' = buf /\ oom' = oom
  BY <1>1 DEF bvars
<1>6. BufferAt("page")'
  <2>1. StatesAt("page", "build") \subseteq StatesAt("page", "delete")
    BY StatesAre
  <2> QED
    BY <1>1, <1>3, <1>4, <1>5, <2>1, TwoBuffers, KeptAt
<1>7. BufferAt("contents")'
  <2>1. StatesAt("contents", "build") \subseteq StatesAt("contents", "delete")
    BY StatesAre
  <2> QED
    BY <1>1, <1>3, <1>4, <1>5, <2>1, TwoBuffers, KeptAt
<1>8. ShownInv'
  <2>1. BlobInv'
    BY <1>3 DEF BlobInv
  <2> QED
    BY <1>1, <1>2, <1>3, <2>1, ShownKept
<1>9. SizeInv'
  BY <1>1, <1>2, <1>3, <1>5 DEF SizeInv
<1> QED
  BY <1>1, <1>3, <1>4, <1>5, <1>6, <1>7, <1>8, <1>9, StepInv

\* What activateBlob() does: the contents are those of the row, added to what
\* there was.
LEMMA activateBlobDoes ==
    ASSUME ValuesInv, Idle, req.pc \in {"hook", "row"}, IsBlob, req.at <= Len(req.rows),
           NEW next, activateBlob(next)
    PROVE  /\ blob' = blob \o Current.v /\ blob' \in Seq(Int)
           /\ (\E b \in Buffers : BufferStep(b)) \/ UNCHANGED bvars
           /\ buf'["contents"].state = "ready" /\ buf'["contents"].todo = 0
           /\ ~oom' => ~oom /\ buf'["contents"].sz = Len(blob')
           /\ OnlyOf("contents")
<1>1. RequestInv /\ TableInv /\ BufferInv /\ SizeInv /\ blob \in Seq(Int)
  BY DEF ValuesInv, ShownInv
<1>2. /\ Current.v \in Seq(Int) /\ Len(Current.v) \in Nat
      /\ Current.null => Current.v = << >>
  BY <1>1, CurrentIs
<1>3. /\ blob \o Current.v \in Seq(Int)
      /\ Len(blob \o Current.v) = Len(blob) + Len(Current.v)
      /\ Len(blob) \in Nat
  BY <1>1, <1>2, ConcatProperties, LenProperties
<1>4. /\ buf["contents"].todo = 0 /\ buf["contents"].state = "ready"
  <2>1. ContentsStates(req.pc) = {"ready"}
    BY StatesAre
  <2>2. StatesAt("contents", req.pc) = {"ready"}
    BY <2>1, StatesAre
  <2> QED
    BY <2>2, AtIs, TwoBuffers
<1>5. buf["contents"].sz \in Nat /\ (~oom => buf["contents"].sz = Len(blob))
  BY <1>1, <1>4, BufferType, TwoBuffers DEF SizeInv
<1>6. CASE Current.null \/ Current.v = << >>
  <2>1. UNCHANGED bvars /\ blob' = blob
    BY <1>6 DEF activateBlob, Same
  <2>2. buf' = buf /\ oom' = oom
    BY <2>1 DEF bvars
  <2>3. blob \o Current.v = blob
    BY <1>1, <1>2, <1>6, ConcatEmptySeq
  <2> QED
    BY <1>1, <1>4, <1>5, <2>1, <2>2, <2>3 DEF OnlyOf
<1>7. CASE ~(Current.null \/ Current.v = << >>)
  <2> DEFINE len == Len(Current.v)
  <2>1. fill("contents", len, len, FALSE) /\ blob' = blob \o Current.v
    BY <1>7 DEF activateBlob, read_blob
  <2> HIDE DEF len
  <2>2. len \in Nat /\ len \in 0..len /\ Len(blob') = Len(blob) + len
    BY <1>2, <1>3, <2>1 DEF len
  <2>3. /\ buf'["contents"].state = "ready" /\ buf'["contents"].todo = 0
        /\ ~oom' => buf'["contents"].sz = buf["contents"].sz + len
        /\ OnlyOf("contents") /\ (oom => oom')
    BY <1>1, <2>1, <2>2, TwoBuffers, FillDoes
  <2>4. \E b \in Buffers : BufferStep(b)
    BY <2>1, <2>2, TwoBuffers DEF BufferStep
  <2> QED
    BY <1>3, <1>5, <2>1, <2>2, <2>3, <2>4
<1> QED
  BY <1>6, <1>7

LEMMA ExecuteInv ==
    ASSUME ValuesInv, Execute
    PROVE  ValuesInv' /\ BufferNext
<1>1. /\ req.pc = "hook" /\ Idle /\ activateBlob("build") /\ GoTo("build")
      /\ UNCHANGED rest /\ shown' = shown
  BY DEF Execute, At, activateBlob
<1>2. /\ RequestInv /\ TableInv /\ SizeInv /\ shown = << >> /\ blob = << >>
  BY <1>1 DEF ValuesInv, ShownInv
<1>3. IsBlob /\ req.at = 1 /\ ~req.scan /\ Len(req.rows) = 1
  BY <1>1, <1>2, RequestIs
<1>4. /\ RequestInv' /\ req'.pc = "build" /\ req'.scan = req.scan /\ req'.rows = req.rows
  BY <1>1, <1>2, <1>3, GoToInv DEF PCs
<1>5. /\ blob' = blob \o Current.v /\ blob' \in Seq(Int)
      /\ (\E b \in Buffers : BufferStep(b)) \/ UNCHANGED bvars
      /\ buf'["contents"].state = "ready" /\ buf'["contents"].todo = 0
      /\ ~oom' => ~oom /\ buf'["contents"].sz = Len(blob')
      /\ OnlyOf("contents")
  BY <1>1, <1>3, activateBlobDoes
<1>6. blob' = table[req.rows[1]].v
  <2>1. Current.v \in Seq(Int)
    BY <1>1, <1>2, <1>3, CurrentIs
  <2>2. << >> \o Current.v = Current.v
    BY <2>1, ConcatEmptySeq
  <2> QED
    BY <1>2, <1>3, <1>5, <2>2 DEF Current
<1>7. /\ ~fault
      /\ \A b \in Buffers : /\ BufferAt(b) /\ buf[b].todo = 0
                            /\ buf[b].state \in StatesAt(b, "hook")
  BY <1>1, AtIs
<1>8. buf'["page"] = buf["page"]
      /\ \A b \in Buffers : b # "page" /\ b # "contents" => buf'[b] = buf[b]
  BY <1>5, TwoBuffers DEF OnlyOf
<1>9. BufferAt("page")'
  <2>1. StatesAt("page", "hook") = StatesAt("page", "build")
    BY StatesAre
  <2> QED
    BY <1>1, <1>4, <1>7, <1>8, <2>1, TwoBuffers, KeptAt
<1>10. BufferAt("contents")'
  <2>1. StatesAt("contents", "build") = {"ready"}
    BY <1>3, StatesAre
  <2> QED
    BY <1>1, <1>4, <1>5, <2>1, TwoBuffers, MovedAt
<1>11. ShownInv'
  <2>1. << >> \in Seq(Entries) /\ Len(<< >>) = 0
    OBVIOUS
  <2>2. \A i \in 1..0 : EntryOK(shown[i], i)'
    OBVIOUS
  <2>3. BlobInv'
    <3>1. table' = table
      BY <1>1 DEF rest
    <3> QED
      BY <1>3, <1>4, <1>6, <3>1 DEF BlobInv
  <2> QED
    BY <1>1, <1>2, <1>4, <1>5, <2>1, <2>2, <2>3 DEF ShownInv
<1>12. SizeInv'
  BY <1>4, <1>5 DEF SizeInv
<1> QED
  BY <1>1, <1>4, <1>5, <1>7, <1>8, <1>9, <1>10, <1>11, <1>12, StepInv

LEMMA nextResultInv ==
    ASSUME ValuesInv, nextResult
    PROVE  ValuesInv' /\ BufferNext
<1> DEFINE reads == req.scan /\ IsBlob
<1>1. /\ req.pc = "row" /\ Idle /\ req.at <= Len(req.rows) /\ GoTo("out")
      /\ UNCHANGED rest /\ shown' = shown
      /\ reads => activateBlob("out")
      /\ ~reads => UNCHANGED bvars /\ blob' = blob
  BY DEF nextResult, At, activateBlob, Same, Keep
<1>2. RequestInv /\ TableInv /\ SizeInv /\ BufferInv /\ blob \in Seq(Int) /\ (IsBlob => BlobInv)
  BY DEF ValuesInv, ShownInv
<1>3. /\ RequestInv' /\ req'.pc = "out" /\ req'.scan = req.scan /\ req'.rows = req.rows
      /\ req'.at = req.at /\ req'.raw = req.raw /\ req'.esc = req.esc
  BY <1>1, <1>2, GoToInv DEF PCs
<1>4. reads => /\ blob' = blob \o Current.v /\ blob' \in Seq(Int)
               /\ (\E b \in Buffers : BufferStep(b)) \/ UNCHANGED bvars
               /\ buf'["contents"].state = "ready" /\ buf'["contents"].todo = 0
               /\ ~oom' => ~oom /\ buf'["contents"].sz = Len(blob')
               /\ OnlyOf("contents")
  BY <1>1, activateBlobDoes
<1>5. ~reads => buf' = buf /\ oom' = oom /\ fault' = fault
  BY <1>1 DEF bvars
<1>6. /\ ~fault
      /\ \A b \in Buffers : /\ BufferAt(b) /\ buf[b].todo = 0
                            /\ buf[b].state \in StatesAt(b, "row")
  BY <1>1, AtIs
<1>7. buf'["page"] = buf["page"]
      /\ \A b \in Buffers : b # "page" /\ b # "contents" => buf'[b] = buf[b]
  <2> HIDE DEF reads
  <2>1. CASE reads
    BY <1>4, <2>1, TwoBuffers DEF OnlyOf
  <2>2. CASE ~reads
    BY <1>5, <2>2
  <2> QED
    BY <2>1, <2>2
<1>8. BufferAt("page")'
  <2>1. StatesAt("page", "row") = StatesAt("page", "out")
    BY StatesAre
  <2> QED
    BY <1>1, <1>3, <1>6, <1>7, <2>1, TwoBuffers, KeptAt
<1>9. BufferAt("contents")'
  <2>1. CASE reads
    <3>1. StatesAt("contents", "out") = {"ready"}
      BY <2>1, StatesAre
    <3>2. buf'["contents"].state = "ready" /\ buf'["contents"].todo = 0
      BY <1>4, <2>1
    <3> HIDE DEF reads
    <3> QED
      BY <1>1, <1>3, <3>1, <3>2, TwoBuffers, MovedAt
  <2>2. CASE ~reads
    <3>1. StatesAt("contents", "row") = StatesAt("contents", "out")
      BY StatesAre
    <3>2. buf'["contents"] = buf["contents"]
      BY <1>5, <2>2
    <3> HIDE DEF reads
    <3> QED
      BY <1>1, <1>3, <1>6, <3>1, <3>2, TwoBuffers, KeptAt
  <2> QED
    BY <2>1, <2>2
<1>10. ShownInv'
  <2>1. blob' \in Seq(Int)
    <3> HIDE DEF reads
    <3> QED
      BY <1>1, <1>2, <1>4
  <2>2. ASSUME IsBlob, shown = << >> PROVE blob' = table[req.rows[req.at]].v
    <3>1. Current.v \in Seq(Int) /\ Current.v = table[req.rows[req.at]].v
      BY <1>1, <1>2, CurrentIs DEF Current
    <3>2. BlobInv
      BY <1>2, <2>2
    <3>3. CASE req.scan
      <4>1. blob = << >>
        BY <1>1, <2>2, <3>2, <3>3 DEF BlobInv
      <4>2. << >> \o Current.v = Current.v
        BY <3>1, ConcatEmptySeq
      <4> QED
        BY <1>4, <2>2, <3>1, <3>3, <4>1, <4>2
    <3>4. CASE ~req.scan
      <4>1. Len(req.rows) = 1 /\ req.at \in 1..Len(req.rows) + 1
        BY <1>1, <1>2, <3>4, RequestIs
      <4>2. req.at = 1
        BY <1>1, <4>1
      <4>3. blob = table[req.rows[1]].v
        BY <1>1, <2>2, <3>2, <3>4, <4>2 DEF BlobInv
      <4> QED
        BY <1>1, <3>4, <4>2, <4>3
    <3> QED
      BY <3>3, <3>4
  <2>3. IsBlob => BlobInv'
    <3>1. table' = table
      BY <1>1 DEF rest
    <3> QED
      BY <1>1, <1>3, <2>2, <3>1 DEF BlobInv
  <2> HIDE DEF reads
  <2> QED
    BY <1>1, <1>3, <2>1, <2>3, ShownKept
<1>11. SizeInv'
  <2>1. CASE reads
    <3> HIDE DEF reads
    <3> QED
      BY <1>1, <1>2, <1>3, <1>4, <1>7, <2>1 DEF SizeInv
  <2>2. CASE ~reads
    <3> HIDE DEF reads
    <3> QED
      BY <1>1, <1>2, <1>3, <1>5, <2>2 DEF SizeInv
  <2> QED
    BY <2>1, <2>2
<1>12. (\E b \in Buffers : BufferStep(b)) \/ UNCHANGED bvars
  <2> HIDE DEF reads
  <2> QED
    BY <1>1, <1>4
<1> QED
  BY <1>1, <1>3, <1>6, <1>7, <1>8, <1>9, <1>10, <1>11, <1>12, StepInv

LEMMA Results_rawInv ==
    ASSUME ValuesInv, Results_raw
    PROVE  ValuesInv' /\ BufferNext
<1> DEFINE e == [k |-> req.rows[1], v |-> blob, len |-> Len(blob)]
           pc == IF IsBlob THEN "send" ELSE "delete"
<1>1. /\ req.pc = "build" /\ Idle /\ req.raw /\ GoTo(pc)
      /\ UNCHANGED rest /\ blob' = blob
      /\ IsBlob => overlay("page", "contents") /\ shown' = Append(shown, e)
      /\ ~IsBlob => UNCHANGED bvars /\ shown' = shown
  BY DEF Results_raw, At, Same
<1>2. /\ RequestInv /\ BufferInv /\ TableInv /\ SizeInv /\ shown = << >> /\ blob \in Seq(Int)
      /\ IsBlob => BlobInv
  BY <1>1 DEF ValuesInv, ShownInv
<1>3. /\ req \in Requests /\ req.at = 1 /\ Len(req.rows) > 0 /\ Len(req.rows) \in Nat
      /\ \A n \in 1..Len(req.rows) : req.rows[n] \in 1..Len(table)
  BY <1>1, <1>2, RequestIs
<1>4. pc \in PCs /\ pc \in {"send", "delete"}
  BY DEF PCs
<1>5. /\ RequestInv' /\ req'.pc = pc /\ req'.scan = req.scan
      /\ req'.raw = req.raw /\ req'.esc = req.esc
  <2> HIDE DEF pc
  <2> QED
    BY <1>1, <1>2, <1>3, <1>4, GoToInv
<1>6. /\ ~fault
      /\ \A b \in Buffers : /\ BufferAt(b) /\ buf[b].todo = 0
                            /\ buf[b].state \in StatesAt(b, "build")
  BY <1>1, AtIs
<1>7. CASE IsBlob
  <2> DEFINE P == buf'["page"]
             C == buf'["contents"]
  <2>1. overlay("page", "contents") /\ shown' = Append(shown, e) /\ pc = "send"
    BY <1>1, <1>7
  <2>2. /\ P.state = "overlaid" /\ P.todo = 0 /\ P.sz = buf["contents"].sz
        /\ C.state = "taken" /\ C.todo = buf["contents"].todo
        /\ buf["contents"].state = "ready"
        /\ \A b \in Buffers : b # "page" /\ b # "contents" => buf'[b] = buf[b]
        /\ oom' = oom
    BY <1>2, <2>1, TwoBuffers, OverlayDoes
  <2>3. C.todo = 0 /\ buf["contents"].sz \in Nat
    BY <1>2, <1>6, <2>2, BufferType, TwoBuffers
  <2> HIDE DEF P, C, pc
  <2>4. BufferAt("page")'
    <3>1. StatesAt("page", "send") = {"ready", "overlaid"}
      BY StatesAre
    <3> QED
      BY <1>1, <1>5, <2>1, <2>2, <3>1, TwoBuffers, MovedAt DEF P
  <2>5. BufferAt("contents")'
    <3>1. StatesAt("contents", "send") = {"ready", "taken"}
      BY <1>7, StatesAre
    <3> QED
      BY <1>1, <1>5, <2>1, <2>2, <2>3, <3>1, TwoBuffers, MovedAt DEF C
  <2>6. req.rows[1] \in 1..Len(table) /\ Len(blob) \in Nat
    BY <1>2, <1>3, LenProperties
  <2>7. e \in Entries
    <3>1. Len(table) \in Nat
      BY <1>2 DEF TableInv
    <3> QED
      BY <1>2, <2>6, <3>1 DEF Entries
  <2>8. e.k = req.rows[1] /\ e.v = blob /\ e.len = Len(blob)
    OBVIOUS
  <2> HIDE DEF e
  <2>9. EntryOK(e, Len(shown) + 1)
    <3>1. CASE req.scan
      BY <1>1, <1>7, <2>6, <2>8, <3>1 DEF EntryOK, Unknown
    <3>2. CASE ~req.scan
      <4>1. blob = table[req.rows[1]].v
        BY <1>1, <1>2, <1>7, <3>2 DEF BlobInv
      <4>2. \A v : ShownOf(v) = v
        BY <1>7 DEF ShownOf, IsBlob, Blobs, Numeric, Integral, Narrow, Dates, Chars, Binaries
      <4> QED
        BY <2>6, <2>8, <4>1, <4>2 DEF EntryOK
    <3> QED
      BY <3>1, <3>2
  <2>10. ShownInv'
    BY <1>1, <1>5, <2>1, <2>7, <2>9, ShownMore
  <2>11. SizeInv'
    <3>1. Lengths(shown') = Len(blob)
      <4>1. << >> \in Seq(Entries)
        OBVIOUS
      <4>2. Lengths(Append(<< >>, e)) = Lengths(<< >>) + e.len /\ Lengths(<< >>) = 0
        BY <2>7, <4>1, LengthsMore
      <4> QED
        BY <1>2, <2>1, <2>6, <2>8, <4>2
    <3>2. ~oom' => P.sz = Len(blob)
      BY <1>2, <2>2 DEF SizeInv
    <3> QED
      BY <1>1, <2>2, <2>6, <3>1, <3>2 DEF SizeInv, P, C
  <2>12. \E b \in Buffers : BufferStep(b)
    BY <2>1, TwoBuffers DEF BufferStep
  <2>13. req'.pc # "idle"
    BY <1>4, <1>5
  <2> QED
    BY <1>1, <1>5, <1>6, <2>2, <2>4, <2>5, <2>10, <2>11, <2>12, <2>13, StepInv
<1>8. CASE ~IsBlob
  <2>1. UNCHANGED bvars /\ shown' = shown /\ pc = "delete"
    BY <1>1, <1>8
  <2>2. buf' = buf /\ oom' = oom
    BY <2>1 DEF bvars
  <2> HIDE DEF pc
  <2>3. BufferAt("page")'
    <3>1. StatesAt("page", "build") \subseteq StatesAt("page", "delete")
      BY StatesAre
    <3> QED
      BY <1>1, <1>5, <1>6, <2>1, <2>2, <3>1, TwoBuffers, KeptAt
  <2>4. BufferAt("contents")'
    <3>1. StatesAt("contents", "build") \subseteq StatesAt("contents", "delete")
      BY StatesAre
    <3> QED
      BY <1>1, <1>5, <1>6, <2>1, <2>2, <3>1, TwoBuffers, KeptAt
  <2>5. ShownInv'
    BY <1>1, <1>2, <1>5, <1>8, <2>1, ShownKept
  <2>6. SizeInv'
    BY <1>1, <1>2, <1>5, <2>1, <2>2 DEF SizeInv
  <2> QED
    BY <1>1, <1>5, <1>6, <2>1, <2>2, <2>3, <2>4, <2>5, <2>6, StepInv
<1> QED
  BY <1>7, <1>8

LEMMA build_resultsInv ==
    ASSUME ValuesInv, build_results
    PROVE  ValuesInv' /\ BufferNext
<1>1. /\ req.pc = "build" /\ Idle /\ init("page", InitSize) /\ GoTo("row")
      /\ UNCHANGED rest /\ blob' = blob /\ shown' = shown
  BY DEF build_results, At, Keep
<1>2. /\ RequestInv /\ BufferInv /\ SizeInv /\ shown = << >> /\ blob \in Seq(Int)
      /\ InitSize \in Nat /\ (IsBlob => BlobInv)
  BY <1>1, ValuesAssumption DEF ValuesInv, ShownInv
<1>3. req.at = 1
  BY <1>1, <1>2, RequestIs
<1>4. /\ RequestInv' /\ req'.pc = "row" /\ req'.scan = req.scan /\ req'.rows = req.rows
      /\ req'.raw = req.raw /\ req'.esc = req.esc /\ req'.at = 1
  BY <1>1, <1>2, <1>3, GoToInv DEF PCs
<1>5. /\ buf'["page"].state = "ready" /\ buf'["page"].todo = 0
      /\ buf'["page"].sz = 0 /\ OnlyOf("page") /\ (oom => oom')
  BY <1>1, <1>2, TwoBuffers, InitDoes
<1>6. /\ ~fault
      /\ \A b \in Buffers : /\ BufferAt(b) /\ buf[b].todo = 0
                            /\ buf[b].state \in StatesAt(b, "build")
  BY <1>1, AtIs
<1>7. buf'["contents"] = buf["contents"]
      /\ \A b \in Buffers : b # "page" /\ b # "contents" => buf'[b] = buf[b]
  BY <1>5, TwoBuffers DEF OnlyOf
<1>8. BufferAt("page")'
  <2>1. StatesAt("page", "row") = {"ready"}
    BY StatesAre
  <2> QED
    BY <1>1, <1>4, <1>5, <2>1, TwoBuffers, MovedAt
<1>9. BufferAt("contents")'
  <2>1. StatesAt("contents", "build") = StatesAt("contents", "row")
    <3>1. ContentsStates("build") = {"ready"} /\ ContentsStates("row") = {"ready"}
      BY StatesAre
    <3>2. \A pc : StatesAt("contents", pc) = IF IsBlob THEN ContentsStates(pc) ELSE {"none"}
      BY StatesAre
    <3> QED
      BY <3>1, <3>2, Zenon
  <2> QED
    BY <1>1, <1>4, <1>6, <1>7, <2>1, TwoBuffers, KeptAt
<1>10. ShownInv'
  <2>1. table' = table
    BY <1>1 DEF rest
  <2>2. IsBlob => BlobInv'
    BY <1>1, <1>2, <1>4, <2>1 DEF BlobInv
  <2> QED
    BY <1>1, <1>2, <1>4, <2>2, ShownKept
<1>11. SizeInv'
  <2>1. Lengths(shown') = 0
    BY <1>1, <1>2, LengthsMore
  <2> QED
    BY <1>1, <1>2, <1>4, <1>5, <1>7, <2>1 DEF SizeInv
<1>12. \E b \in Buffers : BufferStep(b)
  BY <1>1, <1>2, TwoBuffers DEF BufferStep
<1> QED
  BY <1>1, <1>4, <1>6, <1>7, <1>8, <1>9, <1>10, <1>11, <1>12, StepInv

\* A value has been written to the page, or a NULL left out of it.
LEMMA OutInv ==
    ASSUME ValuesInv, req.pc = "out", Idle, UNCHANGED rest, blob' = blob, Done,
           OnlyOf("page"), buf'["page"].state = "ready",
           (\E b \in Buffers : BufferStep(b)) \/ UNCHANGED bvars,
           NEW e \in Entries, shown' = Append(shown, e), EntryOK(e, Len(shown) + 1),
           ~oom' => ~oom /\ buf'["page"].sz + buf'["page"].todo = buf["page"].sz + e.len
    PROVE  ValuesInv' /\ BufferNext
<1>1. RequestInv /\ BufferInv /\ SizeInv /\ shown \in Seq(Entries)
  BY DEF ValuesInv, ShownInv
<1>2. /\ RequestInv' /\ req'.pc = "row" /\ req'.rows = req.rows
      /\ req'.scan = req.scan /\ req'.raw = req.raw /\ req'.esc = req.esc
  BY <1>1, DoneInv
<1>3. /\ ~fault
      /\ \A b \in Buffers : /\ BufferAt(b) /\ buf[b].todo = 0
                            /\ buf[b].state \in StatesAt(b, "out")
  BY AtIs
<1>4. buf'["contents"] = buf["contents"]
      /\ \A b \in Buffers : b # "page" /\ b # "contents" => buf'[b] = buf[b]
  BY TwoBuffers DEF OnlyOf
<1>5. BufferAt("page")'
  <2>1. StatesAt("page", "row") = {"ready"}
    BY StatesAre
  <2> QED
    BY <1>2, <2>1, TwoBuffers, MovedAt
<1>6. BufferAt("contents")'
  <2>1. StatesAt("contents", "out") = StatesAt("contents", "row")
    <3>1. ContentsStates("out") = {"ready"} /\ ContentsStates("row") = {"ready"}
      BY StatesAre
    <3>2. \A pc : StatesAt("contents", pc) = IF IsBlob THEN ContentsStates(pc) ELSE {"none"}
      BY StatesAre
    <3> QED
      BY <3>1, <3>2, Zenon
  <2> QED
    BY <1>2, <1>3, <1>4, <2>1, TwoBuffers, KeptAt
<1>7. ShownInv'
  BY <1>2, ShownMore
<1>8. SizeInv'
  <2>1. Lengths(shown') = Lengths(shown) + e.len
    BY <1>1, LengthsMore
  <2>2. buf["page"].todo = 0 /\ buf["page"].sz \in Nat /\ e.len \in Nat
    BY <1>1, <1>3, BufferType, TwoBuffers DEF Entries
  <2>3. ~oom => buf["page"].sz = Lengths(shown)
    BY <1>1, <2>2 DEF SizeInv
  <2> QED
    BY <1>1, <1>2, <1>4, <2>1, <2>3 DEF SizeInv
<1> QED
  BY <1>2, <1>3, <1>4, <1>5, <1>6, <1>7, <1>8, StepInv

LEMMA OutNullInv ==
    ASSUME ValuesInv, OutNull
    PROVE  ValuesInv' /\ BufferNext
<1>1. /\ req.pc = "out" /\ Idle /\ Current.null /\ Done /\ UNCHANGED bvars
      /\ UNCHANGED rest /\ blob' = blob /\ shown' = shown
  BY DEF OutNull, At, Same, Keep
<1>2. /\ RequestInv /\ TableInv /\ SizeInv /\ blob \in Seq(Int) /\ (IsBlob => BlobInv)
  BY DEF ValuesInv, ShownInv
<1>3. /\ RequestInv' /\ req'.pc = "row" /\ req'.rows = req.rows /\ req'.at = req.at + 1
      /\ req'.scan = req.scan /\ req'.raw = req.raw /\ req'.esc = req.esc
  BY <1>1, <1>2, DoneInv
<1>4. /\ ~fault
      /\ \A b \in Buffers : /\ BufferAt(b) /\ buf[b].todo = 0
                            /\ buf[b].state \in StatesAt(b, "out")
  BY <1>1, AtIs
<1>5. buf' = buf /\ oom' = oom
  BY <1>1 DEF bvars
<1>6. BufferAt("page")'
  <2>1. StatesAt("page", "out") = StatesAt("page", "row")
    BY StatesAre
  <2> QED
    BY <1>1, <1>3, <1>4, <1>5, <2>1, TwoBuffers, KeptAt
<1>7. BufferAt("contents")'
  <2>1. ContentsStates("out") = {"ready"} /\ ContentsStates("row") = {"ready"}
    BY StatesAre
  <2>2. \A pc : StatesAt("contents", pc) = IF IsBlob THEN ContentsStates(pc) ELSE {"none"}
    BY StatesAre
  <2>3. StatesAt("contents", "out") = StatesAt("contents", "row")
    BY <2>1, <2>2, Zenon
  <2> QED
    BY <1>1, <1>3, <1>4, <1>5, <2>3, TwoBuffers, KeptAt
<1>8. ShownInv'
  <2>1. IsBlob /\ shown = << >> => blob = << >>
    <3>1. req.at <= Len(req.rows)
      BY <1>1, <1>2, RequestIs
    <3>2. Current.v = << >>
      BY <1>1, <1>2, <3>1, CurrentIs
    <3> QED
      BY <1>1, <1>2, <3>2 DEF BlobInv, Current
  <2>2. req.at + 1 # 1
    <3>1. req.at \in 1..Len(req.rows) + 1 /\ Len(req.rows) \in Nat
      BY <1>1, <1>2, RequestIs
    <3> QED
      BY <3>1
  <2>3. IsBlob => BlobInv'
    BY <1>1, <1>3, <2>1, <2>2 DEF BlobInv
  <2> QED
    BY <1>1, <1>2, <1>3, <2>3, ShownKept
<1>9. SizeInv'
  BY <1>1, <1>2, <1>3, <1>5 DEF SizeInv
<1> QED
  BY <1>1, <1>3, <1>4, <1>5, <1>6, <1>7, <1>8, <1>9, StepInv

LEMMA OutNumberInv ==
    ASSUME ValuesInv, OutNumber
    PROVE  ValuesInv' /\ BufferNext
<1> DEFINE v == Printed(Current.v)
           len == Width(Current.v)
           e == [k |-> req.rows[req.at], v |-> v, len |-> len]
<1>1. /\ req.pc = "out" /\ Idle /\ ~Current.null /\ column.type \in Numeric \union Dates
      /\ outf("page", len) /\ shown' = Append(shown, e)
      /\ UNCHANGED rest /\ blob' = blob /\ Done
  BY DEF OutNumber, At, Show
<1>2. /\ RequestInv /\ TableInv /\ BufferInv /\ column \in Columns
  BY DEF ValuesInv, TableInv
<1>3. /\ req.rows[req.at] \in 1..Len(table) /\ Stored(Current.v)
  <2>1. req.at <= Len(req.rows)
    BY <1>1, <1>2, RequestIs
  <2> QED
    BY <1>1, <1>2, <2>1, CurrentIs
<1>4. v \in Seq(Int) /\ len \in Nat
  BY <1>1, <1>2, <1>3, PrintedStored
<1>5. v = ShownOf(table[req.rows[req.at]].v)
  <2>1. column.type \notin Chars \union Binaries
    BY <1>1 DEF Numeric, Integral, Narrow, Dates, Chars, Binaries
  <2> QED
    BY <1>1, <2>1 DEF ShownOf, Current
<1> HIDE DEF v, len
<1>6. e \in Entries /\ e.k = req.rows[req.at] /\ e.v = v /\ e.len = len
  <2>1. Len(table) \in Nat
    BY <1>2, LenProperties DEF TableInv
  <2> QED
    BY <1>3, <1>4, <2>1 DEF Entries
<1> HIDE DEF e
<1>7. EntryOK(e, Len(shown) + 1)
  BY <1>3, <1>5, <1>6 DEF EntryOK
<1>8. /\ buf'["page"].state = "ready"
      /\ ~oom' => buf'["page"].sz + buf'["page"].todo = buf["page"].sz + len
      /\ OnlyOf("page") /\ (oom => oom')
  BY <1>1, <1>2, <1>4, TwoBuffers, OutfDoes
<1>9. \E b \in Buffers : BufferStep(b)
  BY <1>1, <1>4, TwoBuffers DEF BufferStep
<1> QED
  BY <1>1, <1>6, <1>7, <1>8, <1>9, OutInv

\* the text of a string
LEMMA ShownIs ==
    ASSUME ValuesInv, req.pc = "out", ~Current.null
    PROVE  Shown \in Seq(Int) /\ Len(Shown) \in Nat
<1>1. TableInv /\ RequestInv /\ blob \in Seq(Int)
  BY DEF ValuesInv, ShownInv
<1>2. req.at <= Len(req.rows)
  BY <1>1, RequestIs
<1>3. Current.v \in Seq(Int)
  BY <1>1, <1>2, CurrentIs
<1>4. Stripped(Current.v) \in Seq(Int)
  BY <1>3, StrippedIs
<1>5. Shown \in Seq(Int)
  BY <1>1, <1>4 DEF Shown
<1> QED
  BY <1>5, LenProperties

LEMMA OutStringInv ==
    ASSUME ValuesInv, OutString
    PROVE  ValuesInv' /\ BufferNext
<1> DEFINE s == Shown
           len == Len(escape_string(req.esc, s))
           e == [k |-> req.rows[req.at], v |-> s, len |-> len]
<1>1. /\ req.pc = "out" /\ Idle /\ ~Current.null
      /\ column.type \in Chars \union Binaries \union Blobs
      /\ IF s = << >> THEN UNCHANGED bvars
         ELSE IF req.esc = "none" THEN out("page", Len(s)) ELSE fill("page", len, len, TRUE)
      /\ shown' = Append(shown, e)
      /\ UNCHANGED rest /\ blob' = blob /\ Done
  BY DEF OutString, At, Show, Same, Escaped, Blobs
<1>2. /\ RequestInv /\ TableInv /\ BufferInv /\ shown \in Seq(Entries)
      /\ IsBlob => BlobInv
  BY DEF ValuesInv, ShownInv
<1>3. req.rows[req.at] \in 1..Len(table)
  <2>1. req.at <= Len(req.rows)
    BY <1>1, <1>2, RequestIs
  <2> QED
    BY <1>1, <1>2, <2>1, CurrentIs
<1>4. /\ s \in Seq(Int) /\ Len(s) \in Nat /\ len \in Nat
      /\ s = << >> => len = 0
      /\ req.esc = "none" => len = Len(s)
  <2>1. s \in Seq(Int) /\ Len(s) \in Nat
    BY <1>1, ShownIs
  <2>2. req.esc \in Escapes
    <3>1. req \in Requests
      BY <1>1, <1>2, RequestIs
    <3> QED
      BY <3>1 DEF Requests
  <2> HIDE DEF s
  <2>3. /\ escape_string(req.esc, s) \in Seq(Int)
        /\ s = << >> => escape_string(req.esc, s) = << >>
        /\ req.esc = "none" => Len(escape_string(req.esc, s)) = Len(s)
    BY <2>1, <2>2, escape_stringIs
  <2>4. Len(<< >>) = 0
    OBVIOUS
  <2> QED
    BY <2>1, <2>3, <2>4, LenProperties
<1>5. EntryOK(e, Len(shown) + 1)
  <2>1. e.k = req.rows[req.at] /\ e.v = s
    OBVIOUS
  <2>2. CASE IsBlob
    <3>1. CASE shown = << >>
      <4>1. s = table[req.rows[req.at]].v
        BY <1>1, <1>2, <2>2, <3>1 DEF BlobInv, Shown
      <4>2. \A v : ShownOf(v) = v
        BY <2>2 DEF ShownOf, IsBlob, Blobs, Numeric, Integral, Narrow, Dates, Chars, Binaries
      <4> HIDE DEF e, s
      <4> QED
        BY <1>3, <2>1, <4>1, <4>2 DEF EntryOK
    <3>2. CASE shown # << >>
      <4>1. Len(shown) + 1 > 1
        <5>1. Len(shown) \in Nat /\ Len(shown) # 0
          BY <1>2, <3>2, LenProperties, EmptySeq
        <5> QED
          BY <5>1
      <4> HIDE DEF e
      <4> QED
        BY <1>3, <2>1, <2>2, <4>1 DEF EntryOK, Unknown
    <3> QED
      BY <3>1, <3>2
  <2>3. CASE ~IsBlob
    <3>1. s = Stripped(table[req.rows[req.at]].v)
      BY <2>3 DEF Shown, Current
    <3>2. column.type \in Chars \union Binaries
      BY <1>1, <2>3 DEF IsBlob
    <3>3. \A v : ShownOf(v) = Stripped(v)
      BY <3>2 DEF ShownOf, Numeric, Integral, Narrow, Dates, Chars, Binaries
    <3> HIDE DEF e, s
    <3> QED
      BY <1>3, <2>1, <3>1, <3>3 DEF EntryOK
  <2> QED
    BY <2>2, <2>3
<1>6. e \in Entries /\ e.len = len
  <2>1. Len(table) \in Nat
    BY <1>2, LenProperties DEF TableInv
  <2> HIDE DEF s, len
  <2> QED
    BY <1>3, <1>4, <2>1 DEF Entries
<1> HIDE DEF e, len, s
<1>7. CASE s = << >>
  <2>1. UNCHANGED bvars
    BY <1>1, <1>7
  <2>2. buf' = buf /\ oom' = oom
    BY <2>1 DEF bvars
  <2>3. buf["page"].state = "ready" /\ buf["page"].todo = 0 /\ buf["page"].sz \in Nat
    <3>1. StatesAt("page", "out") = {"ready"}
      BY StatesAre
    <3>2. buf["page"].state \in StatesAt("page", "out") /\ buf["page"].todo = 0
      BY <1>1, TwoBuffers, AtIs
    <3> QED
      BY <1>2, <3>1, <3>2, TwoBuffers, BufferType
  <2>4. OnlyOf("page")
    BY <2>2 DEF OnlyOf
  <2>5. e.len = 0
    BY <1>4, <1>6, <1>7
  <2> QED
    BY <1>1, <1>5, <1>6, <2>1, <2>2, <2>3, <2>4, <2>5, OutInv
<1>8. CASE s # << >>
  <2>1. fill("page", len, len, TRUE)
    BY <1>1, <1>4, <1>8 DEF out
  <2>2. /\ buf'["page"].state = "ready" /\ buf'["page"].todo = 0
        /\ ~oom' => buf'["page"].sz = buf["page"].sz + len
        /\ OnlyOf("page") /\ (oom => oom')
    BY <1>2, <1>4, <2>1, TwoBuffers, FillDoes
  <2>3. \E b \in Buffers : BufferStep(b)
    <3>1. len \in 0..len
      BY <1>4
    <3> QED
      BY <1>4, <2>1, <3>1, TwoBuffers DEF BufferStep
  <2>4. ~oom' => buf'["page"].sz + buf'["page"].todo = buf["page"].sz + e.len
    <3>1. buf["page"].sz \in Nat
      BY <1>2, TwoBuffers, BufferType
    <3> QED
      BY <1>4, <1>6, <2>2, <3>1
  <2> QED
    BY <1>1, <1>5, <1>6, <2>2, <2>3, <2>4, OutInv
<1> QED
  BY <1>7, <1>8

LEMMA OutBlobInv ==
    ASSUME ValuesInv, OutBlob
    PROVE  ValuesInv' /\ BufferNext
<1> DEFINE e == [k |-> req.rows[req.at], v |-> << >>, len |-> CannotEscape]
<1>1. /\ req.pc = "out" /\ Idle /\ column.type = "Blob" /\ req.esc # "none"
      /\ outf("page", CannotEscape) /\ shown' = Append(shown, e)
      /\ UNCHANGED rest /\ blob' = blob /\ Done
  BY DEF OutBlob, At, Show
<1>2. RequestInv /\ TableInv /\ BufferInv
  BY DEF ValuesInv
<1>3. req.rows[req.at] \in 1..Len(table)
  <2>1. req.at <= Len(req.rows)
    BY <1>1, <1>2, RequestIs
  <2> QED
    BY <1>1, <1>2, <2>1, CurrentIs
<1>4. e \in Entries /\ e.k = req.rows[req.at] /\ e.len = CannotEscape /\ CannotEscape \in Nat
  <2>1. Len(table) \in Nat /\ << >> \in Seq(Int) /\ CannotEscape \in Nat
    BY <1>2, LenProperties, EmptySeq DEF TableInv, CannotEscape
  <2> HIDE DEF CannotEscape
  <2> QED
    BY <1>3, <2>1 DEF Entries
<1> HIDE DEF e
<1>5. EntryOK(e, Len(shown) + 1)
  BY <1>1, <1>3, <1>4 DEF EntryOK, Unknown, IsBlob, Blobs
<1>6. /\ buf'["page"].state = "ready"
      /\ ~oom' => buf'["page"].sz + buf'["page"].todo = buf["page"].sz + CannotEscape
      /\ OnlyOf("page") /\ (oom => oom')
  BY <1>1, <1>2, <1>4, TwoBuffers, OutfDoes
<1>7. \E b \in Buffers : BufferStep(b)
  BY <1>1, <1>4, TwoBuffers DEF BufferStep
<1> QED
  BY <1>1, <1>4, <1>5, <1>6, <1>7, OutInv

LEMMA AgainInv ==
    ASSUME ValuesInv, Again
    PROVE  ValuesInv' /\ BufferNext
<1>1. retry("page") /\ UNCHANGED rest /\ req' = req /\ blob' = blob /\ shown' = shown
  BY DEF Again
<1>2. /\ RequestInv /\ BufferInv /\ StateInv /\ SizeInv /\ blob \in Seq(Int)
      /\ IsBlob => BlobInv
  BY DEF ValuesInv, ShownInv
<1>3. /\ buf'["page"].state = "ready" /\ buf["page"].todo > 0 /\ ~fault
      /\ ~oom' => buf'["page"].sz + buf'["page"].todo = buf["page"].sz + buf["page"].todo
      /\ OnlyOf("page") /\ (oom => oom')
  BY <1>1, <1>2, TwoBuffers, RetryDoes
<1>4. /\ \A b \in Buffers : BufferAt(b)
      /\ \A b \in Buffers : b # "page" => buf[b].todo = 0
  BY <1>2, <1>3 DEF StateInv, BufferAt
<1>5. req.pc = "row"
  BY <1>3, <1>4, TwoBuffers DEF BufferAt
<1>6. RequestInv'
  <2>1. column' = column /\ table' = table /\ (IsBlob' <=> IsBlob)
    BY <1>1 DEF rest, IsBlob
  <2> QED
    BY <1>1, <1>2, <2>1 DEF RequestInv
<1>7. buf'["contents"] = buf["contents"]
      /\ \A b \in Buffers : b # "page" /\ b # "contents" => buf'[b] = buf[b]
  BY <1>3, TwoBuffers DEF OnlyOf
<1>8. BufferAt("page")'
  <2>1. StatesAt("page", "row") = {"ready"}
    BY StatesAre
  <2> QED
    BY <1>1, <1>3, <1>5, <2>1, TwoBuffers, MovedAt
<1>9. BufferAt("contents")'
  <2>1. buf["contents"].state \in StatesAt("contents", req'.pc)
    BY <1>1, <1>4, TwoBuffers DEF BufferAt
  <2> QED
    BY <1>1, <1>4, <1>7, <2>1, TwoBuffers, KeptAt
<1>10. ShownInv'
  <2>1. table' = table
    BY <1>1 DEF rest
  <2>2. IsBlob => BlobInv'
    BY <1>1, <1>2, <2>1 DEF BlobInv
  <2> QED
    BY <1>1, <1>2, <1>5, <2>2, ShownKept
<1>11. SizeInv'
  BY <1>1, <1>2, <1>3, <1>5, <1>7 DEF SizeInv
<1>12. \E b \in Buffers : BufferStep(b)
  BY <1>1, TwoBuffers DEF BufferStep
<1>13. req'.pc # "idle"
  BY <1>1, <1>5
<1> QED
  BY <1>1, <1>3, <1>6, <1>7, <1>8, <1>9, <1>10, <1>11, <1>12, <1>13, StepInv

\* A step with which the request goes on and nothing else changes
LEMMA PassesInv ==
    ASSUME ValuesInv, Idle, UNCHANGED bvars, UNCHANGED rest, blob' = blob, shown' = shown,
           NEW pc, GoTo(pc), <<req.pc, pc>> \in {<<"row", "send">>, <<"send", "delete">>}
    PROVE  ValuesInv' /\ BufferNext
<1>1. /\ RequestInv /\ SizeInv /\ blob \in Seq(Int) /\ req.pc \in {"row", "send"}
      /\ pc \in {"send", "delete"} /\ pc \in PCs /\ (pc = "send" => req.pc = "row")
  BY DEF ValuesInv, ShownInv, PCs
<1>2. /\ RequestInv' /\ req'.pc = pc /\ req'.scan = req.scan
      /\ req'.raw = req.raw /\ req'.esc = req.esc
  BY <1>1, GoToInv
<1>3. /\ ~fault
      /\ \A b \in Buffers : /\ BufferAt(b) /\ buf[b].todo = 0
                            /\ buf[b].state \in StatesAt(b, req.pc)
  BY AtIs
<1>4. buf' = buf /\ oom' = oom
  BY DEF bvars
<1>5. BufferAt("page")'
  <2>1. /\ StatesAt("page", "row") = {"ready"} /\ StatesAt("page", "send") = {"ready", "overlaid"}
        /\ StatesAt("page", "delete") = {"constructed", "ready", "overlaid"}
    BY StatesAre
  <2>2. buf["page"].state \in StatesAt("page", pc)
    BY <1>1, <1>3, <2>1, TwoBuffers
  <2> QED
    BY <1>2, <1>3, <1>4, <2>2, TwoBuffers, KeptAt
<1>6. BufferAt("contents")'
  <2>1. /\ ContentsStates("row") = {"ready"} /\ ContentsStates("send") = {"ready", "taken"}
        /\ ContentsStates("delete") = {"ready", "taken"}
    BY StatesAre
  <2>2. \A x : StatesAt("contents", x) = IF IsBlob THEN ContentsStates(x) ELSE {"none"}
    BY StatesAre
  <2>3. StatesAt("contents", "row") \subseteq StatesAt("contents", "send")
        /\ StatesAt("contents", "send") \subseteq StatesAt("contents", "delete")
    BY <2>1, <2>2
  <2>4. buf["contents"].state \in StatesAt("contents", req.pc)
    BY <1>3, TwoBuffers
  <2>5. buf["contents"].state \in StatesAt("contents", pc)
    BY <1>1, <2>3, <2>4
  <2> QED
    BY <1>2, <1>3, <1>4, <2>5, TwoBuffers, KeptAt
<1>7. ShownInv'
  <2>1. BlobInv'
    BY <1>1, <1>2 DEF BlobInv
  <2> QED
    BY <1>1, <1>2, <2>1, ShownKept
<1>8. SizeInv'
  BY <1>1, <1>2, <1>4 DEF SizeInv
<1>9. req'.pc # "idle"
  BY <1>1, <1>2
<1> QED
  BY <1>2, <1>3, <1>4, <1>5, <1>6, <1>7, <1>8, <1>9, StepInv

LEMMA CleanupInv ==
    ASSUME ValuesInv, Cleanup
    PROVE  ValuesInv' /\ BufferNext
<1>1. /\ req.pc = "delete" /\ Idle /\ GoTo("return")
      /\ IF IsBlob THEN destroy("contents") ELSE UNCHANGED bvars
      /\ UNCHANGED rest /\ blob' = blob /\ shown' = shown
  BY DEF Cleanup, At, Same, Keep
<1>2. /\ RequestInv /\ BufferInv /\ SizeInv /\ blob \in Seq(Int)
  BY DEF ValuesInv, ShownInv
<1>3. /\ RequestInv' /\ req'.pc = "return" /\ req'.scan = req.scan
      /\ req'.raw = req.raw /\ req'.esc = req.esc
  BY <1>1, <1>2, GoToInv DEF PCs
<1>4. /\ ~fault
      /\ \A b \in Buffers : /\ BufferAt(b) /\ buf[b].todo = 0
                            /\ buf[b].state \in StatesAt(b, "delete")
  BY <1>1, AtIs
<1>5. IsBlob => buf'["contents"] = NoBuffer /\ OnlyOf("contents") /\ oom' = oom
  BY <1>1, <1>2, TwoBuffers, DestroyDoes
<1>6. ~IsBlob => buf' = buf /\ oom' = oom
  BY <1>1 DEF bvars
<1>7. /\ buf'["page"] = buf["page"] /\ oom' = oom
      /\ \A b \in Buffers : b # "page" /\ b # "contents" => buf'[b] = buf[b]
  <2>1. CASE IsBlob
    BY <1>5, <2>1, TwoBuffers DEF OnlyOf
  <2>2. CASE ~IsBlob
    BY <1>6, <2>2
  <2> QED
    BY <2>1, <2>2
<1>8. BufferAt("page")'
  <2>1. StatesAt("page", "delete") = StatesAt("page", "return")
    BY StatesAre
  <2> QED
    BY <1>1, <1>3, <1>4, <1>7, <2>1, TwoBuffers, KeptAt
<1>9. BufferAt("contents")'
  <2>1. ContentsStates("return") = {"none"}
    BY StatesAre
  <2>2. \A pc : StatesAt("contents", pc) = IF IsBlob THEN ContentsStates(pc) ELSE {"none"}
    BY StatesAre
  <2>3. StatesAt("contents", "return") = {"none"}
    BY <2>1, <2>2, Zenon
  <2>4. CASE IsBlob
    <3>1. buf'["contents"].state = "none" /\ buf'["contents"].todo = 0
          /\ buf'["contents"] = NoBuffer
      BY <1>5, <2>4 DEF NoBuffer, Buffer
    <3> QED
      BY <1>1, <1>3, <2>3, <3>1, TwoBuffers, MovedAt
  <2>5. CASE ~IsBlob
    <3>1. StatesAt("contents", "delete") = {"none"}
      BY <2>2, <2>5, Zenon
    <3> QED
      BY <1>1, <1>3, <1>4, <1>6, <2>3, <2>5, <3>1, TwoBuffers, KeptAt
  <2> QED
    BY <2>4, <2>5
<1>10. ShownInv'
  <2>1. BlobInv'
    BY <1>3 DEF BlobInv
  <2> QED
    BY <1>1, <1>2, <1>3, <2>1, ShownKept
<1>11. SizeInv'
  <2>1. CASE IsBlob
    <3>1. buf'["contents"].state = "none"
      BY <1>5, <2>1 DEF NoBuffer, Buffer
    <3> QED
      BY <1>3, <3>1 DEF SizeInv
  <2>2. CASE ~IsBlob
    BY <1>1, <1>2, <1>3, <1>6, <2>2 DEF SizeInv
  <2> QED
    BY <2>1, <2>2
<1>12. (\E b \in Buffers : BufferStep(b)) \/ UNCHANGED bvars
  BY <1>1, TwoBuffers DEF BufferStep
<1> QED
  BY <1>1, <1>3, <1>4, <1>7, <1>8, <1>9, <1>10, <1>11, <1>12, StepInv

LEMMA ReturnInv ==
    ASSUME ValuesInv, Return
    PROVE  ValuesInv' /\ BufferNext
<1>1. /\ req.pc = "return" /\ Idle /\ destroy("page") /\ req' = NoRequest
      /\ UNCHANGED rest /\ blob' = << >> /\ shown' = << >>
  BY DEF Return, At
<1>2. RequestInv /\ BufferInv /\ SizeInv
  BY DEF ValuesInv
<1>3. RequestInv' /\ req'.pc = "idle"
  BY <1>1 DEF RequestInv, NoRequest
<1>4. /\ ~fault
      /\ \A b \in Buffers : /\ BufferAt(b) /\ buf[b].todo = 0
                            /\ buf[b].state \in StatesAt(b, "return")
  BY <1>1, AtIs
<1>5. buf'["page"] = NoBuffer /\ OnlyOf("page") /\ oom' = oom /\ ~fault'
  BY <1>1, <1>2, TwoBuffers, DestroyDoes
<1>6. buf'["contents"] = buf["contents"]
      /\ \A b \in Buffers : b # "page" /\ b # "contents" => buf'[b] = buf[b]
  BY <1>5, TwoBuffers DEF OnlyOf
<1>7. BufferAt("page")'
  <2>1. StatesAt("page", "idle") = {"none"}
    BY StatesAre
  <2>2. buf'["page"].state = "none" /\ buf'["page"].todo = 0
    BY <1>5 DEF NoBuffer, Buffer
  <2> QED
    BY <1>1, <1>3, <1>5, <2>1, <2>2, TwoBuffers, MovedAt
<1>8. StatesAt("contents", "return") = {"none"} /\ StatesAt("contents", "idle") = {"none"}
  <2>1. ContentsStates("return") = {"none"} /\ ContentsStates("idle") = {"none"}
    BY StatesAre
  <2>2. \A pc : StatesAt("contents", pc) = IF IsBlob THEN ContentsStates(pc) ELSE {"none"}
    BY StatesAre
  <2> QED
    BY <2>1, <2>2, Zenon
<1>9. BufferAt("contents")'
  BY <1>1, <1>3, <1>4, <1>6, <1>8, TwoBuffers, KeptAt
<1>10. ShownInv'
  BY <1>1, <1>3, EmptyShown
<1>11. SizeInv'
  <2>1. buf'["contents"].state = "none"
    BY <1>4, <1>6, <1>8, TwoBuffers
  <2> QED
    BY <1>3, <2>1 DEF SizeInv
<1>12. \E b \in Buffers : BufferStep(b)
  BY <1>1, TwoBuffers DEF BufferStep
<1> QED
  BY <1>1, <1>3, <1>4, <1>5, <1>6, <1>7, <1>9, <1>10, <1>11, <1>12, StepInv

-----------------------------------------------------------------------------
(* The invariant holds at the start, and every step keeps it.              *)

LEMMA ValuesInitInv == Init => ValuesInv
<1> SUFFICES ASSUME Init PROVE ValuesInv
  OBVIOUS
<1>1. BufferInv
  BY BufferInitInv DEF Init
<1>2. TableInv
  <2>1. << >> \in Seq([null : BOOLEAN, v : Seq(Int)]) /\ Len(<< >>) = 0 /\ DOMAIN << >> = 1..0
    OBVIOUS
  <2>2. 0 <= Rows
    BY ValuesAssumption DEF Rows
  <2>3. \A k \in 1..0 : RowOK(table[k], said[k])
    OBVIOUS
  <2> QED
    BY <2>1, <2>2, <2>3 DEF Init, TableInv
<1>3. RequestInv /\ req.pc = "idle"
  BY DEF Init, RequestInv, NoRequest
<1>4. \A b \in Buffers : buf[b] = NoBuffer
  BY DEF Init, BufferInit
<1>5. NoBuffer.state = "none" /\ NoBuffer.todo = 0
  BY DEF NoBuffer, Buffer
<1>6. \A b \in Buffers : StatesAt(b, "idle") = {"none"}
  <2>1. PageStates("idle") = {"none"} /\ ContentsStates("idle") = {"none"}
    BY StatesAre
  <2> QED
    BY <2>1 DEF StatesAt
<1>7. StateInv
  BY <1>3, <1>4, <1>5, <1>6 DEF Init, BufferInit, StateInv, BufferAt
<1>8. SizeInv
  BY <1>3, <1>4, <1>5, TwoBuffers DEF SizeInv
<1>9. ShownInv
  <2>1. << >> \in Seq(Entries) /\ << >> \in Seq(Int) /\ Len(<< >>) = 0
    OBVIOUS
  <2>2. \A i \in 1..0 : EntryOK(shown[i], i)
    OBVIOUS
  <2>3. BlobInv
    BY <1>3 DEF BlobInv
  <2> QED
    BY <1>3, <2>1, <2>2, <2>3 DEF Init, ShownInv
<1> QED
  BY <1>1, <1>2, <1>3, <1>7, <1>8, <1>9 DEF ValuesInv

LEMMA ValuesStepInv == ValuesInv /\ [Next]_vars => ValuesInv' /\ BufferNext
<1> SUFFICES ASSUME ValuesInv, [Next]_vars PROVE ValuesInv' /\ BufferNext
  OBVIOUS
<1>1. ASSUME NEW text \in Texts[column.type], NEW k \in 1..Len(table) + 1, Post(text, k)
      PROVE  ValuesInv' /\ BufferNext
  BY <1>1, PostInv
<1>2. CASE OtherClient(Len(table) + 1)
  BY <1>2, OtherClientInv
<1>3. ASSUME NEW k \in DOMAIN table, NEW scan \in BOOLEAN, NEW raw \in BOOLEAN,
             NEW esc \in {"none", "json", "xml", "xmljson"}, Get(k, scan, raw, esc)
      PROVE  ValuesInv' /\ BufferNext
  <2>1. esc \in Escapes
    BY DEF Escapes
  <2> QED
    BY <1>3, <2>1, GetInv
<1>4. CASE Fail
  BY <1>4, FailInv
<1>5. CASE NewContents
  BY <1>5, NewContentsInv
<1>6. CASE InitContents
  BY <1>6, InitContentsInv
<1>7. CASE NewPage
  BY <1>7, NewPageInv
<1>8. CASE Execute
  BY <1>8, ExecuteInv
<1>9. CASE Results_raw
  BY <1>9, Results_rawInv
<1>10. CASE build_results
  BY <1>10, build_resultsInv
<1>11. CASE nextResult
  BY <1>11, nextResultInv
<1>12. CASE OutNull
  BY <1>12, OutNullInv
<1>13. CASE OutNumber
  BY <1>13, OutNumberInv
<1>14. CASE OutString
  BY <1>14, OutStringInv
<1>15. CASE OutBlob
  BY <1>15, OutBlobInv
<1>16. CASE Again
  BY <1>16, AgainInv
<1>17. CASE Send
  BY <1>17, PassesInv DEF Send, At, Same, Keep
<1>18. CASE Sent
  BY <1>18, PassesInv DEF Sent, At, Same, Keep
<1>19. CASE Cleanup
  BY <1>19, CleanupInv
<1>20. CASE Return
  BY <1>20, ReturnInv
<1>21. CASE UNCHANGED vars
  <2>1. UNCHANGED bvars /\ UNCHANGED rest /\ req' = req /\ blob' = blob /\ shown' = shown
    BY <1>21 DEF vars
  <2>2. BufferInv' /\ TableInv'
    BY <2>1, BufferStutterInv, TableKept DEF ValuesInv
  <2>3. /\ column' = column /\ table' = table /\ buf' = buf /\ oom' = oom /\ fault' = fault
        /\ (IsBlob' <=> IsBlob)
    BY <2>1 DEF rest, bvars, IsBlob
  <2>4. RequestInv' /\ SizeInv'
    BY <2>1, <2>3 DEF ValuesInv, RequestInv, SizeInv
  <2>5. StateInv'
    <3>1. \A b : BufferAt(b)' <=> BufferAt(b)
      BY <2>1, <2>3 DEF BufferAt, StatesAt
    <3> QED
      BY <2>1, <2>3, <3>1 DEF ValuesInv, StateInv
  <2>6. ShownInv'
    <3>1. \A e, i : EntryOK(e, i)' <=> EntryOK(e, i)
      BY <2>1, EntriesKept
    <3>2. BlobInv' <=> BlobInv
      BY <2>1, <2>3 DEF BlobInv
    <3> QED
      BY <2>1, <2>3, <3>1, <3>2 DEF ValuesInv, ShownInv
  <2> QED
    BY <2>1, <2>2, <2>4, <2>5, <2>6 DEF ValuesInv, BufferNext
<1> QED
  BY <1>1, <1>2, <1>3, <1>4, <1>5, <1>6, <1>7, <1>8, <1>9, <1>10, <1>11, <1>12, <1>13, <1>14,
     <1>15, <1>16, <1>17, <1>18, <1>19, <1>20, <1>21 DEF Next, Read

-----------------------------------------------------------------------------
(* The results.                                                             *)

\* Whatever is written and shown, in whatever order and with whatever failures:
\* the buffers, the table, the request, the lengths of the buffers and what is
\* shown of each row agree (ValuesInv).
THEOREM ValuesInvariant == Spec => []ValuesInv
<1>1. Init => ValuesInv
  BY ValuesInitInv
<1>2. ValuesInv /\ [Next]_vars => ValuesInv'
  BY ValuesStepInv
<1> QED
  BY <1>1, <1>2, PTL DEF Spec

\* Query(), build_results(), Results_raw() and their callees use the buffers of
\* a request in one of the orders in which ResultBuffer has them used: the
\* values implement the buffers, and what is proved of these holds of them.
THEOREM ValuesUseBuffers == Spec => BufferSpec
<1>1. Init => BufferInit
  BY DEF Init
<1>2. ValuesInv /\ [Next]_vars => [\E b \in Buffers : BufferStep(b)]_bvars
  BY ValuesStepInv DEF BufferNext
<1> QED
  BY <1>1, <1>2, ValuesInvariant, PTL DEF Spec, BufferSpec

LEMMA SeqRange ==
    ASSUME NEW S, NEW s \in Seq(S)
    PROVE  /\ DOMAIN s = 1..Len(s) /\ Len(s) \in Nat
           /\ \A x \in Range(s) : \E n \in 1..Len(s) : x = s[n]
<1>1. DOMAIN s = 1..Len(s) /\ Len(s) \in Nat
  OBVIOUS
<1> QED
  BY <1>1 DEF Range

\* Every row holds what its type can hold, whatever text was sent for it
\* (MySQL::value()), and a request reads and shows rows of the table.
THEOREM ValuesHaveTypes == Spec => []TypeOK
<1>1. ValuesInv => TypeOK
  <2> SUFFICES ASSUME ValuesInv PROVE TypeOK
    OBVIOUS
  <2>1. BufferTypeOK
    BY BufferInvImplies DEF ValuesInv
  <2>2. TableInv /\ RequestInv /\ ShownInv
    BY DEF ValuesInv
  <2>3. /\ table \in Seq([null : BOOLEAN, v : Seq(Int)])
        /\ \A k \in 1..Len(table) : RowOK(table[k], said[k])
    BY <2>2 DEF TableInv
  <2>4. ASSUME NEW row \in Range(table)
        PROVE  IF row.null THEN row.v = << >> ELSE Holds(row.v)
    <3>1. PICK k \in 1..Len(table) : row = table[k]
      BY <2>3, SeqRange
    <3>2. RowOK(row, said[k])
      BY <2>3, <3>1
    <3> QED
      BY <3>2 DEF RowOK, Stored
  <2>5. DOMAIN table = 1..Len(table)
    BY <2>3, SeqRange
  <2>6. req.pc # "idle" => Range(req.rows) \subseteq DOMAIN table
    <3> SUFFICES ASSUME req.pc # "idle" PROVE Range(req.rows) \subseteq 1..Len(table)
      BY <2>5
    <3>1. req.rows \in Seq(Nat) /\ \A n \in 1..Len(req.rows) : req.rows[n] \in 1..Len(table)
      BY <2>2, RequestIs DEF Requests
    <3>2. \A x \in Range(req.rows) : \E n \in 1..Len(req.rows) : x = req.rows[n]
      BY <3>1, SeqRange
    <3> QED
      BY <3>1, <3>2
  <2>7. \A e \in Range(shown) : e.k \in DOMAIN table
    <3>1. shown \in Seq(Entries) /\ \A n \in 1..Len(shown) : EntryOK(shown[n], n)
      BY <2>2 DEF ShownInv
    <3>2. \A e \in Range(shown) : \E n \in 1..Len(shown) : e = shown[n]
      BY <3>1, SeqRange
    <3> QED
      BY <2>5, <3>1, <3>2 DEF EntryOK
  <2> QED
    BY <2>1, <2>2, <2>4, <2>6, <2>7 DEF TypeOK, TableInv
<1> QED
  BY <1>1, ValuesInvariant, PTL

\* A value that is shown and the text it was made from
LEMMA ShownFrom ==
    ASSUME ValuesInv, NEW i \in 1..Len(shown), said[shown[i].k] # Operand
    PROVE  /\ shown[i].k \in 1..Len(table)
           /\ said[shown[i].k] \in Texts[column.type]
           /\ Unknown(i) \/ shown[i].v = ShownOf(value(column, said[shown[i].k]))
<1>1. EntryOK(shown[i], i) /\ \A k \in 1..Len(table) : RowOK(table[k], said[k])
  BY DEF ValuesInv, ShownInv, TableInv
<1>2. shown[i].k \in 1..Len(table)
  BY <1>1 DEF EntryOK
<1>3. RowOK(table[shown[i].k], said[shown[i].k])
  BY <1>1, <1>2
<1> QED
  BY <1>1, <1>2, <1>3 DEF EntryOK, RowOK

\* A number that an integer of the platform can hold is shown as it was sent,
\* or as the nearest one that its column can hold: MySQL::value() clamps it and
\* MySQL::result::out() prints all of it, of any width and on any platform.
THEOREM NumbersAreShown == Spec => []NumbersAreClamped
<1>1. ValuesInv => NumbersAreClamped
  <2> SUFFICES ASSUME ValuesInv, NEW e \in Range(shown), said[e.k].kind = "number",
                      Fits(IF column.type = "Int" THEN said[e.k].dec ELSE said[e.k].any)
               PROVE  LET text == said[e.k]
                          n    == IF column.type = "Int" THEN text.dec ELSE text.any
                      IN e.v = <<IF column.type = "Year" THEN n
                                 ELSE Clamp(n, Low(column.type), High(column.type))>>
    BY DEF NumbersAreClamped
  <2> DEFINE text == said[e.k]
             n    == IF column.type = "Int" THEN text.dec ELSE text.any
  <2>1. PICK i \in 1..Len(shown) : e = shown[i]
    BY SeqRange DEF ValuesInv, ShownInv
  <2>2. text # Operand
    BY DEF Operand
  <2>3. text \in Texts[column.type] /\ (Unknown(i) \/ e.v = ShownOf(value(column, text)))
    BY <2>1, <2>2, ShownFrom
  <2>4. column \in Columns /\ arch \in Archs
    BY DEF ValuesInv, TableInv
  <2>5. column.type \in Numeric /\ text.any \in Int /\ text.dec \in Int
    BY <2>3, <2>4, TextsAre
  <2>6. column.type \notin Dates \union Chars \union Binaries \union Blobs
    BY <2>5 DEF Numeric, Integral, Narrow, Dates, Chars, Binaries, Blobs
  <2>7. ~Unknown(i)
    BY <2>6 DEF Unknown, IsBlob
  <2>8. value(column, text) = number_value(column, text)
    BY <2>5, <2>6 DEF value
  <2>9. e.v = Printed(number_value(column, text))
    BY <2>3, <2>5, <2>6, <2>7, <2>8 DEF ShownOf
  <2>10. Fits(n)
    OBVIOUS
  <2> HIDE DEF n
  <2>11. Printed(number_value(column, text))
           = <<IF column.type = "Year" THEN n ELSE Clamp(n, Low(column.type), High(column.type))>>
    BY <2>4, <2>5, <2>10, NumberShown DEF n
  <2> QED
    BY <2>9, <2>11 DEF n
<1> QED
  BY <1>1, ValuesInvariant, PTL

\* What escape_string() makes of a value for a JSON page, JSON_unescape() makes
\* that value of again (JSON_encoding.cc).
THEOREM JSONIsInverse == Spec => []JSONComesBack
<1>1. ValuesInv => JSONComesBack
  <2> SUFFICES ASSUME ValuesInv, NEW e \in Range(shown) PROVE JSON_unescape(AsJSON(e.v)) = e.v
    BY DEF JSONComesBack
  <2>1. shown \in Seq(Entries)
    BY DEF ValuesInv, ShownInv
  <2>2. PICK i \in 1..Len(shown) : e = shown[i]
    BY <2>1, SeqRange
  <2>3. e \in Entries
    BY <2>1, <2>2, ElementOfSeq
  <2>4. e.v \in Seq(Int)
    BY <2>3 DEF Entries
  <2> QED
    BY <2>4, JSONIsRead
<1> QED
  BY <1>1, ValuesInvariant, PTL

\* A page that is sent has the length of all that was written to it, if no
\* allocation failed: what result_buffer::out() grew for was written again.
THEOREM PagesAreWhole == Spec => []PageIsWhole
<1>1. ValuesInv => PageIsWhole
  <2> SUFFICES ASSUME ValuesInv, req.pc = "send", ~oom
               PROVE  buf["page"].sz = Lengths(shown)
    BY DEF PageIsWhole, Lengths
  <2>1. BufferInv /\ StateInv /\ SizeInv
    BY DEF ValuesInv
  <2>2. ~fault /\ buf["page"].sz \in Nat
    BY <2>1, BufferType, TwoBuffers
  <2>3. buf["page"].todo = 0
    BY <2>1, <2>2, TwoBuffers DEF StateInv, BufferAt
  <2>4. buf["page"].sz + buf["page"].todo = Lengths(shown)
    BY <2>1 DEF SizeInv
  <2> QED
    BY <2>2, <2>3, <2>4
<1> QED
  BY <1>1, ValuesInvariant, PTL

\* When no request is executed, no buffer has a block and every block is free:
\* what Query() and activateBlob() took, ~result_buffer(), the pool and the
\* data operation gave back.
THEOREM NothingStays == Spec => []NothingIsKept
<1>1. ValuesInv => NothingIsKept
  <2> SUFFICES ASSUME ValuesInv, req.pc = "idle"
               PROVE  /\ \A b \in Buffers : buf[b] = NoBuffer
                      /\ \A k \in Blocks : heap[k] = 0
    BY DEF NothingIsKept
  <2>1. BufferInv /\ StateInv /\ ~fault
    BY DEF ValuesInv, StateInv
  <2>2. ASSUME NEW b \in Buffers PROVE buf[b] = NoBuffer
    <3>1. PageStates("idle") = {"none"} /\ ContentsStates("idle") = {"none"}
      BY StatesAre
    <3>2. StatesAt(b, "idle") = {"none"}
      BY <3>1 DEF StatesAt
    <3>3. BufferAt(b)
      BY <2>1 DEF StateInv
    <3> QED
      BY <3>2, <3>3 DEF BufferAt
  <2>3. ASSUME NEW k \in Blocks PROVE heap[k] = 0
    <3>1. heap[k] \in Nat /\ OneOwner
      BY <2>1 DEF BufferInv, BufferTypeOK
    <3>2. \A b \in Buffers : ~Owns(b)
      <4>1. NoBuffer.buff = Null
        BY DEF NoBuffer, Buffer
      <4> QED
        BY <2>2, <4>1 DEF Owns
    <3> QED
      BY <3>1, <3>2 DEF OneOwner
  <2> QED
    BY <2>2, <2>3
<1> QED
  BY <1>1, ValuesInvariant, PTL

-----------------------------------------------------------------------------
(* Strings come back.                                                       *)

\* A string ends at its last character that is not a zero byte.
EndsAt(s, k) == /\ k # 0 => s[k] # 0
                /\ \A n \in k + 1..Len(s) : s[n] = 0

LEMMA StrippedEnd ==
    ASSUME NEW s \in Seq(Int)
    PROVE  \E k \in 0..Len(s) : EndsAt(s, k) /\ Stripped(s) = SubSeq(s, 1, k)
<1> DEFINE I == {i \in 1..Len(s) : s[i] # 0}
           k == SelectLastInSeq(s, LAMBDA c : c # 0)
<1>1. Len(s) \in Nat
  OBVIOUS
<1>2. k = IF I # {} THEN Max(I) ELSE 0
  BY DEF SelectLastInSeq
<1>3. I \in SUBSET (0..Len(s))
  BY <1>1
<1>4. k \in 0..Len(s) /\ EndsAt(s, k)
  <2>1. CASE I # {}
    <3>1. Max(I) \in I /\ \A j \in I : j <= Max(I)
      <4> HIDE DEF I
      <4> QED
        BY <1>1, <1>3, <2>1, MaxIs
    <3>2. k = Max(I)
      BY <1>2, <2>1
    <3> HIDE DEF k
    <3>3. k \in I /\ \A j \in I : j <= k
      BY <3>1, <3>2
    <3>4. k \in 1..Len(s) /\ s[k] # 0
      BY <3>3
    <3>5. ASSUME NEW n \in k + 1..Len(s) PROVE s[n] = 0
      <4>1. n \in 1..Len(s) /\ ~(n <= k)
        BY <1>1, <3>4
      <4> QED
        BY <3>3, <4>1
    <3> QED
      BY <1>1, <3>4, <3>5 DEF EndsAt
  <2>2. CASE I = {}
    <3>1. k = 0
      BY <1>2, <2>2
    <3> HIDE DEF k
    <3>2. \A n \in 1..Len(s) : s[n] = 0
      BY <2>2
    <3> QED
      BY <1>1, <3>1, <3>2 DEF EndsAt
  <2> QED
    BY <2>1, <2>2
<1>5. Stripped(s) = SubSeq(s, 1, k)
  BY DEF Stripped
<1> HIDE DEF k
<1> QED
  BY <1>4, <1>5

LEMMA EndsAtOne ==
    ASSUME NEW s \in Seq(Int), NEW j \in 0..Len(s), NEW k \in 0..Len(s),
           EndsAt(s, j), EndsAt(s, k)
    PROVE  j = k
<1>1. Len(s) \in Nat
  OBVIOUS
<1>2. ASSUME j < k PROVE FALSE
  <2>1. k \in j + 1..Len(s) /\ k # 0
    BY <1>1, <1>2
  <2> QED
    BY <2>1 DEF EndsAt
<1>3. ASSUME k < j PROVE FALSE
  <2>1. j \in k + 1..Len(s) /\ j # 0
    BY <1>1, <1>3
  <2> QED
    BY <2>1 DEF EndsAt
<1> QED
  BY <1>2, <1>3

LEMMA StrippedSame ==
    ASSUME NEW s \in Seq(Int), s # << >> => s[Len(s)] # 0
    PROVE  Stripped(s) = s
<1>1. Len(s) \in Nat /\ (s # << >> <=> Len(s) # 0)
  OBVIOUS
<1>2. Len(s) \in 0..Len(s) /\ EndsAt(s, Len(s))
  BY <1>1 DEF EndsAt
<1>3. PICK k \in 0..Len(s) : EndsAt(s, k) /\ Stripped(s) = SubSeq(s, 1, k)
  BY StrippedEnd
<1>4. k = Len(s)
  BY <1>2, <1>3, EndsAtOne
<1> QED
  BY <1>3, <1>4

\* Zero bytes that fill up a column do not count.
LEMMA StrippedPad ==
    ASSUME NEW s \in Seq(Int), NEW len \in Nat
    PROVE  Stripped(Pad(s, len, 0)) = Stripped(s)
<1> DEFINE t == Pad(s, len, 0)
<1>1. /\ t \in Seq(Int) /\ Len(t) = IF Len(s) < len THEN len ELSE Len(s)
      /\ \A n \in 1..Len(t) : t[n] = IF n <= Len(s) THEN s[n] ELSE 0
  <2>1. 0 \in Int
    OBVIOUS
  <2> QED
    BY <2>1, PadIs
<1>2. Len(s) \in Nat /\ Len(t) \in Nat /\ Len(s) <= Len(t)
  BY <1>1, LenProperties
<1> HIDE DEF t
<1>3. PICK k \in 0..Len(s) : EndsAt(s, k) /\ Stripped(s) = SubSeq(s, 1, k)
  BY StrippedEnd
<1>4. PICK j \in 0..Len(t) : EndsAt(t, j) /\ Stripped(t) = SubSeq(t, 1, j)
  BY <1>1, StrippedEnd
<1>5. k \in 0..Len(t) /\ EndsAt(t, k)
  <2>1. k \in 0..Len(t)
    BY <1>2
  <2>2. k # 0 => t[k] # 0
    BY <1>1, <1>2, <1>3 DEF EndsAt
  <2>3. ASSUME NEW n \in k + 1..Len(t) PROVE t[n] = 0
    <3>1. n \in 1..Len(t) /\ (n <= Len(s) => n \in k + 1..Len(s))
      BY <1>2
    <3> QED
      BY <1>1, <1>3, <3>1 DEF EndsAt
  <2> QED
    BY <2>1, <2>2, <2>3 DEF EndsAt
<1>6. j = k
  BY <1>1, <1>4, <1>5, EndsAtOne
<1>7. SubSeq(t, 1, k) = SubSeq(s, 1, k)
  <2>1. /\ SubSeq(s, 1, k) \in Seq(Int) /\ Len(SubSeq(s, 1, k)) = k
        /\ \A n \in 1..k : SubSeq(s, 1, k)[n] = s[n]
    BY <1>2, SubSeqProperties
  <2>2. /\ SubSeq(t, 1, k) \in Seq(Int) /\ Len(SubSeq(t, 1, k)) = k
        /\ \A n \in 1..k : SubSeq(t, 1, k)[n] = t[n]
    BY <1>1, <1>2, <1>5, SubSeqProperties
  <2>3. ASSUME NEW n \in 1..k PROVE s[n] = t[n]
    <3>1. n \in 1..Len(t) /\ n <= Len(s)
      BY <1>2
    <3> QED
      BY <1>1, <3>1
  <2>4. \A n \in 1..k : SubSeq(s, 1, k)[n] = SubSeq(t, 1, k)[n]
    BY <2>1, <2>2, <2>3
  <2> QED
    BY <2>1, <2>2, <2>4, SeqEqual
<1> QED
  BY <1>3, <1>4, <1>6, <1>7 DEF t

\* There is no zero byte in a C string.
LEMMA NoZeros ==
    ASSUME NEW s \in Seq(Int)
    PROVE  \A n \in 1..Len(AsString(s)) : AsString(s)[n] # 0
<1> DEFINE I == {i \in 1..Len(s) : s[i] = 0}
           k == CString(s)
<1>1. Len(s) \in Nat
  OBVIOUS
<1>2. k = IF I # {} THEN Min(I) ELSE 0
  BY DEF CString, SelectInSeq
<1>3. I \in SUBSET Nat
  BY <1>1
<1>4. CASE I = {}
  <2>1. AsString(s) = s
    BY <1>2, <1>4 DEF AsString, k
  <2>2. \A n \in 1..Len(s) : s[n] # 0
    BY <1>4
  <2> QED
    BY <2>1, <2>2
<1>5. CASE I # {}
  <2>1. Min(I) \in I /\ \A j \in I : Min(I) <= j
    <3> HIDE DEF I
    <3> QED
      BY <1>3, <1>5, MinIs
  <2>2. k = Min(I)
    BY <1>2, <1>5
  <2> HIDE DEF k
  <2>3. k \in I /\ \A j \in I : k <= j
    BY <2>1, <2>2
  <2>4. k \in 1..Len(s) /\ k - 1 \in 0..Len(s)
    BY <1>1, <2>3
  <2>5. AsString(s) = SubSeq(s, 1, k - 1)
    BY <1>1, <2>4 DEF AsString, k
  <2>6. /\ Len(SubSeq(s, 1, k - 1)) = k - 1
        /\ \A n \in 1..k - 1 : SubSeq(s, 1, k - 1)[n] = s[n]
    BY <2>4, SubSeqProperties
  <2>7. ASSUME NEW n \in 1..k - 1 PROVE s[n] # 0
    <3>1. n \in 1..Len(s) /\ ~(k <= n)
      BY <1>1, <2>4
    <3> QED
      BY <2>3, <3>1
  <2> HIDE DEF I
  <2> QED
    BY <2>5, <2>6, <2>7
<1> QED
  BY <1>4, <1>5

\* What is shown of a string, type by type
LEMMA StringShown ==
    ASSUME column \in Columns, NEW text, Item(text) \in Seq(Int),
           column.type \in Types \ (Numeric \union Dates)
    PROVE  LET s   == IF column.type \in Chars THEN AsString(Item(text)) ELSE Item(text)
               cut == Cut(s, column.len)
               v   == ShownOf(value(column, text))
           IN /\ column.type = "Char" => v = Pad(s, column.len, 32)
              /\ column.type \in Blobs => v = s
              /\ column.type = "Varchar" /\ Len(s) < 2^CharBits => v = Stripped(cut)
              /\ column.type = "Longvarchar" /\ Len(s) < 2^ShortBits => v = Stripped(cut)
              /\ column.type \in {"Binary", "Varbinary"} => v = Stripped(cut)
              /\ column.type = "Longvarbinary" /\ AsString(cut) = cut => v = Stripped(cut)
<1> DEFINE len == column.len
           s == AsString(Item(text))
           b == Cut(Item(text), len)
           v == ShownOf(value(column, text))
<1>1. len \in Nat
  BY ColumnIs
<1>2. s \in Seq(Int) /\ Len(s) \in Nat
  BY AsStringIs, LenProperties
<1>3. b \in Seq(Int)
  BY <1>1, CutIs
<1>4. /\ column.type = "Varchar" => char_value(column, text) = Varchar(s, len)
      /\ column.type = "Longvarchar" => char_value(column, text) = Longvarchar(s, len)
      /\ column.type = "Char" => char_value(column, text) = Char(s, len)
      /\ column.type = "Binary" => binary_value(column, text) = Pad(b, len, 0)
      /\ column.type = "Varbinary" => binary_value(column, text) = b
      /\ column.type = "Longvarbinary" =>
            binary_value(column, text) = IF AsString(b) = b THEN b
                                         ELSE Pad(Append(AsString(b), 0), Len(b), Junk)
      /\ column.type \in Blobs => binary_value(column, text) = Item(text)
  BY StringValueIs, Zenon
<1>5. /\ column.type \in Chars => v = Stripped(char_value(column, text))
      /\ column.type \in Binaries => v = Stripped(binary_value(column, text))
      /\ column.type \in Blobs => v = binary_value(column, text)
  BY DEF ShownOf, value, Numeric, Integral, Narrow, Dates, Chars, Binaries, Blobs
<1> HIDE DEF v
<1>6. CASE column.type = "Char"
  <2> DEFINE p == Pad(s, len, 32)
  <2>1. v = Stripped(p)
    BY <1>4, <1>5, <1>6 DEF Char, Chars
  <2>2. 32 \in Int
    OBVIOUS
  <2>3. /\ p \in Seq(Int) /\ Len(p) = IF Len(s) < len THEN len ELSE Len(s)
        /\ \A n \in 1..Len(p) : p[n] = IF n <= Len(s) THEN s[n] ELSE 32
    BY <1>1, <1>2, <2>2, PadIs
  <2>4. \A n \in 1..Len(s) : s[n] # 0
    BY NoZeros
  <2> HIDE DEF p, s, len
  <2>5. ASSUME p # << >> PROVE p[Len(p)] # 0
    <3>1. Len(p) \in 1..Len(p)
      BY <2>3, <2>5
    <3>2. p[Len(p)] = IF Len(p) <= Len(s) THEN s[Len(p)] ELSE 32
      BY <2>3, <3>1
    <3>3. Len(p) <= Len(s) => Len(p) \in 1..Len(s)
      BY <1>2, <3>1
    <3> QED
      BY <2>4, <3>2, <3>3
  <2>6. Stripped(p) = p
    BY <2>3, <2>5, StrippedSame
  <2>7. v = Pad(s, len, 32)
    BY <2>1, <2>6 DEF p
  <2> QED
    BY <1>6, <2>7 DEF Chars, Blobs, v, s, len
<1>7. CASE column.type \in {"Varchar", "Longvarchar"}
  <2> DEFINE B == IF column.type = "Varchar" THEN CharBits ELSE ShortBits
  <2>1. ASSUME Len(s) < 2^B PROVE v = Stripped(Cut(s, len))
    <3>1. 2^B \in Nat /\ 2^B > 0
      BY ValuesAssumption, PowerIs
    <3>2. char_value(column, text) = Cut(Cut(s, Len(s) % 2^B), len)
      BY <1>4, <1>7 DEF Varchar, Longvarchar
    <3>3. v = Stripped(Cut(Cut(s, Len(s) % 2^B), len))
      BY <1>5, <1>7, <3>2 DEF Chars
    <3> HIDE DEF B, s, len
    <3>4. Len(s) % 2^B = Len(s)
      <4> DEFINE P == 2^B
      <4>1. P \in Nat /\ P > 0 /\ Len(s) < P
        BY <2>1, <3>1
      <4> HIDE DEF P
      <4>2. Len(s) \in 0..(P - 1) /\ Len(s) \in Int
        BY <1>2, <4>1
      <4>3. Len(s) % P = Len(s)
        BY <4>1, <4>2, RestIs
      <4> QED
        BY <4>3 DEF P
    <3>5. Cut(s, Len(s)) = s
      BY <1>2, CutIs
    <3> QED
      BY <3>3, <3>4, <3>5
  <2> QED
    BY <1>7, <2>1 DEF Chars, Blobs, v, s, len
<1>8. CASE column.type \in {"Binary", "Varbinary", "Longvarbinary"}
  <2>1. CASE column.type = "Binary"
    <3>1. v = Stripped(Pad(b, len, 0))
      BY <1>4, <1>5, <2>1 DEF Binaries
    <3> HIDE DEF b, len
    <3>2. v = Stripped(b)
      BY <1>1, <1>3, <3>1, StrippedPad
    <3> QED
      BY <2>1, <3>2 DEF Chars, Blobs, v, b, len
  <2>2. CASE column.type = "Varbinary"
    <3>1. v = Stripped(b)
      BY <1>4, <1>5, <2>2 DEF Binaries
    <3> QED
      BY <2>2, <3>1 DEF Chars, Blobs, v, b, len
  <2>3. CASE column.type = "Longvarbinary"
    <3>1. AsString(b) = b => v = Stripped(b)
      BY <1>4, <1>5, <2>3 DEF Binaries
    <3> QED
      BY <2>3, <3>1 DEF Chars, Blobs, v, b, len
  <2> QED
    BY <1>8, <2>1, <2>2, <2>3
<1>9. CASE column.type \in Blobs
  <2>1. v = Item(text)
    BY <1>4, <1>5, <1>9
  <2> QED
    BY <1>9, <2>1 DEF Chars, Blobs, v
<1> QED
  BY <1>6, <1>7, <1>8, <1>9 DEF Types, Chars, Binaries

\* A string that was sent is shown, up to the length of its column and without
\* the zero bytes at its end, as long as the column can have its length; a Char
\* is filled up with blanks (char_value(), binary_value(), String()).
THEOREM StringsAreShown == Spec => []StringsComeBack
<1>1. ValuesInv => StringsComeBack
  <2> DEFINE text(i) == said[shown[i].k]
             s(i)    == IF column.type \in Chars THEN AsString(Item(text(i))) ELSE Item(text(i))
             cut(i)  == Cut(s(i), column.len)
  <2> SUFFICES ASSUME ValuesInv, NEW i \in DOMAIN shown, text(i).kind = "string"
               PROVE  CASE column.type = "Char" -> shown[i].v = Pad(s(i), column.len, 32)
                        [] column.type \in Blobs ->
                             \/ i > 1 \/ (req.raw /\ req.scan)
                             \/ column.type = "Blob" /\ req.esc # "none"
                             \/ shown[i].v = s(i)
                        [] OTHER ->
                             \/ column.type = "Varchar" /\ Len(s(i)) >= 2^CharBits
                             \/ column.type = "Longvarchar" /\ Len(s(i)) >= 2^ShortBits
                             \/ column.type = "Longvarbinary" /\ AsString(cut(i)) # cut(i)
                             \/ shown[i].v = Stripped(cut(i))
    BY DEF StringsComeBack
  <2>1. i \in 1..Len(shown)
    BY SeqRange DEF ValuesInv, ShownInv
  <2>2. text(i) # Operand
    BY DEF Operand
  <2>3. text(i) \in Texts[column.type] /\ (Unknown(i) \/ shown[i].v = ShownOf(value(column, text(i))))
    BY <2>1, <2>2, ShownFrom
  <2>4. column \in Columns
    BY DEF ValuesInv, TableInv
  <2>5. column.type \in Types \ (Numeric \union Dates) /\ Item(text(i)) \in Seq(Int)
    BY <2>3, <2>4, TextsAre, ItemIs
  <2> DEFINE v == ShownOf(value(column, text(i)))
  <2>6. /\ column.type = "Char" => v = Pad(s(i), column.len, 32)
        /\ column.type \in Blobs => v = s(i)
        /\ column.type = "Varchar" /\ Len(s(i)) < 2^CharBits => v = Stripped(cut(i))
        /\ column.type = "Longvarchar" /\ Len(s(i)) < 2^ShortBits => v = Stripped(cut(i))
        /\ column.type \in {"Binary", "Varbinary"} => v = Stripped(cut(i))
        /\ column.type = "Longvarbinary" /\ AsString(cut(i)) = cut(i) => v = Stripped(cut(i))
    BY <2>4, <2>5, StringShown, Zenon
  <2>7. Len(s(i)) \in Nat /\ 2^CharBits \in Nat /\ 2^ShortBits \in Nat
    <3>1. s(i) \in Seq(Int)
      BY <2>5, AsStringIs
    <3> QED
      BY <3>1, LenProperties, ValuesAssumption, PowerIs
  <2>8. column.type \in Chars \union Binaries \union Blobs
    BY <2>5 DEF Types
  <2>9. Unknown(i) => /\ column.type \in Blobs
                      /\ \/ i > 1 \/ (req.raw /\ req.scan)
                         \/ column.type = "Blob" /\ req.esc # "none"
    BY DEF Unknown, IsBlob
  <2> HIDE DEF v, cut
  <2>10. column.type \in Blobs =>
             \/ i > 1 \/ (req.raw /\ req.scan)
             \/ column.type = "Blob" /\ req.esc # "none"
             \/ shown[i].v = s(i)
    BY <2>3, <2>6, <2>9 DEF v
  <2>11. column.type \notin Blobs => shown[i].v = v
    BY <2>3, <2>9 DEF v
  <2> HIDE DEF s, text
  <2>12. CASE column.type \in Blobs
    BY <2>10, <2>12 DEF Blobs
  <2>13. CASE column.type = "Char"
    BY <2>6, <2>11, <2>13 DEF Blobs
  <2>14. CASE column.type \in (Chars \union Binaries) \ {"Char"}
    <3>1. column.type \notin Blobs /\ shown[i].v = v
      BY <2>11, <2>14 DEF Chars, Binaries, Blobs
    <3>2. \/ column.type = "Varchar" /\ Len(s(i)) >= 2^CharBits
          \/ column.type = "Longvarchar" /\ Len(s(i)) >= 2^ShortBits
          \/ column.type = "Longvarbinary" /\ AsString(cut(i)) # cut(i)
          \/ shown[i].v = Stripped(cut(i))
      BY <2>6, <2>7, <2>14, <3>1 DEF Chars, Binaries
    <3> QED
      BY <2>14, <3>1, <3>2
  <2> QED
    BY <2>8, <2>12, <2>13, <2>14 DEF Chars
<1> QED
  BY <1>1, ValuesInvariant, PTL

-----------------------------------------------------------------------------
(* Dates                                                                     *)

\* The quotient and the rest of a division are the only ones.
LEMMA DivisionIs ==
    ASSUME NEW p \in Nat, p > 0, NEW h \in Int, NEW r \in 0..p - 1
    PROVE  (p * h + r) \div p = h /\ (p * h + r) % p = r
<1> DEFINE x == p * h + r
           q == x \div p
           s == x % p
<1>1. x \in Int /\ r \in Int
  OBVIOUS
<1>2. x = p * q + s /\ q \in Int /\ s \in 0..p - 1
  <2> HIDE DEF x
  <2> QED
    BY <1>1
<1>3. p * (h - q) = s - r
  <2>1. p * h + r = p * q + s
    BY <1>2
  <2> HIDE DEF q, s, x
  <2>2. p * (h - q) = p * h - p * q
    BY <1>2
  <2> QED
    BY <1>1, <1>2, <2>1, <2>2
<1> HIDE DEF x, q, s
<1>4. ~(h - q >= 1)
  <2> SUFFICES ASSUME h - q >= 1 PROVE FALSE
    OBVIOUS
  <2>1. p * (h - q) >= p
    BY <1>2
  <2> QED
    BY <1>1, <1>2, <1>3, <2>1
<1>5. ~(h - q <= -1)
  <2> SUFFICES ASSUME h - q <= -1 PROVE FALSE
    OBVIOUS
  <2>1. p * (h - q) <= -p
    BY <1>2
  <2> QED
    BY <1>1, <1>2, <1>3, <2>1
<1>6. h = q
  BY <1>2, <1>4, <1>5
<1>7. r = s
  BY <1>1, <1>2, <1>3, <1>6
<1> QED
  BY <1>6, <1>7 DEF q, s, x

\* n bits more of a number
LEMMA BitIs ==
    ASSUME NEW x \in Nat, NEW n \in Nat
    PROVE  /\ BitOf(x, n) \in {0, 1}
           /\ x % 2^(n + 1) = (x % 2^n) + 2^n * BitOf(x, n)
<1> DEFINE P == 2^n
           q == x \div P
           r == x % P
           h == q \div 2
           b == q % 2
<1>1. P \in Nat /\ P > 0 /\ 2^(n + 1) = 2 * P
  BY PowerIs
<1> HIDE DEF P
<1>2. q \in Int /\ r \in 0..P - 1 /\ x = P * q + r
  BY <1>1
<1> HIDE DEF q, r
<1>3. h \in Int /\ b \in {0, 1} /\ q = 2 * h + b
  BY <1>2
<1> HIDE DEF h, b
<1>4. x = (2 * P) * h + (P * b + r)
  <2>1. P * q = P * (2 * h + b)
    BY <1>3
  <2>2. P * (2 * h + b) = (2 * P) * h + P * b
    BY <1>1, <1>3
  <2>3. P * b \in Int /\ (2 * P) * h \in Int
    BY <1>1, <1>3
  <2> QED
    BY <1>2, <2>1, <2>2, <2>3
<1>5. P * b + r \in 0..(2 * P) - 1 /\ P * b = IF b = 1 THEN P ELSE 0
  BY <1>1, <1>2, <1>3
<1>6. x % (2 * P) = P * b + r
  <2> DEFINE Q == 2 * P
             t == P * b + r
  <2>1. Q \in Nat /\ Q > 0 /\ t \in 0..Q - 1 /\ x = Q * h + t
    BY <1>1, <1>4, <1>5
  <2> HIDE DEF Q, t
  <2>2. x % Q = t
    BY <1>3, <2>1, DivisionIs
  <2> QED
    BY <2>2 DEF Q, t
<1>7. BitOf(x, n) = b
  BY DEF BitOf, b, q, P
<1>8. x % 2^(n + 1) = r + P * b
  <2>1. x % 2^(n + 1) = P * b + r
    BY <1>1, <1>6
  <2>2. P * b \in Int /\ r \in Int
    BY <1>1, <1>2, <1>5
  <2> QED
    BY <2>1, <2>2
<1> QED
  BY <1>3, <1>7, <1>8 DEF r, P

\* A multiple of 2^k has no bits below k.
LEMMA NoBitsBelow ==
    ASSUME NEW h \in Nat, NEW k \in Nat, NEW n \in Nat, n < k
    PROVE  BitOf(2^k * h, n) = 0
<1> DEFINE P == 2^n
           M == 2^(k - n - 1)
<1>1. k - n - 1 \in Nat /\ k = n + ((k - n - 1) + 1)
  OBVIOUS
<1>2. P \in Nat /\ P > 0 /\ M \in Nat /\ 2^((k - n - 1) + 1) = 2 * M
  BY <1>1, PowerIs
<1>3. 2^k = P * (2 * M)
  <2>1. (k - n - 1) + 1 \in Nat
    BY <1>1
  <2>2. 2^(n + ((k - n - 1) + 1)) = 2^n * 2^((k - n - 1) + 1)
    BY <2>1, PowerOfSum
  <2> QED
    BY <1>1, <1>2, <2>2
<1> HIDE DEF P, M
<1>4. 2^k * h = P * (2 * (M * h)) + 0
  BY <1>2, <1>3
<1> DEFINE y == M * h
<1>5. y \in Int
  BY <1>2
<1> HIDE DEF y
<1>6. (P * (2 * y) + 0) \div P = 2 * y
  <2>1. 0 \in 0..P - 1 /\ 2 * y \in Int
    BY <1>2, <1>5
  <2> QED
    BY <1>2, <2>1, DivisionIs
<1>7. (2^k * h) \div P = 2 * y
  BY <1>4, <1>6 DEF y
<1>8. (2 * y) % 2 = 0
  BY <1>5
<1> QED
  BY <1>7, <1>8 DEF BitOf, P

\* A number of k bits has none above.
LEMMA NoBitsAbove ==
    ASSUME NEW k \in Nat, NEW b \in 0..2^k - 1, NEW n \in Nat, k <= n
    PROVE  BitOf(b, n) = 0
<1> DEFINE P == 2^n
           K == 2^k
<1>1. P \in Nat /\ P > 0 /\ K \in Nat /\ K <= P
  BY PowerIs, PowerGrows
<1>2. b \in 0..K - 1
  OBVIOUS
<1> HIDE DEF P, K
<1>3. b \in 0..P - 1
  BY <1>1, <1>2
<1>4. (P * 0 + b) \div P = 0
  BY <1>1, <1>3, DivisionIs
<1>5. P * 0 + b = b
  BY <1>1, <1>3
<1>6. b \div P = 0
  BY <1>4, <1>5
<1>7. BitOf(b, n) = (b \div P) % 2
  BY DEF BitOf, P
<1> QED
  BY <1>6, <1>7

\* Or() of bits that are apart is their sum.
LEMMA OrIsSum ==
    ASSUME NEW k \in Nat, NEW h \in Nat, NEW b \in 0..2^k - 1, k <= 30,
           2^k * h < 2^30
    PROVE  Or(2^k * h, b) = 2^k * h + b
<1> DEFINE a == 2^k * h
           P(n) == 2^n
<1>1. \A n \in Nat : P(n) \in Nat /\ P(n) > 0
  BY PowerIs
<1>2. a \in Nat /\ b \in Nat
  <2> DEFINE K == 2^k
  <2>1. K \in Nat /\ b \in 0..K - 1
    BY PowerIs
  <2> HIDE DEF K
  <2>2. K * h \in Nat /\ b \in Nat
    BY <2>1
  <2> QED
    BY <2>2 DEF K
<1>3. \A n \in Nat : BitOf(a, n) = 0 \/ BitOf(b, n) = 0
  <2>1. ASSUME NEW n \in Nat PROVE BitOf(a, n) = 0 \/ BitOf(b, n) = 0
    <3>1. CASE n < k
      BY <3>1, NoBitsBelow
    <3>2. CASE k <= n
      BY <3>2, NoBitsAbove
    <3> QED
      BY <3>1, <3>2
  <2> QED
    BY <2>1
<1>4. a < 2^30 /\ b < 2^30
  <2> DEFINE K == 2^k
             T == 2^30
  <2>1. K \in Nat /\ T \in Nat /\ K <= T /\ b \in 0..K - 1
    <3>1. 30 \in Nat
      OBVIOUS
    <3> QED
      BY <3>1, PowerIs, PowerGrows
  <2> HIDE DEF K, T
  <2>2. b < T
    BY <2>1
  <2> QED
    BY <2>2 DEF T
<1> HIDE DEF a
<1>5. PICK g \in [0..30 -> Int] :
         /\ g[0] = 0
         /\ \A n \in 1..30 :
               g[n] = IF BitOf(a, n - 1) + BitOf(b, n - 1) > 0
                      THEN g[n - 1] + 2^(n - 1) ELSE g[n - 1]
         /\ Or(a, b) = g[30]
  <2>1. a \in Int /\ b \in Int
    BY <1>2
  <2> QED
    BY <2>1, OrIs, Zenon
<1> HIDE DEF P
<1> DEFINE Good == {n \in Nat : n <= 30 => g[n] = (a % P(n)) + (b % P(n))}
<1>6. 0 \in Good
  <2>1. P(0) = 1
    BY DEF P
  <2>2. a % 1 = 0 /\ b % 1 = 0
    BY <1>2
  <2> QED
    BY <1>5, <2>1, <2>2
<1>7. ASSUME NEW n \in Nat, n \in Good PROVE n + 1 \in Good
  <2>0. SUFFICES ASSUME n + 1 <= 30
                 PROVE g[n + 1] = (a % P(n + 1)) + (b % P(n + 1))
    <3>1. n + 1 \in Nat
      OBVIOUS
    <3> QED
      BY <3>1, Zenon
  <2> DEFINE A == BitOf(a, n)
             B == BitOf(b, n)
             ra == a % P(n)
             rb == b % P(n)
             p == P(n)
  <2>1. n + 1 \in 1..30 /\ (n + 1) - 1 = n /\ g[n] = ra + rb
    BY <1>7, <2>0
  <2>2. g[n + 1] = IF A + B > 0 THEN g[n] + p ELSE g[n]
    <3>1. g[n + 1] = IF BitOf(a, (n + 1) - 1) + BitOf(b, (n + 1) - 1) > 0
                     THEN g[(n + 1) - 1] + 2^((n + 1) - 1) ELSE g[(n + 1) - 1]
      BY <1>5, <2>1
    <3> QED
      BY <2>1, <3>1 DEF P
  <2>3. /\ A \in {0, 1} /\ a % P(n + 1) = ra + p * A
        /\ B \in {0, 1} /\ b % P(n + 1) = rb + p * B
    BY <1>2, BitIs DEF P
  <2>4. A = 0 \/ B = 0
    BY <1>3
  <2>5. p \in Nat /\ ra \in Int /\ rb \in Int
    <3>1. p \in Nat /\ p > 0
      BY <1>1
    <3> QED
      BY <1>2, <3>1
  <2> HIDE DEF A, B, ra, rb, p
  <2>6. g[n + 1] = (ra + p * A) + (rb + p * B)
    <3>1. p * A = IF A = 1 THEN p ELSE 0
      BY <2>3, <2>5
    <3>2. p * B = IF B = 1 THEN p ELSE 0
      BY <2>3, <2>5
    <3> QED
      BY <2>1, <2>2, <2>3, <2>4, <2>5, <3>1, <3>2
  <2> QED
    BY <2>3, <2>6
<1> HIDE DEF Good
<1>8. Nat \subseteq Good
  BY <1>6, <1>7, Induction
<1>9. g[30] = (a % P(30)) + (b % P(30))
  BY <1>8 DEF Good
<1>10. a % P(30) = a /\ b % P(30) = b
  <2>1. P(30) \in Nat /\ P(30) > 0
    BY <1>1
  <2>2. a \in 0..(P(30) - 1) /\ b \in 0..(P(30) - 1)
    <3>1. a < P(30) /\ b < P(30)
      BY <1>4 DEF P
    <3> QED
      BY <1>2, <2>1, <3>1
  <2> QED
    BY <1>2, <2>1, <2>2, RestIs
<1> QED
  BY <1>5, <1>9, <1>10 DEF a

\* x is a multiple of 2^k, and b has no more than k bits.
Apart(x, b, k, h) == x = 2^k * h /\ b \in 0..2^k - 1 /\ x < 2^30

LEMMA OrApart ==
    ASSUME NEW x, NEW b, NEW k \in Nat, NEW h \in Nat, k <= 30, Apart(x, b, k, h)
    PROVE  Or(x, b) = x + b
<1>1. x = 2^k * h /\ b \in 0..2^k - 1 /\ 2^k * h < 2^30
  BY DEF Apart
<1>2. Or(2^k * h, b) = 2^k * h + b
  BY <1>1, OrIsSum
<1> QED
  BY <1>1, <1>2

\* The numbers that dates and times are made of
TwoDigits == 0..99
Years     == 0..9999
Months    == 0..12
Days      == 0..31
Hours     == 0..838
Sixty     == 0..59

LEMMA NumbersAre ==
    /\ Months \subseteq TwoDigits /\ Days \subseteq TwoDigits /\ Sixty \subseteq TwoDigits
    /\ Years \subseteq Nat /\ Hours \subseteq Nat /\ TwoDigits \subseteq Nat
  BY SMT DEF TwoDigits, Years, Months, Days, Hours, Sixty

LEMMA DecimalNone == Decimal(<< >>) = 0
<1>1. << >> \in Seq(Int) /\ Len(<< >>) = 0
  OBVIOUS
<1>2. PICK g \in [0..0 -> Int] : g[0] = 0 /\ Decimal(<< >>) = g[0]
  <2>1. \E g \in [0..Len(<< >>) -> Int] : g[0] = 0 /\ Decimal(<< >>) = g[Len(<< >>)]
    BY <1>1, DecimalIs
  <2> QED
    BY <1>1, <2>1
<1> QED
  BY <1>2

\* A digit more
LEMMA DecimalMore ==
    ASSUME NEW s \in Seq(Int), NEW c \in Int
    PROVE  Decimal(s \o <<c>>) = 10 * Decimal(s) + (c - 48)
<1> DEFINE t == s \o <<c>>
           N == Len(s)
<1>1. <<c>> \in Seq(Int) /\ Len(<<c>>) = 1 /\ <<c>>[1] = c
  OBVIOUS
<1>2. N \in Nat
  BY LenProperties
<1>3. /\ t \in Seq(Int) /\ Len(t) = N + 1
      /\ \A n \in 1..N : t[n] = s[n]
      /\ t[N + 1] = c
  <2> DEFINE u == <<c>>
  <2> HIDE DEF u
  <2>1. u \in Seq(Int) /\ Len(u) = 1 /\ u[1] = c
    BY <1>1 DEF u
  <2>2. /\ s \o u \in Seq(Int) /\ Len(s \o u) = Len(s) + Len(u)
        /\ \A n \in 1..Len(s) + Len(u) :
              (s \o u)[n] = IF n <= Len(s) THEN s[n] ELSE u[n - Len(s)]
    BY <2>1, ConcatProperties
  <2>3. t = s \o u
    BY DEF u
  <2> HIDE DEF t
  <2>4. Len(t) = N + 1 /\ N + 1 \in 1..N + 1 /\ ~(N + 1 <= N) /\ (N + 1) - N = 1
    BY <1>2, <2>1, <2>2, <2>3
  <2>5. \A n \in 1..N : n \in 1..N + 1 /\ n <= N
    BY <1>2
  <2> QED
    BY <2>1, <2>2, <2>3, <2>4, <2>5
<1> HIDE DEF t
<1>4. PICK g \in [0..N -> Int] :
         /\ g[0] = 0
         /\ \A n \in 1..N : g[n] = 10 * g[n - 1] + (s[n] - 48)
         /\ Decimal(s) = g[N]
  BY DecimalIs
<1>5. PICK h \in [0..N + 1 -> Int] :
         /\ h[0] = 0
         /\ \A n \in 1..N + 1 : h[n] = 10 * h[n - 1] + (t[n] - 48)
         /\ Decimal(t) = h[N + 1]
  <2>1. \E h \in [0..Len(t) -> Int] :
           /\ h[0] = 0
           /\ \A n \in 1..Len(t) : h[n] = 10 * h[n - 1] + (t[n] - 48)
           /\ Decimal(t) = h[Len(t)]
    BY <1>3, DecimalIs
  <2> QED
    BY <1>3, <2>1
<1>6. SameSteps(h, g, N)
  <2>1. ASSUME NEW n \in 1..N, h[n - 1] = g[n - 1] PROVE h[n] = g[n]
    <3>1. n \in 1..N + 1
      BY <1>2
    <3>2. h[n] = 10 * h[n - 1] + (t[n] - 48) /\ g[n] = 10 * g[n - 1] + (s[n] - 48)
      BY <1>4, <1>5, <3>1
    <3>3. t[n] = s[n]
      BY <1>3
    <3> QED
      BY <2>1, <3>2, <3>3
  <2> QED
    BY <1>4, <1>5, <2>1 DEF SameSteps
<1>7. h[N] = g[N]
  BY <1>2, <1>6, LoopsAgree
<1>8. N + 1 \in 1..N + 1 /\ (N + 1) - 1 = N
  BY <1>2
<1>9. h[N + 1] = 10 * h[N] + (c - 48)
  BY <1>3, <1>5, <1>8
<1> QED
  BY <1>4, <1>5, <1>7, <1>9 DEF t

LEMMA TwoIs ==
    ASSUME NEW n \in 0..99
    PROVE  /\ Two(n) \in Seq(Int) /\ Len(Two(n)) = 2
           /\ Two(n) = <<48 + n \div 10>> \o <<48 + (n % 10)>>
<1>1. 48 + n \div 10 \in Int /\ 48 + (n % 10) \in Int
  OBVIOUS
<1> QED
  BY <1>1 DEF Two

\* Two digits more
LEMMA DecimalTwo ==
    ASSUME NEW s \in Seq(Int), NEW n \in 0..99
    PROVE  s \o Two(n) \in Seq(Int) /\ Decimal(s \o Two(n)) = 100 * Decimal(s) + n
<1> DEFINE a == 48 + n \div 10
           b == 48 + (n % 10)
<1>1. a \in Int /\ b \in Int /\ 10 * (a - 48) + (b - 48) = n
  OBVIOUS
<1>2. Two(n) = <<a>> \o <<b>>
  BY TwoIs
<1> HIDE DEF a, b
<1>3. <<a>> \in Seq(Int) /\ <<b>> \in Seq(Int)
  BY <1>1
<1>4. s \o Two(n) = (s \o <<a>>) \o <<b>>
  BY <1>2, <1>3, ConcatAssociative
<1>5. s \o <<a>> \in Seq(Int)
  BY <1>3, ConcatProperties
<1>6. Decimal(s \o <<a>>) = 10 * Decimal(s) + (a - 48)
  BY <1>1, DecimalMore
<1>7. Decimal((s \o <<a>>) \o <<b>>) = 10 * Decimal(s \o <<a>>) + (b - 48)
  <2> DEFINE t == s \o <<a>>
  <2>1. t \in Seq(Int)
    BY <1>5
  <2> HIDE DEF t
  <2>2. Decimal(t \o <<b>>) = 10 * Decimal(t) + (b - 48)
    BY <1>1, <2>1, DecimalMore
  <2> QED
    BY <2>2 DEF t
<1>8. Decimal(s) \in Int
  BY DecimalType
<1>9. 10 * (10 * Decimal(s) + (a - 48)) + (b - 48) = 100 * Decimal(s) + n
  <2> DEFINE D == Decimal(s)
  <2>1. D \in Int /\ n = 10 * (a - 48) + (b - 48)
    BY <1>1, <1>8
  <2> HIDE DEF D
  <2>2. 10 * (10 * D + (a - 48)) + (b - 48) = 100 * D + (10 * (a - 48) + (b - 48))
    BY <1>1, <2>1
  <2> QED
    BY <2>1, <2>2 DEF D
<1>10. (s \o <<a>>) \o <<b>> \in Seq(Int)
  BY <1>3, <1>5, ConcatProperties
<1> QED
  BY <1>4, <1>6, <1>7, <1>9, <1>10

\* Six digits more
Hundreds(x, n) == 100 * x + n
SixMore(t, s, b, c, d) == t = s \o Two(b) \o Two(c) \o Two(d)

LEMMA DecimalSix ==
    ASSUME NEW s \in Seq(Int), NEW b \in TwoDigits, NEW c \in TwoDigits, NEW d \in TwoDigits,
           NEW t, SixMore(t, s, b, c, d)
    PROVE  /\ t \in Seq(Int) /\ Len(t) = Len(s) + 6
           /\ Decimal(t) = Hundreds(Hundreds(Hundreds(Decimal(s), b), c), d)
<1> DEFINE s2 == s \o Two(b)
           s3 == s2 \o Two(c)
           s4 == s3 \o Two(d)
<1>1. ASSUME NEW u \in Seq(Int), NEW n \in TwoDigits
      PROVE  /\ u \o Two(n) \in Seq(Int) /\ Len(u \o Two(n)) = Len(u) + 2
             /\ Decimal(u \o Two(n)) = Hundreds(Decimal(u), n)
  <2>0. n \in 0..99
    BY DEF TwoDigits
  <2>1. Two(n) \in Seq(Int) /\ Len(Two(n)) = 2
    BY <2>0, TwoIs
  <2>2. Len(u \o Two(n)) = Len(u) + Len(Two(n))
    BY <2>1, ConcatProperties
  <2> QED
    BY <2>0, <2>1, <2>2, DecimalTwo DEF Hundreds
<1>2. s2 \in Seq(Int) /\ Len(s2) = Len(s) + 2 /\ Decimal(s2) = Hundreds(Decimal(s), b)
  BY <1>1
<1> HIDE DEF s2
<1>3. s3 \in Seq(Int) /\ Len(s3) = Len(s2) + 2 /\ Decimal(s3) = Hundreds(Decimal(s2), c)
  BY <1>1, <1>2
<1> HIDE DEF s3
<1>4. s4 \in Seq(Int) /\ Len(s4) = Len(s3) + 2 /\ Decimal(s4) = Hundreds(Decimal(s3), d)
  BY <1>1, <1>3
<1>5. t = s4
  BY DEF SixMore, s2, s3
<1> HIDE DEF s4
<1>6. Len(s) \in Nat
  BY LenProperties
<1>7. Len(s4) = Len(s) + 6
  BY <1>2, <1>3, <1>4, <1>6
<1> QED
  BY <1>2, <1>3, <1>4, <1>5, <1>7

LEMMA DecimalOne ==
    ASSUME NEW a \in 0..99
    PROVE  /\ Decimal(Two(a)) = a
           /\ a < 10 => Decimal(<<48 + a>>) = a
<1>1. << >> \in Seq(Int)
  OBVIOUS
<1>2. Decimal(Two(a)) = a
  <2>1. << >> \o Two(a) = Two(a)
    BY TwoIs, ConcatEmptySeq
  <2>2. Decimal(<< >> \o Two(a)) = 100 * Decimal(<< >>) + a
    BY <1>1, DecimalTwo
  <2> QED
    BY <2>1, <2>2, DecimalNone
<1>3. Decimal(<<48 + a>>) = a
  <2> DEFINE c == 48 + a
  <2>1. c \in Int /\ c - 48 = a
    OBVIOUS
  <2> HIDE DEF c
  <2>2. << >> \o <<c>> = <<c>>
    BY <2>1, ConcatEmptySeq
  <2>3. Decimal(<< >> \o <<c>>) = 10 * Decimal(<< >>) + (c - 48)
    BY <1>1, <2>1, DecimalMore
  <2>4. Decimal(<<c>>) = 10 * 0 + a
    BY <2>1, <2>2, <2>3, DecimalNone
  <2> QED
    BY <2>4 DEF c
<1> QED
  BY <1>2, <1>3

LEMMA EightDigits ==
    ASSUME NEW a \in TwoDigits, NEW b \in TwoDigits, NEW c \in TwoDigits, NEW d \in TwoDigits,
           NEW s, SixMore(s, Two(a), b, c, d)
    PROVE  /\ s \in Seq(Int) /\ Len(s) = 8
           /\ Decimal(s) = Hundreds(Hundreds(Hundreds(a, b), c), d)
<1> DEFINE first == Two(a)
<1>1. a \in 0..99
  BY DEF TwoDigits
<1>2. first \in Seq(Int) /\ Len(first) = 2
  BY <1>1, TwoIs
<1>3. Decimal(first) = a
  BY <1>1, DecimalOne
<1>4. SixMore(s, first, b, c, d)
  OBVIOUS
<1> HIDE DEF first
<1>5. ASSUME NEW u \in Seq(Int), SixMore(s, u, b, c, d)
      PROVE  /\ s \in Seq(Int) /\ Len(s) = Len(u) + 6
             /\ Decimal(s) = Hundreds(Hundreds(Hundreds(Decimal(u), b), c), d)
  <2>1. s \in Seq(Int)
    BY <1>5, DecimalSix
  <2>2. Len(s) = Len(u) + 6
    BY <1>5, DecimalSix
  <2>3. Decimal(s) = Hundreds(Hundreds(Hundreds(Decimal(u), b), c), d)
    BY <1>5, DecimalSix
  <2> QED
    BY <2>1, <2>2, <2>3
<1>6. s \in Seq(Int) /\ Len(s) = Len(first) + 6
  BY <1>2, <1>4, <1>5
<1>7. Decimal(s) = Hundreds(Hundreds(Hundreds(Decimal(first), b), c), d)
  BY <1>2, <1>4, <1>5
<1> QED
  BY <1>2, <1>3, <1>6, <1>7

LEMMA DateDigitsAre ==
    ASSUME NEW year \in Years, NEW month \in TwoDigits, NEW day \in TwoDigits,
           NEW s, s = DateDigits(year, month, day)
    PROVE  s \in Seq(Int) /\ Len(s) = 8 /\ Decimal(s) = Hundreds(Hundreds(year, month), day)
<1> DEFINE a == year \div 100
           b == year % 100
<1>1. a \in TwoDigits /\ b \in TwoDigits /\ Hundreds(a, b) = year
  <2>1. year \in Int /\ 0 <= year /\ year <= 9999
    BY SMT DEF Years
  <2>2. a \in 0..99 /\ b \in 0..99 /\ 100 * a + b = year
    BY <2>1, SMT
  <2> HIDE DEF a, b
  <2> QED
    BY <2>2, SMT DEF TwoDigits, Hundreds
<1>2. SixMore(s, Two(a), b, month, day)
  BY DEF SixMore, DateDigits
<1> HIDE DEF a, b
<1>3. /\ s \in Seq(Int) /\ Len(s) = 8
      /\ Decimal(s) = Hundreds(Hundreds(Hundreds(a, b), month), day)
  BY <1>1, <1>2, EightDigits
<1> QED
  BY <1>1, <1>3

LEMMA TimeDigitsAre ==
    ASSUME NEW hours \in Hours, NEW minutes \in TwoDigits, NEW seconds \in TwoDigits,
           NEW s, s = TimeDigits(hours, minutes, seconds)
    PROVE  /\ s \in Seq(Int) /\ Decimal(s) = Hundreds(Hundreds(hours, minutes), seconds)
           /\ hours < 100 => Len(s) = 6
<1> DEFINE a == hours \div 100
           b == hours % 100
           first == IF hours > 99 THEN <<48 + a>> ELSE << >>
<1>1. /\ a \in 0..9 /\ b \in TwoDigits /\ Hundreds(a, b) = hours
      /\ hours < 100 => a = 0
      /\ hours \in Nat
  <2>1. hours \in Int /\ 0 <= hours /\ hours <= 838
    BY SMT DEF Hours
  <2>2. /\ a \in 0..9 /\ b \in 0..99 /\ 100 * a + b = hours
        /\ hours < 100 => a = 0
    BY <2>1, SMT
  <2> HIDE DEF a, b
  <2> QED
    BY <2>1, <2>2, SMT DEF TwoDigits, Hundreds
<1>2. SixMore(s, first, b, minutes, seconds)
  BY DEF SixMore, TimeDigits
<1> HIDE DEF a, b
<1>3. first \in Seq(Int) /\ Decimal(first) = a /\ (hours < 100 => Len(first) = 0)
  <2>1. CASE hours > 99
    <3>1. first = <<48 + a>> /\ <<48 + a>> \in Seq(Int)
      BY <1>1, <2>1, SMT
    <3>2. Decimal(<<48 + a>>) = a
      BY <1>1, DecimalOne, SMT
    <3>3. ~(hours < 100)
      BY <1>1, <2>1, SMT
    <3> QED
      BY <3>1, <3>2, <3>3
  <2>2. CASE ~(hours > 99)
    <3>1. first = << >>
      BY <2>2
    <3>2. a = 0
      BY <1>1, <2>2
    <3> HIDE DEF first
    <3>3. << >> \in Seq(Int) /\ Len(<< >>) = 0
      OBVIOUS
    <3> QED
      BY <3>1, <3>2, <3>3, DecimalNone
  <2> QED
    BY <2>1, <2>2
<1> HIDE DEF first
<1>4. /\ s \in Seq(Int) /\ Len(s) = Len(first) + 6
      /\ Decimal(s) = Hundreds(Hundreds(Hundreds(Decimal(first), b), minutes), seconds)
  BY <1>1, <1>2, <1>3, DecimalSix
<1>5. Decimal(s) = Hundreds(Hundreds(hours, minutes), seconds)
  BY <1>1, <1>3, <1>4
<1>6. hours < 100 => Len(s) = 6
  BY <1>3, <1>4
<1> QED
  BY <1>4, <1>5, <1>6

\* The three parts of a number of six digits or more
LEMMA PartsAre ==
    ASSUME NEW a \in Nat, NEW b \in TwoDigits, NEW c \in TwoDigits,
           NEW n, n = Hundreds(Hundreds(a, b), c)
    PROVE  n \in Nat /\ n \div 10000 = a /\ (n \div 100) % 100 = b /\ n % 100 = c
<1> DEFINE h == 100 * a + b
           r == 100 * b + c
<1>0. b \in 0..99 /\ c \in 0..99 /\ n = 100 * (100 * a + b) + c
  BY SMT DEF TwoDigits, Hundreds
<1>1. n \in Nat /\ h \in Int /\ r \in 0..9999 /\ n = 10000 * a + r /\ n = 100 * h + c
  BY <1>0, SMT
<1>2. h \in Int /\ r \in Int /\ 0 <= r /\ r <= 9999 /\ a \in Int
      /\ b \in Int /\ 0 <= b /\ b <= 99 /\ c \in Int /\ 0 <= c /\ c <= 99
  BY <1>0, <1>1, SMT
<1>3. h % 100 = b
  BY <1>2, SMT
<1> HIDE DEF h, r
<1>4. n \div 10000 = a
  BY <1>1, <1>2, SMT
<1>6. n \div 100 = h /\ n % 100 = c
  BY <1>1, <1>2, SMT
<1>5. (n \div 100) % 100 = b
  BY <1>3, <1>6, SMT
<1> QED
  BY <1>1, <1>4, <1>5, <1>6

\* A date in 24 bits
Packed(year, month, day) == 512 * year + 32 * month + day

LEMMA PackDateIs ==
    ASSUME NEW year \in Years, NEW month \in Months, NEW day \in Days
    PROVE  PackDate(year, month, day) = Packed(year, month, day)
<1>1. 2^5 = 32 /\ 2^9 = 512 /\ 2^30 = 1073741824
  BY SMT
<1>0. year \in 0..9999 /\ month \in 0..12 /\ day \in 0..31
  BY SMT DEF Years, Months, Days
<1> DEFINE m == month * 32
           h == 16 * year + month
<1>2. m \in 0..512 - 1 /\ 512 * year < 1073741824 /\ year \in Nat /\ year * 512 = 512 * year
  BY <1>0, SMT
<1>3. 9 \in Nat /\ 9 <= 30 /\ 5 \in Nat /\ 5 <= 30
  BY SMT
<1>4. 32 * h = 512 * year + m /\ h \in Nat /\ 32 * h < 1073741824 /\ day \in 0..32 - 1
  BY <1>0, SMT
<1>5. PackDate(year, month, day) = Or(Or(year * 512, m), day)
  BY SMT DEF PackDate
<1> HIDE DEF m, h
<1>6. Or(512 * year, m) = 512 * year + m
  <2>1. Apart(512 * year, m, 9, year)
    BY <1>1, <1>2, SMT DEF Apart
  <2> QED
    BY <1>2, <1>3, <2>1, OrApart, SMT
<1>7. Or(32 * h, day) = 32 * h + day
  <2>1. Apart(32 * h, day, 5, h)
    BY <1>1, <1>4, SMT DEF Apart
  <2> QED
    BY <1>3, <1>4, <2>1, OrApart, SMT
<1>8. PackDate(year, month, day) = 32 * h + day
  BY <1>2, <1>4, <1>5, <1>6, <1>7, SMT
<1>9. m = month * 32 /\ h = 16 * year + month
  BY DEF m, h
<1>10. 32 * h + day = 512 * year + 32 * month + day
  BY <1>0, <1>4, <1>9, SMT
<1> QED
  BY <1>8, <1>10, SMT DEF Packed

LEMMA PackedIs ==
    ASSUME NEW year \in Years, NEW month \in Months, NEW day \in Days,
           NEW p, p = Packed(year, month, day)
    PROVE  /\ p \in Int /\ p % 2^24 = p
           /\ p \div 512 = year /\ (p \div 32) % 16 = month /\ p % 32 = day
<1>1. /\ year \in Int /\ 0 <= year /\ year <= 9999
      /\ month \in Int /\ 0 <= month /\ month <= 12
      /\ day \in Int /\ 0 <= day /\ day <= 31
  BY SMT DEF Years, Months, Days
<1>2. p = 512 * year + 32 * month + day
  BY SMT DEF Packed
<1>3. p \in Int /\ 0 <= p /\ p < 16777216
  BY <1>1, <1>2, SMT
<1>4. p % 2^24 = p
  BY <1>3, SMT
<1>5. p \div 512 = year
  BY <1>1, <1>2, SMT
<1>6. (p \div 32) % 16 = month
  <2>1. p \div 32 = 16 * year + month
    BY <1>1, <1>2, SMT
  <2>2. (16 * year + month) % 16 = month
    BY <1>1, SMT
  <2> QED
    BY <2>1, <2>2, SMT
<1>7. p % 32 = day
  BY <1>1, <1>2, SMT
<1> QED
  BY <1>3, <1>4, <1>5, <1>6, <1>7

LEMMA TimeNumberIs ==
    ASSUME NEW h \in Hours, NEW m \in Sixty, NEW s \in Sixty,
           NEW n, n = Hundreds(Hundreds(h, m), s)
    PROVE  n \in Int /\ 0 <= n /\ n <= 8385959 /\ n # 99 /\ (n = 0 => h = 0 /\ m = 0 /\ s = 0)
<1>1. /\ h \in Int /\ 0 <= h /\ h <= 838
      /\ m \in Int /\ 0 <= m /\ m <= 59
      /\ s \in Int /\ 0 <= s /\ s <= 59
  BY SMT DEF Hours, Sixty
<1>2. n = 100 * (100 * h + m) + s
  BY SMT DEF Hundreds
<1> QED
  BY <1>1, <1>2, SMT

LEMMA OneAndThree ==
    ASSUME NEW a \in Int, NEW b \in Int, NEW c \in Int, NEW d \in Int
    PROVE  <<a>> \o <<b, c, d>> = <<a, b, c, d>>
<1> DEFINE u == <<a>>
           v == <<b, c, d>>
           w == <<a, b, c, d>>
<1>1. u \in Seq(Int) /\ Len(u) = 1 /\ u[1] = a
  OBVIOUS
<1>2. v \in Seq(Int) /\ Len(v) = 3 /\ v[1] = b /\ v[2] = c /\ v[3] = d
  OBVIOUS
<1>3. w \in Seq(Int) /\ Len(w) = 4 /\ w[1] = a /\ w[2] = b /\ w[3] = c /\ w[4] = d
  OBVIOUS
<1> HIDE DEF u, v, w
<1>4. /\ u \o v \in Seq(Int) /\ Len(u \o v) = 4
      /\ \A n \in 1..4 : (u \o v)[n] = IF n <= 1 THEN u[n] ELSE v[n - 1]
  <2>1. /\ u \o v \in Seq(Int) /\ Len(u \o v) = Len(u) + Len(v)
        /\ \A n \in 1..Len(u) + Len(v) :
              (u \o v)[n] = IF n <= Len(u) THEN u[n] ELSE v[n - Len(u)]
    BY <1>1, <1>2, ConcatProperties
  <2>2. Len(u) + Len(v) = 4 /\ Len(u) = 1
    BY <1>1, <1>2
  <2>3. ASSUME NEW n \in 1..4
        PROVE  (u \o v)[n] = IF n <= 1 THEN u[n] ELSE v[n - 1]
    BY <2>1, <2>2
  <2> QED
    BY <2>1, <2>2, <2>3
<1>5. ASSUME NEW n \in 1..4 PROVE (u \o v)[n] = w[n]
  <2>1. CASE n = 1
    BY <1>1, <1>2, <1>3, <1>4, <2>1
  <2>2. CASE n = 2
    <3>1. (u \o v)[n] = v[n - 1] /\ n - 1 = 1
      BY <1>4, <2>2
    <3> QED
      BY <1>2, <1>3, <2>2, <3>1
  <2>3. CASE n = 3
    <3>1. (u \o v)[n] = v[n - 1] /\ n - 1 = 2
      BY <1>4, <2>3
    <3> QED
      BY <1>2, <1>3, <2>3, <3>1
  <2>4. CASE n = 4
    <3>1. (u \o v)[n] = v[n - 1] /\ n - 1 = 3
      BY <1>4, <2>4
    <3> QED
      BY <1>2, <1>3, <2>4, <3>1
  <2>5. n = 1 \/ n = 2 \/ n = 3 \/ n = 4
    OBVIOUS
  <2> QED
    BY <2>1, <2>2, <2>3, <2>4, <2>5, Zenon
<1>6. u \o v = w
  BY <1>3, <1>4, <1>5, SeqEqual
<1> QED
  BY <1>6 DEF u, v, w

LEMMA ThreeAndThree ==
    ASSUME NEW a \in Int, NEW b \in Int, NEW c \in Int, NEW d \in Int, NEW e \in Int, NEW f \in Int
    PROVE  <<a, b, c>> \o <<d, e, f>> = <<a, b, c, d, e, f>>
<1> DEFINE u == <<a, b, c>>
           v == <<d, e, f>>
           w == <<a, b, c, d, e, f>>
<1>1. u \in Seq(Int) /\ Len(u) = 3 /\ u[1] = a /\ u[2] = b /\ u[3] = c
  OBVIOUS
<1>2. v \in Seq(Int) /\ Len(v) = 3 /\ v[1] = d /\ v[2] = e /\ v[3] = f
  OBVIOUS
<1>3. w \in Seq(Int) /\ Len(w) = 6 /\ w[1] = a /\ w[2] = b /\ w[3] = c /\ w[4] = d /\ w[5] = e /\ w[6] = f
  OBVIOUS
<1> HIDE DEF u, v, w
<1>4. /\ u \o v \in Seq(Int) /\ Len(u \o v) = 6
      /\ \A n \in 1..6 : (u \o v)[n] = IF n <= 3 THEN u[n] ELSE v[n - 3]
  <2>1. /\ u \o v \in Seq(Int) /\ Len(u \o v) = Len(u) + Len(v)
        /\ \A n \in 1..Len(u) + Len(v) :
              (u \o v)[n] = IF n <= Len(u) THEN u[n] ELSE v[n - Len(u)]
    BY <1>1, <1>2, ConcatProperties
  <2>2. Len(u) + Len(v) = 6 /\ Len(u) = 3
    BY <1>1, <1>2
  <2>3. ASSUME NEW n \in 1..6
        PROVE  (u \o v)[n] = IF n <= 3 THEN u[n] ELSE v[n - 3]
    BY <2>1, <2>2
  <2> QED
    BY <2>1, <2>2, <2>3
<1>5. ASSUME NEW n \in 1..6 PROVE (u \o v)[n] = w[n]
  <2>1. CASE n = 1
    BY <1>1, <1>2, <1>3, <1>4, <2>1
  <2>2. CASE n = 2
    BY <1>1, <1>2, <1>3, <1>4, <2>2
  <2>3. CASE n = 3
    BY <1>1, <1>2, <1>3, <1>4, <2>3
  <2>4. CASE n = 4
    BY <1>1, <1>2, <1>3, <1>4, <2>4
  <2>5. CASE n = 5
    BY <1>1, <1>2, <1>3, <1>4, <2>5
  <2>6. CASE n = 6
    BY <1>1, <1>2, <1>3, <1>4, <2>6
  <2>7. n = 1 \/ n = 2 \/ n = 3 \/ n = 4 \/ n = 5 \/ n = 6
    OBVIOUS
  <2> QED
    BY <2>1, <2>2, <2>3, <2>4, <2>5, <2>6, <2>7, Zenon
<1>6. u \o v = w
  BY <1>3, <1>4, <1>5, SeqEqual
<1> QED
  BY <1>6 DEF u, v, w

LEMMA YearIs ==
    ASSUME NEW year \in Years
    PROVE  year % 10000 = year
<1>1. year \in Int /\ 0 <= year /\ year <= 9999
  BY SMT DEF Years
<1> QED
  BY <1>1, SMT

LEMMA IsDateIs ==
    ASSUME NEW text, Item(text) \in Seq(Int), IsDate(text)
    PROVE  /\ text.type = "Date" => SaysDate(text.says, DigitsOf(text), IsNegative(text))
           /\ text.type = "Time" => SaysTime(text.says, DigitsOf(text), IsNegative(text))
           /\ text.type = "Datetime" => SaysDatetime(text.says, DigitsOf(text), IsNegative(text))
<1> DEFINE s == AsString(Item(text))
<1>1. text.type \in Dates => Len(s) <= DateChars
  BY DEF IsDate
<1>2. text.type \in Dates => DigitsIn(s) = DigitsOf(text)
  BY <1>1, DigitsOfIs
<1>3. /\ text.type = "Date" => SaysDate(text.says, DigitsIn(s), IsNegative(text))
      /\ text.type = "Time" => SaysTime(text.says, DigitsIn(s), IsNegative(text))
      /\ text.type = "Datetime" => SaysDatetime(text.says, DigitsIn(s), IsNegative(text))
  BY DEF IsDate
<1> HIDE DEF s
<1>4. Dates = {"Date", "Time", "Datetime"}
  BY DEF Dates
<1> QED
  BY <1>2, <1>3, <1>4

\* The parts of what is not negative are those of its figures.
DateParts(n) == <<(n \div 10000) % 10000, (n \div 100) % 100, n % 100>>

LEMMA FactorDateIs == ASSUME NEW n \in Nat PROVE factor_YYYYMMDD(n) = DateParts(n)
<1>1. (IF n < 0 THEN -1 ELSE 1) = 1 /\ 1 * n = n
  OBVIOUS
<1>2. /\ (n \div 10000) % 10000 \in Int
      /\ (n \div 100) % 100 \in Int
      /\ n % 100 \in Int
  OBVIOUS
<1> DEFINE y == (n \div 10000) % 10000
           m == (n \div 100) % 100
           d == n % 100
<1>3. factor_YYYYMMDD(n) = <<1 * y, 1 * m, 1 * d>>
  BY <1>1 DEF factor_YYYYMMDD
<1>4. y \in Int /\ m \in Int /\ d \in Int
  BY <1>2
<1> HIDE DEF y, m, d
<1>5. 1 * y = y /\ 1 * m = m /\ 1 * d = d
  BY <1>4
<1>6. factor_YYYYMMDD(n) = <<y, m, d>>
  BY <1>3, <1>5
<1> QED
  BY <1>6 DEF DateParts, y, m, d

\* What date_value() makes of a date is taken apart again by field_to_tm().
LEMMA DateShown ==
    ASSUME NEW col, col.type = "Date", NEW text, NEW says,
           SaysDate(says, DigitsOf(text), IsNegative(text))
    PROVE  field_to_tm("Date", date_value(col, text)) = says
<1> DEFINE y == says[1]
           m == says[2]
           d == says[3]
           n == Decimal(DigitsOf(text))
           v == date_value(col, text)
           p == Packed(y, m, d)
<1>1. says \in DatesSaid /\ ~IsNegative(text) /\ DigitsOf(text) = DateDigits(y, m, d)
  BY Zenon DEF SaysDate
<1>2. y \in Years /\ m \in Months /\ d \in Days
  BY <1>1, SMT DEF DatesSaid, Years, Months, Days
<1>3. says = <<y, m, d>>
  BY <1>1, SMT DEF DatesSaid
<1> DEFINE tm == factor_YYYYMMDD(n)
<1>0. SignedOf(text) = n
  BY <1>1 DEF SignedOf
<1>4. v = <<PackDate(tm[1], tm[2], tm[3]) % 2^24>>
  BY <1>0, DateValueIs
<1> HIDE DEF y, m, d, v
<1>5. n = Hundreds(Hundreds(y, m), d)
  BY <1>1, <1>2, NumbersAre, DateDigitsAre
<1> HIDE DEF n
<1>6. n \in Nat /\ n \div 10000 = y /\ (n \div 100) % 100 = m /\ n % 100 = d
  BY <1>2, <1>5, NumbersAre, PartsAre
<1>7. tm[1] = y /\ tm[2] = m /\ tm[3] = d
  <2>1. (n \div 10000) % 10000 = y
    BY <1>2, <1>6, YearIs
  <2>2. n \in Nat
    BY <1>6
  <2>3. tm = DateParts(n)
    BY <2>2, FactorDateIs, Zenon
  <2>4. tm = <<y, m, d>>
    BY <1>6, <2>1, <2>3 DEF DateParts
  <2> HIDE DEF tm
  <2> QED
    BY <2>4
<1> HIDE DEF tm
<1>8. PackDate(y, m, d) = p
  BY <1>2, PackDateIs
<1> HIDE DEF p
<1>9. p % 2^24 = p /\ p \div 512 = y /\ (p \div 32) % 16 = m /\ p % 32 = d
  BY <1>2, PackedIs DEF p
<1>10. v = <<p>>
  BY <1>4, <1>7, <1>8, <1>9, SMT
<1>11. v[1] = p
  BY <1>10
<1>12. field_to_tm("Date", v) = <<v[1] \div 512, (v[1] \div 32) % 16, v[1] % 32>>
  BY DEF field_to_tm
<1>13. field_to_tm("Date", v) = <<y, m, d>>
  BY <1>9, <1>11, <1>12
<1> QED
  BY <1>3, <1>13 DEF v

\* the three parts of a time
LEMMA FactorIs ==
    ASSUME NEW h \in Nat, NEW m \in TwoDigits, NEW s \in TwoDigits, NEW n,
           n = Hundreds(Hundreds(h, m), s)
    PROVE  factor_HHMMSS(n) = <<h, m, s>> /\ factor_HHMMSS(-n) = <<h, m, s>>
<1>1. n \in Nat /\ n \div 10000 = h /\ (n \div 100) % 100 = m /\ n % 100 = s
  BY PartsAre
<1>2. (IF n < 0 THEN -n ELSE n) = n /\ (IF -n < 0 THEN -(-n) ELSE -n) = n
  BY <1>1, SMT
<1>3. factor_HHMMSS(n) = <<n \div 10000, (n \div 100) % 100, n % 100>>
  BY <1>2, SMT DEF factor_HHMMSS
<1>4. factor_HHMMSS(-n) = <<n \div 10000, (n \div 100) % 100, n % 100>>
  BY <1>2, SMT DEF factor_HHMMSS
<1> QED
  BY <1>1, <1>3, <1>4, SMT

LEMMA TimeShown ==
    ASSUME NEW col, col.type = "Time", NEW text, NEW says,
           SaysTime(says, DigitsOf(text), IsNegative(text))
    PROVE  field_to_tm("Time", date_value(col, text)) = says
<1> DEFINE g == says[1]
           h == says[2]
           m == says[3]
           s == says[4]
           n == Decimal(DigitsOf(text))
           x == SignedOf(text)
           v == date_value(col, text)
<1>1. /\ says \in TimesSaid /\ DigitsOf(text) = TimeDigits(h, m, s)
      /\ IsNegative(text) <=> g = 1
      /\ says # <<1, 0, 0, 0>>
  BY SMT DEF SaysTime
<1>2. g \in {0, 1} /\ h \in Hours /\ m \in Sixty /\ s \in Sixty
  BY <1>1, SMT DEF TimesSaid, Hours, Sixty
<1>3. says = <<g, h, m, s>>
  BY <1>1, SMT DEF TimesSaid
<1>4. v = <<((x + 2^23) % 2^24) - 2^23>>
  BY DateValueIs
<1> HIDE DEF g, h, m, s, v
<1>5. ~(g = 1 /\ h = 0 /\ m = 0 /\ s = 0)
  BY <1>1, <1>3, Zenon
<1>6. n = Hundreds(Hundreds(h, m), s)
  BY <1>1, <1>2, NumbersAre, TimeDigitsAre
<1>7. x = IF g = 1 THEN -n ELSE n
  BY <1>1 DEF SignedOf
<1> HIDE DEF n, x
<1>8. n \in Int /\ 0 <= n /\ n <= 8385959 /\ n # 99 /\ (n = 0 => h = 0 /\ m = 0 /\ s = 0)
  BY <1>2, <1>6, TimeNumberIs
<1>9. x # -99 /\ x \in Int /\ (x < 0 <=> g = 1) /\ -8385959 <= x /\ x <= 8385959
  BY <1>5, <1>7, <1>8, SMT
<1>10. ((x + 2^23) % 2^24) - 2^23 = x
  BY <1>9, SMT
<1>11. v[1] = x
  BY <1>4, <1>10, SMT
<1>12. field_to_tm("Time", v) = IF v[1] = -99 THEN <<0, 0, 0, 0>>
                                ELSE <<IF v[1] < 0 THEN 1 ELSE 0>> \o factor_HHMMSS(v[1])
  BY DEF field_to_tm
<1>13. field_to_tm("Time", v) = <<g>> \o factor_HHMMSS(x)
  <2>1. (IF v[1] < 0 THEN 1 ELSE 0) = g /\ v[1] # -99
    BY <1>2, <1>9, <1>11, SMT
  <2> QED
    BY <1>11, <1>12, <2>1
<1>14. factor_HHMMSS(x) = <<h, m, s>>
  <2>1. factor_HHMMSS(n) = <<h, m, s>> /\ factor_HHMMSS(-n) = <<h, m, s>>
    BY <1>2, <1>6, NumbersAre, FactorIs
  <2> QED
    BY <1>7, <2>1
<1>15. <<g>> \o <<h, m, s>> = <<g, h, m, s>>
  <2>1. g \in Int /\ h \in Int /\ m \in Int /\ s \in Int
    BY <1>2, SMT DEF Hours, Sixty
  <2> QED
    BY <2>1, OneAndThree
<1>16. field_to_tm("Time", v) = says
  BY <1>3, <1>13, <1>14, <1>15
<1> QED
  BY <1>16 DEF v

\* A concatenation is cut into its parts again.
LEMMA PartsOfConcat ==
    ASSUME NEW s \in Seq(Int), NEW t \in Seq(Int), NEW u, u = s \o t
    PROVE  /\ Len(u) = Len(s) + Len(t)
           /\ SubSeq(u, 1, Len(s)) = s /\ SubSeq(u, Len(s) + 1, Len(u)) = t
<1> DEFINE k == Len(s)
           l == Len(t)
<1>1. /\ u \in Seq(Int) /\ Len(u) = k + l /\ k \in Nat /\ l \in Nat
      /\ \A n \in 1..k + l : u[n] = IF n <= k THEN s[n] ELSE t[n - k]
  BY ConcatProperties, LenProperties
<1> HIDE DEF k, l
<1>2. SubSeq(u, 1, k) = s
  <2>1. /\ SubSeq(u, 1, k) \in Seq(Int) /\ Len(SubSeq(u, 1, k)) = k
        /\ \A n \in 1..k : SubSeq(u, 1, k)[n] = u[n]
    <3>1. 1 \in 1..Len(u) + 1 /\ k \in 0..Len(u)
      BY <1>1
    <3>2. /\ SubSeq(u, 1, k) \in Seq(Int)
          /\ Len(SubSeq(u, 1, k)) = IF 1 <= k THEN k - 1 + 1 ELSE 0
          /\ \A i \in 1..k - 1 + 1 : SubSeq(u, 1, k)[i] = u[1 + i - 1]
      BY <1>1, <3>1, SubSeqProperties
    <3>3. /\ (IF 1 <= k THEN k - 1 + 1 ELSE 0) = k
          /\ 1..k - 1 + 1 = 1..k /\ \A n \in 1..k : 1 + n - 1 = n
      BY <1>1
    <3> QED
      BY <3>2, <3>3
  <2>2. ASSUME NEW n \in 1..k PROVE u[n] = s[n]
    <3>1. n \in 1..k + l /\ n <= k
      BY <1>1
    <3> QED
      BY <1>1, <3>1
  <2>3. \A n \in 1..k : SubSeq(u, 1, k)[n] = s[n]
    BY <2>1, <2>2
  <2> QED
    BY <2>1, <2>3, SeqEqual DEF k
<1>3. SubSeq(u, k + 1, k + l) = t
  <2> DEFINE w == SubSeq(u, k + 1, k + l)
  <2>1. w \in Seq(Int) /\ Len(w) = l /\ \A n \in 1..l : w[n] = u[k + n]
    <3>1. k + 1 \in 1..Len(u) + 1 /\ k + l \in k..Len(u)
      BY <1>1
    <3>2. /\ w \in Seq(Int)
          /\ Len(w) = IF k + 1 <= k + l THEN (k + l) - (k + 1) + 1 ELSE 0
          /\ \A i \in 1..(k + l) - (k + 1) + 1 : w[i] = u[(k + 1) + i - 1]
      BY <1>1, <3>1, SubSeqProperties
    <3>3. /\ (IF k + 1 <= k + l THEN (k + l) - (k + 1) + 1 ELSE 0) = l
          /\ (k + l) - (k + 1) + 1 = l
      BY <1>1
    <3>4. ASSUME NEW n \in 1..l PROVE w[n] = u[k + n]
      <4>1. (k + 1) + n - 1 = k + n
        BY <1>1
      <4> QED
        BY <3>2, <3>3, <4>1
    <3> QED
      BY <3>2, <3>3, <3>4
  <2>2. ASSUME NEW n \in 1..l PROVE u[k + n] = t[n]
    <3>1. k + n \in 1..k + l /\ ~(k + n <= k) /\ (k + n) - k = n
      BY <1>1
    <3> QED
      BY <1>1, <3>1
  <2> HIDE DEF w
  <2>3. \A n \in 1..l : w[n] = t[n]
    BY <2>1, <2>2
  <2>4. w = t
    BY <2>1, <2>3, SeqEqual DEF l
  <2> QED
    BY <2>4 DEF w
<1> QED
  BY <1>1, <1>2, <1>3 DEF k, l

LEMMA SaysDatetimeIs ==
    ASSUME NEW says, NEW digits, NEW negative, SaysDatetime(says, digits, negative)
    PROVE  /\ says[1] \in Years /\ says[2] \in Months /\ says[3] \in Days
           /\ says[4] \in 0..23 /\ says[5] \in Sixty /\ says[6] \in Sixty
           /\ says = <<says[1], says[2], says[3], says[4], says[5], says[6]>>
<1>1. says \in DatetimesSaid
  BY Zenon DEF SaysDatetime
<1>2. /\ says[1] \in Years /\ says[2] \in Months /\ says[3] \in Days
      /\ says[4] \in 0..23 /\ says[5] \in Sixty /\ says[6] \in Sixty
  BY <1>1, SMT DEF DatetimesSaid, Years, Months, Days, Sixty
<1>3. says = <<says[1], says[2], says[3], says[4], says[5], says[6]>>
  BY <1>1, SMT DEF DatetimesSaid
<1> QED
  BY <1>2, <1>3

LEMMA DatetimeShown ==
    ASSUME NEW col, col.type = "Datetime", NEW text, NEW says,
           SaysDatetime(says, DigitsOf(text), IsNegative(text))
    PROVE  field_to_tm("Datetime", date_value(col, text)) = says
<1> DEFINE y == says[1]
           m == says[2]
           d == says[3]
           hh == says[4]
           mm == says[5]
           ss == says[6]
           s == DateDigits(y, m, d)
           t == TimeDigits(hh, mm, ss)
           digits == DigitsOf(text)
           v == date_value(col, text)
           a == Decimal(s)
           b == Decimal(t)
           cut == IF Len(digits) > 6 THEN Len(digits) - 6 ELSE 0
<1>0. digits = s \o t /\ ~IsNegative(text)
  BY Zenon DEF SaysDatetime
<1>1. SaysDatetime(says, digits, IsNegative(text))
  OBVIOUS
<1>2. y \in Years /\ m \in Months /\ d \in Days /\ hh \in 0..23 /\ mm \in Sixty /\ ss \in Sixty
  BY <1>1, SaysDatetimeIs
<1>3. says = <<y, m, d, hh, mm, ss>>
  BY <1>1, SaysDatetimeIs
<1>4. v = <<Decimal(SubSeq(digits, 1, cut)), Decimal(SubSeq(digits, cut + 1, Len(digits)))>>
  <2> DEFINE aa == Decimal(SubSeq(digits, 1, cut))
             bb == Decimal(SubSeq(digits, cut + 1, Len(digits)))
  <2>1. v = Datetime(aa, bb, IsNegative(text))
    BY DateValueIs
  <2> HIDE DEF aa, bb, v
  <2>2. v = <<aa, bb>>
    BY <1>0, <2>1 DEF Datetime
  <2> QED
    BY <2>2 DEF aa, bb
<1> HIDE DEF y, m, d, hh, mm, ss, v, digits
<1>5. hh \in Hours /\ hh < 100
  BY <1>2, SMT DEF Hours
<1>6. s \in Seq(Int) /\ Len(s) = 8 /\ a = Hundreds(Hundreds(y, m), d)
  BY <1>2, NumbersAre, DateDigitsAre
<1>7. t \in Seq(Int) /\ Len(t) = 6 /\ b = Hundreds(Hundreds(hh, mm), ss)
  BY <1>2, <1>5, NumbersAre, TimeDigitsAre
<1> HIDE DEF s, t
<1>8. Len(digits) = 14 /\ SubSeq(digits, 1, 8) = s /\ SubSeq(digits, 9, 14) = t
  <2>1. /\ Len(digits) = Len(s) + Len(t)
        /\ SubSeq(digits, 1, Len(s)) = s /\ SubSeq(digits, Len(s) + 1, Len(digits)) = t
    <3>1. s \in Seq(Int) /\ t \in Seq(Int) /\ digits = s \o t
      BY <1>0, <1>6, <1>7
    <3> QED
      BY <3>1, PartsOfConcat, SMT
  <2>2. Len(digits) = 14 /\ Len(s) + 1 = 9
    BY <1>6, <1>7, <2>1
  <2> QED
    BY <1>6, <2>1, <2>2
<1>9. cut = 8 /\ cut + 1 = 9
  BY <1>8
<1> HIDE DEF cut
<1>10. v = <<a, b>>
  <2>1. SubSeq(digits, 1, cut) = s
    BY <1>8, <1>9
  <2>2. SubSeq(digits, cut + 1, Len(digits)) = t
    BY <1>8, <1>9
  <2> QED
    BY <1>4, <2>1, <2>2, Zenon
<1> HIDE DEF a, b
<1>11. v[1] = a /\ v[2] = b
  BY <1>10
<1>12. factor_YYYYMMDD(a) = <<y, m, d>>
  <2>1. y % 10000 = y
    BY <1>2, YearIs
  <2>2. a \in Nat /\ a \div 10000 = y /\ (a \div 100) % 100 = m /\ a % 100 = d
    BY <1>2, <1>6, NumbersAre, PartsAre
  <2>3. (a \div 10000) % 10000 = y
    BY <2>1, <2>2
  <2>4. a \in Nat
    BY <2>2
  <2>5. factor_YYYYMMDD(a) = DateParts(a)
    BY <2>4, FactorDateIs, Zenon
  <2> QED
    BY <2>2, <2>3, <2>5 DEF DateParts
<1>13. factor_HHMMSS(b) = <<hh, mm, ss>>
  BY <1>2, <1>5, <1>7, NumbersAre, FactorIs
<1>14. field_to_tm("Datetime", v) = factor_YYYYMMDD(v[1]) \o factor_HHMMSS(v[2])
  BY DEF field_to_tm
<1>15. <<y, m, d>> \o <<hh, mm, ss>> = <<y, m, d, hh, mm, ss>>
  <2>1. y \in Int /\ m \in Int /\ d \in Int /\ hh \in Int /\ mm \in Int /\ ss \in Int
    BY <1>2, SMT DEF Years, Months, Days, Sixty
  <2> QED
    BY <2>1, ThreeAndThree
<1>16. field_to_tm("Datetime", v) = says
  BY <1>3, <1>11, <1>12, <1>13, <1>14, <1>15
<1> QED
  BY <1>16 DEF v

\* The figures of a date, a time or a datetime are shown again: field_to_tm()
\* takes apart what MySQL::value() packed into 24 bits or a number.
THEOREM DatesAreShown == Spec => []DatesComeBack
<1>1. ValuesInv => DatesComeBack
  <2> SUFFICES ASSUME ValuesInv, NEW e \in Range(shown), said[e.k].kind = "date",
                      said[e.k].type = column.type
               PROVE  e.v = said[e.k].says
    BY DEF DatesComeBack
  <2> DEFINE text == said[e.k]
  <2>1. PICK i \in 1..Len(shown) : e = shown[i]
    BY SeqRange DEF ValuesInv, ShownInv
  <2>2. text # Operand
    BY DEF Operand
  <2>3. text \in Texts[column.type] /\ (Unknown(i) \/ e.v = ShownOf(value(column, text)))
    BY <2>1, <2>2, ShownFrom
  <2>4. column \in Columns
    BY DEF ValuesInv, TableInv
  <2>5. column.type \in Dates /\ IsDate(text) /\ Item(text) \in Seq(Int)
    BY <2>3, <2>4, TextsAre, ItemIs
  <2>6. column.type \notin Numeric \union Chars \union Binaries \union Blobs
    BY <2>5 DEF Numeric, Integral, Narrow, Dates, Chars, Binaries, Blobs
  <2>7. ~Unknown(i)
    BY <2>6 DEF Unknown, IsBlob
  <2>8. value(column, text) = date_value(column, text)
    BY <2>5, <2>6 DEF value
  <2>9. e.v = Printed(date_value(column, text))
    BY <2>3, <2>5, <2>6, <2>7, <2>8 DEF ShownOf
  <2>10. e.v = field_to_tm(column.type, date_value(column, text))
    <3>1. column.type \notin Integral /\ column.type # "Year" /\ column.type # "Bit"
      BY <2>6 DEF Numeric
    <3> QED
      BY <2>5, <2>9, <3>1 DEF Printed
  <2> HIDE DEF text
  <2>11. text.type = column.type
    BY DEF text
  <2>12. field_to_tm(column.type, date_value(column, text)) = text.says
    <3> DEFINE says == text.says
               digits == DigitsOf(text)
    <3>1. CASE column.type = "Date"
      <4>1. SaysDate(says, digits, IsNegative(text))
        BY <2>5, <2>11, <3>1, IsDateIs
      <4> QED
        BY <3>1, <4>1, DateShown
    <3>2. CASE column.type = "Time"
      <4>1. SaysTime(says, digits, IsNegative(text))
        BY <2>5, <2>11, <3>2, IsDateIs
      <4> QED
        BY <3>2, <4>1, TimeShown
    <3>3. CASE column.type = "Datetime"
      <4>1. SaysDatetime(says, digits, IsNegative(text))
        BY <2>5, <2>11, <3>3, IsDateIs
      <4> QED
        BY <3>3, <4>1, DatetimeShown
    <3> QED
      BY <2>5, <3>1, <3>2, <3>3 DEF Dates
  <2> QED
    BY <2>10, <2>12 DEF text
<1> QED
  BY <1>1, ValuesInvariant, PTL
=============================================================================
