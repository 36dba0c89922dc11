---------------------------- MODULE ResultBuffer ----------------------------
(* result_buffer: the growing buffers that pages and BLOBs are kept in, and  *)
(* the blocks of malloc() behind them.  A buffer frees its block only if     *)
(* alloc_sz is not 0, which is how overlay() hands a block over.             *)
EXTENDS Naturals

CONSTANTS Buffers,   \* result_buffer objects
          Blocks,    \* what malloc() can return
          Null,
          Garbage    \* what alloc_sz may be before init()

ASSUME BufferAssumption == Null \notin Blocks /\ Garbage \subseteq Nat

VARIABLES heap,    \* the size of each block; of a block that is free, 0
          buf,     \* the buffers
          fault,   \* a block that is not there was written or freed
          oom      \* an allocation has failed

bvars == <<heap, buf, fault, oom>>

\* todo is the length of what out(fmt, ...) is still trying to write, or 0
Buffer(state, alloc, sz, buff) ==
    [state |-> state, alloc_sz |-> alloc, sz |-> sz, buff |-> buff, todo |-> 0]

NoBuffer == Buffer("none", 0, 0, Null)

States == {"none", "constructed", "ready", "overlaid", "taken"}

BufferInit == /\ heap = [k \in Blocks |-> 0]
              /\ buf = [b \in Buffers |-> NoBuffer]
              /\ fault = FALSE /\ oom = FALSE

-----------------------------------------------------------------------------
(* malloc() and free()                                                       *)

free(h, block) == IF block = Null THEN h ELSE [h EXCEPT ![block] = 0]

\* What malloc(n) can do to a heap: a free block, or a null pointer.
malloc(h, n) == {[buff |-> k, heap |-> [h EXCEPT ![k] = n]] :
                    k \in {x \in Blocks : h[x] = 0}}
                \union {[buff |-> Null, heap |-> h]}

\* realloc(), and free() of the old block where it fails
realloc(h, block, n) == malloc(free(h, block), n)

\* free() of a block that is not allocated
BadFree(block) == block # Null /\ heap[block] = 0

-----------------------------------------------------------------------------
(* Operations.  Only one thread has the buffers, and while a formatted write *)
(* is tried again nothing else happens.                                      *)

Idle == ~fault /\ \A b \in Buffers : buf[b].todo = 0

construct(b) == /\ Idle /\ buf[b].state = "none"
                /\ \E alloc \in Garbage :
                      buf' = [buf EXCEPT ![b] = Buffer("constructed", alloc, 0, Null)]
                /\ UNCHANGED <<heap, fault, oom>>

init(b, size) ==
    /\ Idle /\ buf[b].state \in {"constructed", "ready", "overlaid"}
    /\ size > 0
    /\ \E m \in realloc(heap, buf[b].buff, size) :
          /\ heap' = m.heap
          /\ buf' = [buf EXCEPT ![b] = Buffer("ready", size, 0, m.buff)]
          /\ oom' = (oom \/ m.buff = Null)
    /\ fault' = BadFree(buf[b].buff)

\* alloc_sz after prepare() has found n to be too much for it
Grown(alloc, n) == alloc * ((n \div alloc) + 1)

\* prepare(room), and "used" characters written by putc() or by a copy, which
\* are as many as the caller likes: that they have room is left to it.  Where
\* the caller looks at the answer of prepare() it writes nothing after a failure.
fill(b, room, used, looks) ==
    LET B     == buf[b]
        grows == B.sz + room > B.alloc_sz
        alloc == IF grows THEN Grown(B.alloc_sz, B.sz + room) ELSE B.alloc_sz
    IN /\ Idle /\ B.state = "ready"
       /\ room > 0
       /\ \E m \in IF grows THEN realloc(heap, B.buff, alloc)
                            ELSE {[buff |-> B.buff, heap |-> heap]} :
             LET stops == grows /\ m.buff = Null /\ looks
             IN /\ heap' = m.heap
                /\ buf' = [buf EXCEPT ![b] =
                             Buffer("ready", alloc,
                                    IF stops THEN B.sz ELSE B.sz + used, m.buff)]
                /\ oom' = (oom \/ (grows /\ m.buff = Null))
                /\ fault' = \/ grows /\ BadFree(B.buff)
                            \/ ~stops /\ used > 0
                               /\ (m.buff = Null \/ m.heap[m.buff] < B.sz + used)

out(b, len) == fill(b, len, len, TRUE)

\* the BLOB is read even after prepare() has failed
read_blob(b, len) == fill(b, len, len, FALSE)

\* Mutant: the buffer keeps its size when a write was truncated.
Larger_Same(alloc) == alloc

Larger(alloc) == alloc * 4

\* Mutant: the length that did not fit is still counted.
Restarted_Counted(old_size, len) == old_size + len

\* sz before the write is done again
Restarted(old_size, len) == old_size

\* One pass of the loop of out(fmt, ...): vsnprintf() writes what fits, and a
\* final 0 after it.
pass(b, len) ==
    LET B    == buf[b]
        fits == B.sz + len < B.alloc_sz
    IN /\ \E m \in IF fits THEN {[buff |-> B.buff, heap |-> heap]}
                           ELSE realloc(heap, B.buff, Larger(B.alloc_sz)) :
             /\ heap' = m.heap
             /\ buf' = [buf EXCEPT ![b] =
                          [state    |-> "ready", buff |-> m.buff,
                           alloc_sz |-> IF fits THEN B.alloc_sz ELSE Larger(B.alloc_sz),
                           sz       |-> IF fits THEN B.sz + len ELSE Restarted(B.sz, len),
                           todo     |-> IF fits \/ m.buff = Null THEN 0 ELSE len]]
             /\ oom' = (oom \/ (~fits /\ m.buff = Null))
       /\ fault' = \/ ~fits /\ BadFree(B.buff)
                   \/ B.sz < B.alloc_sz
                      /\ (B.buff = Null \/ heap[B.buff] < B.alloc_sz)

outf(b, len) == /\ Idle /\ buf[b].state = "ready" /\ len > 0
                /\ pass(b, len)

retry(b) == /\ ~fault /\ buf[b].todo > 0
            /\ pass(b, buf[b].todo)

\* Mutant: the other buffer keeps its claim on the block.
overlay_Shared(b, other) ==
    LET B == buf[b]
        O == buf[other]
    IN /\ Idle /\ b # other
       /\ B.state \in {"constructed", "ready", "overlaid"}
       /\ O.state = "ready"
       /\ heap' = IF B.alloc_sz > 0 THEN free(heap, B.buff) ELSE heap
       /\ buf' = [buf EXCEPT ![b] = Buffer("overlaid", O.alloc_sz, O.sz, O.buff),
                             ![other].state = "taken"]
       /\ fault' = (B.alloc_sz > 0 /\ BadFree(B.buff))
       /\ UNCHANGED oom

overlay(b, other) ==
    LET B == buf[b]
        O == buf[other]
    IN /\ Idle /\ b # other
       /\ B.state \in {"constructed", "ready", "overlaid"}
       /\ O.state = "ready"
       /\ heap' = IF B.alloc_sz > 0 THEN free(heap, B.buff) ELSE heap
       /\ buf' = [buf EXCEPT ![b] = Buffer("overlaid", O.alloc_sz, O.sz, O.buff),
                             ![other].state = "taken", ![other].alloc_sz = 0]
       /\ fault' = (B.alloc_sz > 0 /\ BadFree(B.buff))
       /\ UNCHANGED oom

\* the destructor
destroy(b) ==
    LET B == buf[b]
    IN /\ Idle /\ B.state # "none"
       /\ heap' = IF B.alloc_sz > 0 THEN free(heap, B.buff) ELSE heap
       /\ buf' = [buf EXCEPT ![b] = NoBuffer]
       /\ fault' = (B.alloc_sz > 0 /\ BadFree(B.buff))
       /\ UNCHANGED oom

BufferStep(b) ==
    \/ construct(b)
    \/ \E size \in Nat : init(b, size)
    \/ \E room \in Nat, looks \in BOOLEAN : \E used \in 0..room : fill(b, room, used, looks)
    \/ \E len \in Nat : outf(b, len)
    \/ retry(b)
    \/ \E other \in Buffers : overlay(b, other)
    \/ destroy(b)

BufferSpec == BufferInit /\ [][\E b \in Buffers : BufferStep(b)]_bvars

-----------------------------------------------------------------------------
(* Properties                                                                *)

BufferTypeOK ==
    /\ heap \in [Blocks -> Nat]
    /\ buf \in [Buffers -> [state : States, alloc_sz : Nat, sz : Nat,
                            buff : Blocks \union {Null}, todo : Nat]]
    /\ fault \in BOOLEAN /\ oom \in BOOLEAN

Owns(b) == buf[b].buff # Null /\ buf[b].alloc_sz > 0

\* A buffer writes inside a block that is allocated and as large as it takes
\* it for (alloc_sz after prepare(), out() and overlay()).
WithinBlock ==
    \A b \in Buffers : Owns(b) => /\ heap[buf[b].buff] = buf[b].alloc_sz
                                  /\ buf[b].sz <= buf[b].alloc_sz

\* Every block that is allocated has one buffer that will free it: none is
\* freed twice and none is lost, whichever allocations fail and in whatever
\* order the buffers are overlaid, used again and destroyed.
OneOwner ==
    /\ \A b, c \in Buffers : Owns(b) /\ Owns(c) /\ buf[b].buff = buf[c].buff => b = c
    /\ \A k \in Blocks : heap[k] > 0 => \E b \in Buffers : Owns(b) /\ buf[b].buff = k

BlocksAreOwned == ~fault => WithinBlock /\ OneOwner

\* A block is written or freed wrongly only after an allocation has failed:
\* the caller of init(), read_blob() and, the second time, out() does not look.
FaultsFollowOom == fault => oom
=============================================================================
