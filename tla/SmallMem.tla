------------------------------ MODULE SmallMem ------------------------------
(***************************************************************************)
(* The system heap of the mycpu board, RT_USING_SMALL_MEM                  *)
(* (rt-thread/kernel/src/mem.c): headers that chain the blocks in address  *)
(* order, first fit from the lowest free one, and merging of neighbours.   *)
(*                                                                         *)
(* Addresses are offsets into heap_ptr.  The calls do not interleave: the  *)
(* heap's semaphore is free at every call, for nothing switches threads in *)
(* between on this board.  A header that was merged into another is gone.  *)
(***************************************************************************)
EXTENDS Integers, FiniteSets, FiniteSetsExt

CONSTANTS
  Regions,            \* what rt_system_heap_init may be given: <<begin, end>>
  RT_ALIGN_SIZE,
  HeaderBytes,        \* sizeof(struct heap_mem)
  MIN_SIZE,
  SizeWrap,           \* rt_size_t counts modulo this
  Sizes               \* what callers ask for

RT_ALIGN(n) == (((n + RT_ALIGN_SIZE - 1) % SizeWrap) \div RT_ALIGN_SIZE) * RT_ALIGN_SIZE
RT_ALIGN_DOWN(n) == (n \div RT_ALIGN_SIZE) * RT_ALIGN_SIZE
SIZEOF_STRUCT_MEM == RT_ALIGN(HeaderBytes)
MIN_SIZE_ALIGNED == RT_ALIGN(MIN_SIZE)

ASSUME HeapAssumption ==
  /\ RT_ALIGN_SIZE \in Nat \ {0} /\ HeaderBytes \in Nat \ {0} /\ MIN_SIZE \in Nat \ {0}
  /\ SizeWrap \in Nat
  /\ HeaderBytes + RT_ALIGN_SIZE <= SizeWrap /\ MIN_SIZE + RT_ALIGN_SIZE <= SizeWrap
  /\ \A r \in Regions : r[1] \in Nat /\ r[2] \in Nat /\ r[1] <= r[2] /\ r[2] < SizeWrap
  /\ Sizes \subseteq 0..(SizeWrap - 1)

(* The two sums of rt_malloc that nothing in the code keeps from wrapping: *)
(* a request is aligned without passing zero, and a heap that holds any    *)
(* data holds a block of the least size.                                   *)
ASSUME NoWrapAssumption ==
  /\ \A m, n \in Sizes : ((m * n) % SizeWrap) + RT_ALIGN_SIZE <= SizeWrap
  /\ \A n \in Sizes : n + RT_ALIGN_SIZE <= SizeWrap
  /\ \A r \in Regions :
       LET room == RT_ALIGN_DOWN(r[2]) - RT_ALIGN(r[1]) - 2 * SIZEOF_STRUCT_MEM
       IN  room <= 0 \/ room >= MIN_SIZE_ALIGNED

VARIABLES
  h,            \* mem, lfree, used_mem, max_mem, mem_size_aligned
  asked         \* ghost: the bytes a caller was granted at an address

vars == <<h, asked>>

NULL == -1
HeapEnd(s) == s.mem_size_aligned + SIZEOF_STRUCT_MEM
Used(s, a) == s.mem[a].used
DataSize(s, a) == s.mem[a].next - (a + SIZEOF_STRUCT_MEM)
Without(f, a) == [x \in DOMAIN f \ {a} |-> f[x]]
With(f, a, v) == [x \in DOMAIN f \cup {a} |-> IF x = a THEN v ELSE f[x]]

-----------------------------------------------------------------------------
(* A region too small for a block and the end leaves an empty heap. *)
rt_system_heap_init(begin_addr, end_addr) ==
  LET begin_align == RT_ALIGN(begin_addr)
      end_align == RT_ALIGN_DOWN(end_addr)
      size == end_align - begin_align - 2 * SIZEOF_STRUCT_MEM
      end == size + SIZEOF_STRUCT_MEM
  IN  IF end_align > 2 * SIZEOF_STRUCT_MEM /\ size >= 0
      THEN [mem |-> [a \in {0, end} |-> IF a = 0 THEN [used |-> FALSE, next |-> end, prev |-> 0]
                                        ELSE [used |-> TRUE, next |-> end, prev |-> end]],
            lfree |-> 0, used_mem |-> 0, max_mem |-> 0, mem_size_aligned |-> size]
      ELSE [mem |-> <<>>, lfree |-> NULL, used_mem |-> 0, max_mem |-> 0, mem_size_aligned |-> 0]

PlugForward(s, a) ==
  LET n == s.mem[a].next
  IN  IF n # a /\ ~Used(s, n) /\ n # HeapEnd(s)
      THEN [s EXCEPT !.lfree = IF @ = n THEN a ELSE @,
                     !.mem = Without([@ EXCEPT ![a].next = s.mem[n].next,
                                               ![s.mem[n].next].prev = a], n)]
      ELSE s

PlugBackward(s, a) ==
  LET p == s.mem[a].prev
  IN  IF p # a /\ ~Used(s, p)
      THEN [s EXCEPT !.lfree = IF @ = a THEN p ELSE @,
                     !.mem = Without([@ EXCEPT ![p].next = s.mem[a].next,
                                               ![s.mem[a].next].prev = p], a)]
      ELSE s

(* Mutant: the block before is not looked at. *)
PlugForwardOnly(s, a) == PlugForward(s, a)

plug_holes(s, a) == PlugBackward(PlugForward(s, a), a)

(* The block at a keeps size bytes, the rest becomes a free block. *)
Split(s, a, size) ==
  LET b == a + SIZEOF_STRUCT_MEM + size
      n == s.mem[a].next
      mem2 == With([s.mem EXCEPT ![a].next = b], b, [used |-> FALSE, next |-> n, prev |-> a])
  IN  [s EXCEPT !.mem = IF n # HeapEnd(s) THEN [mem2 EXCEPT ![n].prev = b] ELSE mem2]

Take(s, a) ==
  LET used == s.used_mem + s.mem[a].next - a
  IN  [s EXCEPT !.mem[a].used = TRUE, !.used_mem = used,
                !.max_mem = IF @ < used THEN used ELSE @]

(* Mutant: the lowest free block is not looked for again. *)
LfreeStays(s, a) == s

(* When the lowest free block was taken, the next one in the chain. *)
MoveLfree(s, a) ==
  IF a # s.lfree THEN s
  ELSE [s EXCEPT !.lfree = Min({b \in DOMAIN s.mem : b > a /\ ~Used(s, b)} \cup {HeapEnd(s)})]

(* Mutant: the search gives up after the lowest free block. *)
FitAtLfreeOnly(s, size) ==
  {a \in DOMAIN s.mem : a = s.lfree /\ a < s.mem_size_aligned - size
                          /\ ~Used(s, a) /\ DataSize(s, a) >= size}

(* The free blocks the search would accept, which it meets in address      *)
(* order.                                                                  *)
FitFor(s, size) ==
  {a \in DOMAIN s.mem : a >= s.lfree /\ a < s.mem_size_aligned - size
                          /\ ~Used(s, a) /\ DataSize(s, a) >= size}

BlockSize(size) ==
  IF RT_ALIGN(size) < MIN_SIZE_ALIGNED THEN MIN_SIZE_ALIGNED ELSE RT_ALIGN(size)

rt_malloc(s, bytes) ==
  LET size == BlockSize(bytes)
      none == [heap |-> s, ptr |-> NULL]
  IN  IF bytes = 0 \/ RT_ALIGN(bytes) > s.mem_size_aligned \/ FitFor(s, size) = {} THEN none
      ELSE LET a == Min(FitFor(s, size))
               u == IF DataSize(s, a) >= size + SIZEOF_STRUCT_MEM + MIN_SIZE_ALIGNED
                    THEN Split(s, a, size) ELSE s
           IN  [heap |-> MoveLfree(Take(u, a), a), ptr |-> a + SIZEOF_STRUCT_MEM]

rt_calloc(s, count, size) == rt_malloc(s, (count * size) % SizeWrap)

(* Mutant: the header is given back twice. *)
FreeHeaderTwice(s, ptr) ==
  LET a == ptr - SIZEOF_STRUCT_MEM
  IN  plug_holes([s EXCEPT !.mem[a].used = FALSE, !.lfree = IF a < @ THEN a ELSE @,
                           !.used_mem = @ - (s.mem[a].next - a) - SIZEOF_STRUCT_MEM], a)

(* Mutant: the size that is given back is that of the data. *)
FreeDataOnly(s, ptr) ==
  LET a == ptr - SIZEOF_STRUCT_MEM
  IN  plug_holes([s EXCEPT !.mem[a].used = FALSE, !.lfree = IF a < @ THEN a ELSE @,
                           !.used_mem = @ - DataSize(s, a)], a)

rt_free(s, ptr) ==
  LET a == ptr - SIZEOF_STRUCT_MEM
  IN  plug_holes([s EXCEPT !.mem[a].used = FALSE, !.lfree = IF a < @ THEN a ELSE @,
                           !.used_mem = @ - (s.mem[a].next - a)], a)

(* Mutant: the old block stays. *)
ReallocLeaks(s, ptr, bytes) == rt_malloc(s, RT_ALIGN(bytes))

(* Mutant: the old block is free before the new one is there. *)
ReallocFreesFirst(s, ptr, bytes) ==
  LET new == rt_malloc(rt_free(s, ptr), RT_ALIGN(bytes))
  IN  IF new.ptr = NULL THEN [new EXCEPT !.heap = s] ELSE new

(* The data that fits goes along to a new block, and only then the old one *)
(* is free.                                                                *)
ReallocMoved(s, ptr, bytes) ==
  LET new == rt_malloc(s, RT_ALIGN(bytes))
  IN  IF new.ptr = NULL THEN new ELSE [new EXCEPT !.heap = rt_free(@, ptr)]

rt_realloc(s, ptr, bytes) ==
  LET newsize == RT_ALIGN(bytes)
      a == ptr - SIZEOF_STRUCT_MEM
      size == DataSize(s, a)
      b == a + SIZEOF_STRUCT_MEM + newsize
      u == Split([s EXCEPT !.used_mem = @ - (size - newsize)], a, newsize)
  IN  CASE newsize > s.mem_size_aligned -> [heap |-> s, ptr |-> NULL]
        [] newsize = 0 -> [heap |-> rt_free(s, ptr), ptr |-> NULL]
        [] newsize = size -> [heap |-> s, ptr |-> ptr]
        [] newsize > 0 /\ newsize + SIZEOF_STRUCT_MEM + MIN_SIZE < size ->
             [heap |-> plug_holes([u EXCEPT !.lfree = IF b < @ THEN b ELSE @], b), ptr |-> ptr]
        [] OTHER -> ReallocMoved(s, ptr, bytes)

-----------------------------------------------------------------------------
Granted(r, bytes) == IF r.ptr = NULL THEN asked ELSE With(asked, r.ptr, bytes)

Malloc(bytes) ==
  LET r == rt_malloc(h, bytes)
  IN  h' = r.heap /\ asked' = Granted(r, bytes)

Calloc(count, size) ==
  LET r == rt_calloc(h, count, size)
  IN  h' = r.heap /\ asked' = Granted(r, (count * size) % SizeWrap)

Free(ptr) == h' = rt_free(h, ptr) /\ asked' = Without(asked, ptr)

(* The caller has the old block when the call fails. *)
Realloc(ptr, bytes) ==
  LET r == rt_realloc(h, ptr, bytes)
  IN  /\ h' = r.heap
      /\ asked' = IF r.ptr # NULL THEN With(Without(asked, ptr), r.ptr, bytes)
                  ELSE IF bytes = 0 THEN Without(asked, ptr) ELSE asked

Init ==
  /\ \E r \in Regions : h = rt_system_heap_init(r[1], r[2])
  /\ asked = <<>>

Next ==
  \/ \E n \in Sizes : Malloc(n)
  \/ \E m, n \in Sizes : Calloc(m, n)
  \/ \E p \in DOMAIN asked : Free(p) \/ \E n \in Sizes : Realloc(p, n)

Spec == Init /\ [][Next]_vars

-----------------------------------------------------------------------------
Headers == DOMAIN h.mem
Free_ == {a \in Headers : ~Used(h, a)}
InUse == {a \in Headers \ {HeapEnd(h)} : Used(h, a)}

(* The headers and statistics of mem.c keep to the size of rt_size_t: no   *)
(* subtraction in used_mem or in the links goes below zero.                *)
TypeOK ==
  /\ \A a \in Headers : h.mem[a].used \in BOOLEAN /\ {h.mem[a].next, h.mem[a].prev} \subseteq Nat
  /\ {h.used_mem, h.max_mem, h.mem_size_aligned} \subseteq 0..(SizeWrap - 1)
  /\ h.lfree \in Headers \cup {NULL}

(* The headers tile the heap: each block ends where the next begins, the   *)
(* links back agree with the links on, and no two free blocks are left     *)
(* side by side, however blocks were split, moved and freed.  A block may  *)
(* hold less than MIN_SIZE_ALIGNED bytes, which rt_malloc sees to          *)
(* (mem.c:298) and the shrinking of rt_realloc does not (mem.c:470).       *)
ChainWhole ==
  Headers # {} =>
    /\ {0, HeapEnd(h)} \subseteq Headers
    /\ \A a \in Headers \ {HeapEnd(h)} :
         LET n == h.mem[a].next
         IN  /\ n \in Headers /\ n = Min({b \in Headers : b > a})
             /\ n - a >= SIZEOF_STRUCT_MEM /\ a % RT_ALIGN_SIZE = 0
             /\ n # HeapEnd(h) => h.mem[n].prev = a
             /\ ~(a \in Free_ /\ n \in Free_)

(* The search may start at lfree: no free block lies below it. *)
LowestFree ==
  Headers # {} => h.lfree = Min(Free_ \cup {HeapEnd(h)})

Extent == [a \in Headers |-> h.mem[a].next - a]

(* The statistics of list_mem are the bytes of the blocks in use. *)
StatsRight ==
  /\ h.used_mem = SumFunctionOnSet(Extent, InUse)
  /\ h.used_mem <= h.max_mem

(* Every caller has the bytes it asked for, aligned, and every block in    *)
(* use is some caller's: nothing leaks, with rt_realloc that moves, shrinks*)
(* or fails too.                                                           *)
RequestsMet ==
  /\ DOMAIN asked = {a + SIZEOF_STRUCT_MEM : a \in InUse}
  /\ \A p \in DOMAIN asked :
       p % RT_ALIGN_SIZE = 0 /\ asked[p] <= DataSize(h, p - SIZEOF_STRUCT_MEM)

(* rt_malloc fails only when no free block is large enough, but for one    *)
(* case: the block at the end of the heap must be larger than what is      *)
(* asked for, because the search stops short of an exact fit there.        *)
FitsFound ==
  \A n \in Sizes \ {0} :
    (rt_malloc(h, n).ptr = NULL) <=>
      \A a \in Free_ : \/ DataSize(h, a) < BlockSize(n)
                       \/ h.mem[a].next = HeapEnd(h) /\ DataSize(h, a) = BlockSize(n)

Contract == INSTANCE HeapContract WITH
  room <- SIZEOF_STRUCT_MEM..(HeapEnd(h) - 1),
  blocks <- {[start |-> p, size |-> DataSize(h, p - SIZEOF_STRUCT_MEM), asked |-> asked[p]] :
               p \in DOMAIN asked}

(* The heap implements HeapContract: what callers have lies apart, between *)
(* the heap's first header and its last, and holds what was asked for, and *)
(* a call of mem.c changes nobody else's block.                            *)
IsHeap == Contract!Spec

(* The heap's structure (mem.c): headers tile it, no free block lies       *)
(* below lfree, the statistics are right, and every block in use is one    *)
(* that a caller has and is large enough for what it asked.                *)
HeapInv == TypeOK /\ ChainWhole /\ LowestFree /\ StatsRight /\ RequestsMet
=============================================================================
