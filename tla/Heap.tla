-------------------------------- MODULE Heap --------------------------------
(***************************************************************************)
(* The heap of one address space, kernel/memory.c: sys_malloc and sys_free *)
(* over the page allocator.  Both run under the lock of the pool from end  *)
(* to end, so that each is one step here; PageAlloc looks at what happens  *)
(* to the pools in between.                                                *)
(*                                                                         *)
(* A page is its index in the virtual pool, a frame its index in the       *)
(* physical pool.  A block is <<page, index in the arena>>; a large        *)
(* allocation is block 0 of its first page.                                *)
(***************************************************************************)
EXTENDS Bitmap, Sequences, FiniteSets

CONSTANTS PG_SIZE,   \* 4096 in the code
          ARENA,     \* sizeof(struct arena)
          SMALLEST,  \* block_size of the first mem_block_desc, 16 in the code
          DESC_CNT,  \* number of block sizes, 7 in the code
          FrameLen,  \* btmp_bytes_len of the physical pool
          pool_size, \* bytes of the physical pool
          AskFor     \* the sizes asked for

(* block_desc_init.                                                        *)
Desc  == 1..DESC_CNT
block_size(d)       == SMALLEST * 2^(d - 1)
blocks_per_arena(d) == (PG_SIZE - ARENA) \div block_size(d)

(* A block of each size fits in an arena.                                  *)
ASSUME HeapAssumption ==
  /\ {PG_SIZE, ARENA, SMALLEST, DESC_CNT, FrameLen, pool_size} \subseteq Nat \ {0}
  /\ AskFor \subseteq Nat
  /\ \A d \in Desc : block_size(d) \in 1..(PG_SIZE - ARENA)

VARIABLES vbits,   \* vaddr_bitmap
          frames,  \* the frames whose bit is set in pool_bitmap
          pte,     \* page table entries: the frame, and the P bit
          arena,   \* struct arena at the start of a page: desc, cnt, large
          free,    \* free_list of each mem_block_desc
          live,    \* the blocks that are in use
          panic    \* the call whose ASSERT has failed: a sys_malloc of one "page",
                  \* one of several pages ("range"), a sys_"free", or "none"

heapVars == <<vbits, frames, pte, arena, free, live, panic>>

Page  == 0..Size   \* bitmap_scan may return the page behind the pool
Frame == 0..(FrameLen * W - 1)
NoArena == [desc |-> 0, cnt |-> 0, large |-> FALSE]

Roll(n, d) == (n + d - 1) \div d   \* DIV_ROUND_UP

(* arena2block for every index.                                            *)
Blocks(p, d) == {<<p, i>> : i \in 0..(blocks_per_arena(d) - 1)}
BlockSeq(p, d) == [i \in 1..blocks_per_arena(d) |-> <<p, i - 1>>]

InList(q, b) == \E i \in DOMAIN q : q[i] = b
Present(p)   == pte[p].p

HeapInit ==
  /\ \E junk \in Byte : vbits = bitmap_init([i \in Bytes |-> junk])
  /\ frames = {}
  /\ pte = [p \in Page |-> [frame |-> 0, p |-> FALSE]]
  /\ arena = [p \in Page |-> NoArena]
  /\ free = [d \in Desc |-> <<>>]
  /\ live = {}
  /\ panic = "none"
-----------------------------------------------------------------------------
Panics(call) == panic' = call /\ UNCHANGED <<vbits, frames, pte, arena, free, live>>
ReturnsNULL == UNCHANGED heapVars

(* The element of S that has n smaller ones.                               *)
Nth(S, n) == CHOOSE x \in S : Cardinality({y \in S : y < x}) = n

FreeFrames == Frame \ frames
NthFree(n) == Nth(FreeFrames, n)

(* The first of n pages of the virtual pool, or -1.                        *)
vaddr_get(n) == bitmap_scan(vbits, n)

(* What stops palloc and page_table_add half-way: a full bitmap, and an    *)
(* entry that is present already.                                          *)
FailsAt(r, n) == Cardinality(FreeFrames) < n \/ \E p \in r..(r + n - 1) : Present(p)

(* malloc_page from page r on: the bits of the range, a frame and an entry *)
(* for each page.                                                          *)
malloc_page(r, n) ==
  LET new == [i \in 0..(n - 1) |-> NthFree(i)] IN
  /\ vbits' = bitmap_set(vbits, r..(r + n - 1), 1)
  /\ frames' = frames \cup {new[i] : i \in 0..(n - 1)}
  /\ pte' = [p \in Page |-> IF p \in r..(r + n - 1) THEN [frame |-> new[p - r], p |-> TRUE]
                            ELSE pte[p]]
  /\ UNCHANGED panic

(* sys_malloc of more than the largest block: whole pages.                 *)
MallocLarge(size) ==
  LET n == Roll(size + ARENA, PG_SIZE)
      r == vaddr_get(n)
      call == IF n = 1 THEN "page" ELSE "range"
  IN  /\ size > block_size(DESC_CNT) /\ size < pool_size
      /\ IF Full(vbits) THEN Panics(call)
         ELSE IF r = -1 THEN ReturnsNULL
         ELSE IF FailsAt(r, n) THEN Panics(call)
         ELSE /\ malloc_page(r, n)
              /\ arena' = [arena EXCEPT ![r] = [desc |-> 0, cnt |-> n, large |-> TRUE]]
              /\ live' = live \cup {<<r, 0>>}
              /\ UNCHANGED free

DescFor(size) == Least({d \in Desc : size <= block_size(d)})

(* sys_malloc of a block whose free_list is not empty: its first element.  *)
MallocBlock(size) ==
  LET d == DescFor(size) IN
  /\ size \in 1..block_size(DESC_CNT) /\ size < pool_size
  /\ free[d] # <<>>
  /\ LET b == Head(free[d]) IN
     /\ free' = [free EXCEPT ![d] = Tail(@)]
     /\ arena' = [arena EXCEPT ![b[1]].cnt = @ - 1]
     /\ live' = live \cup {b}
  /\ UNCHANGED <<vbits, frames, pte, panic>>

MallocNewArenaMutantFull(size) ==
  LET d == DescFor(size)  r == vaddr_get(1) IN
  /\ size \in 1..block_size(DESC_CNT) /\ size < pool_size /\ free[d] = <<>>
  /\ ~Full(vbits) /\ ~FailsAt(r, 1)
  /\ malloc_page(r, 1)
  /\ arena' = [arena EXCEPT ![r] = [desc |-> d, cnt |-> blocks_per_arena(d), large |-> FALSE]]
  /\ live' = live \cup {<<r, 0>>}
  /\ free' = [free EXCEPT ![d] = Tail(BlockSeq(r, d))]

(* ... and with an empty one: a page becomes an arena, all of its blocks   *)
(* go to the list, and the first of them is taken.                         *)
MallocNewArena(size) ==
  LET d == DescFor(size)
      r == vaddr_get(1)
  IN  /\ size \in 1..block_size(DESC_CNT) /\ size < pool_size
      /\ free[d] = <<>>
      /\ IF Full(vbits) \/ FailsAt(r, 1) THEN Panics("page")
         ELSE /\ malloc_page(r, 1)
              /\ arena' = [arena EXCEPT ![r] = [desc |-> d, cnt |-> blocks_per_arena(d) - 1,
                                                large |-> FALSE]]
              /\ free' = [free EXCEPT ![d] = Tail(BlockSeq(r, d))]
              /\ live' = live \cup {<<r, 0>>}

MallocNothing(size) == ~(size > 0 /\ size < pool_size) /\ ReturnsNULL

mfree_pageMutant(r, n, lastBit, present) ==
  /\ vbits' = bitmap_set(vbits, r..lastBit, 0)
  /\ frames' = frames \ {pte[p].frame : p \in r..(r + n - 1)}
  /\ pte' = [p \in Page |-> IF p \in r..(r + n - 1) THEN [pte[p] EXCEPT !.p = present] ELSE pte[p]]
mfree_pageMutantNoVaddr(r, n) == mfree_pageMutant(r, n, r - 1, FALSE)
mfree_pageMutantNoPte(r, n)   == mfree_pageMutant(r, n, r + n - 1, TRUE)

(* mfree_page: pfree and page_table_pte_remove for each page, then         *)
(* vaddr_remove.                                                           *)
mfree_page(r, n) ==
  /\ vbits' = bitmap_set(vbits, r..(r + n - 1), 0)
  /\ frames' = frames \ {pte[p].frame : p \in r..(r + n - 1)}
  /\ pte' = [p \in Page |-> IF p \in r..(r + n - 1) THEN [pte[p] EXCEPT !.p = FALSE] ELSE pte[p]]

FreeLarge(b) ==
  LET a == arena[b[1]] IN
  /\ b \in live /\ a.desc = 0 /\ a.large
  /\ mfree_page(b[1], a.cnt)
  /\ arena' = [arena EXCEPT ![b[1]] = NoArena]
  /\ live' = live \ {b}
  /\ UNCHANGED <<free, panic>>

(* Without the list_remove of the arena's blocks. *)
FreeBlockMutant(b) ==
  LET p == b[1]  a == arena[p]  d == a.desc IN
  /\ b \in live /\ a.desc # 0 /\ live' = live \ {b} /\ UNCHANGED panic
  /\ free' = [free EXCEPT ![d] = Append(@, b)]
  /\ IF a.cnt + 1 = blocks_per_arena(d)
     THEN mfree_page(p, 1) /\ arena' = [arena EXCEPT ![p] = NoArena]
     ELSE arena' = [arena EXCEPT ![p].cnt = @ + 1] /\ UNCHANGED <<vbits, frames, pte>>

(* list_remove of every block of the arena at p from the list q.           *)
RemoveArena(q, p) ==
  LET rest == {k \in DOMAIN q : q[k][1] # p}
  IN  [n \in 1..Cardinality(rest) |-> q[Nth(rest, n - 1)]]

(* sys_free of a block: to the end of the list, and when the arena's last  *)
(* block comes back, all of them leave the list and the page is freed.     *)
FreeBlock(b) ==
  LET p == b[1]
      a == arena[p]
      d == a.desc
      q == Append(free[d], b)
  IN  /\ b \in live /\ a.desc # 0
      /\ IF a.cnt + 1 = blocks_per_arena(d)
         THEN IF \E c \in Blocks(p, d) : ~InList(q, c) THEN Panics("free")
              ELSE /\ free' = [free EXCEPT ![d] = RemoveArena(q, p)]
                   /\ mfree_page(p, 1)
                   /\ arena' = [arena EXCEPT ![p] = NoArena]
                   /\ live' = live \ {b}
                   /\ UNCHANGED panic
         ELSE /\ free' = [free EXCEPT ![d] = q]
              /\ arena' = [arena EXCEPT ![p].cnt = @ + 1]
              /\ live' = live \ {b}
              /\ UNCHANGED <<vbits, frames, pte, panic>>

HeapNext ==
  /\ panic = "none"
  /\ \/ \E size \in AskFor : \/ MallocLarge(size)
                             \/ MallocBlock(size)
                             \/ MallocNewArena(size)
                             \/ MallocNothing(size)
     \/ \E b \in live : FreeLarge(b) \/ FreeBlock(b)

HeapSpec == HeapInit /\ [][HeapNext]_heapVars
-----------------------------------------------------------------------------
FreeBlocks(p, d) == {b \in Blocks(p, d) : InList(free[d], b)}
LiveBlocks(p)    == {b \in live : b[1] = p}

(* The pages of the arena that begins at p.                                *)
Extent(p) == IF arena[p] = NoArena THEN {}
             ELSE IF arena[p].large THEN p..(p + arena[p].cnt - 1) ELSE {p}

(* A block is in use or in one free_list once, never both, and a block of  *)
(* either kind lies in an arena of its own size: the lists are linked      *)
(* through the free blocks themselves and survive the arenas that come and *)
(* go under them.                                                          *)
LiveBlocksApart ==
  /\ \A d \in Desc : \A i, j \in DOMAIN free[d] :
       /\ free[d][i] = free[d][j] => i = j
       /\ free[d][i] \notin live
       /\ arena[free[d][i][1]].desc = d
  /\ \A b \in live : LET a == arena[b[1]] IN
       /\ a # NoArena
       /\ a.desc # 0 => b \in Blocks(b[1], a.desc)
       /\ a.desc = 0 => b[2] = 0

(* The counter of an arena is the number of its blocks in the free_list,   *)
(* and an arena none of whose blocks is in use has been given back.        *)
ArenaCounts ==
  \A p \in Page : LET a == arena[p] IN
    a.desc # 0 =>
      /\ a.cnt = Cardinality(FreeBlocks(p, a.desc))
      /\ a.cnt + Cardinality(LiveBlocks(p)) = blocks_per_arena(a.desc)
      /\ LiveBlocks(p) # {}

(* Virtual bitmap, page table and frame bitmap agree page for page, no     *)
(* frame is behind two pages, arenas do not overlap, and every page and    *)
(* frame taken belongs to an arena: when nothing is in use, all is back.   *)
PagesMatch ==
  /\ \A p \in 0..(Size - 1) : Used(vbits, p) <=> Present(p)
  /\ \A p \in Page : Present(p) <=> \E r \in Page : p \in Extent(r)
  /\ \A r, s \in Page : r # s => Extent(r) \cap Extent(s) = {}
  /\ \A p, q \in Page : Present(p) /\ Present(q) /\ pte[p].frame = pte[q].frame => p = q
  /\ frames = {pte[p].frame : p \in {q \in Page : Present(q)}}

(* A request that fits a page stops the kernel only when a bitmap is full: *)
(* the scan finds a page whose entry is not present, with whatever larger  *)
(* requests around it; and sys_free always finds all the blocks of a full  *)
(* arena in the free_list.  A request of several pages may stop it with    *)
(* room left, where bitmap_scan returns a range that is in use.            *)
PanicsOnlyWhenFull ==
  /\ panic # "free"
  /\ panic = "page" => Full(vbits) \/ FreeFrames = {}
=============================================================================
