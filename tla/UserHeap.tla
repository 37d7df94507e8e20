------------------------------ MODULE UserHeap ------------------------------
(***************************************************************************)
(* The heap of a user program: malloc, free, realloc and calloc (the       *)
(* common code of new_heap.c) over brk and sbrk of the user library        *)
(* (libc.c), over the kernel's Brk.                                        *)
(*                                                                         *)
(* Blocks are a list linked by next; a block knows its address, so that    *)
(* neighbours in the list need not be neighbours in memory.  The previous  *)
(* links and the magic numbers are written and never used.  A program owns *)
(* what it was given; it releases only that, or an address that is in no   *)
(* block it owns (a second free).                                          *)
(***************************************************************************)
EXTENDS Integers, FiniteSets, SequencesExt

CONSTANTS
  WORD,        \* bytes of a word
  HDR,         \* sizeof(mblock_t)
  PAGESIZE,
  WIDTH,       \* bits of size_t
  LinkedEnds,  \* where &_end may be
  Lens,        \* lengths programs ask for
  Arrays,      \* numbers and sizes of elements they ask for
  Incrs,       \* by how much programs move the break themselves
  MaxBreak,    \* bound: the kernel gives no memory from here on
  MaxOwned     \* bound: regions a program owns at once

ASSUME UserHeapAssumption ==
  /\ {WORD, HDR, PAGESIZE} \subseteq Nat \ {0} /\ {WIDTH, MaxBreak, MaxOwned} \subseteq Nat
  /\ HDR % WORD = 0 /\ PAGESIZE % (2 * WORD) = 0 /\ HDR <= PAGESIZE
  /\ LinkedEnds \subseteq 1 .. MaxBreak /\ Lens \subseteq 0 .. 2 ^ WIDTH - 1
  /\ Incrs \subseteq Nat \ {0} /\ Arrays \subseteq [nmemb : Nat, size : Nat]
  /\ MaxBreak % PAGESIZE = 0 /\ MaxBreak < 2 ^ (WIDTH - 1)

\* What is used of powers of two; true of every WIDTH but 0.
ASSUME WidthAssumption == {2 ^ WIDTH, 2 ^ (WIDTH - 1)} \subseteq Nat /\ 2 ^ (WIDTH - 1) <= 2 ^ WIDTH

VARIABLES
  current_break,  \* the library's idea of the break
  sys_break,      \* the kernel's break: memory is mapped up to here
  heap_start,
  heap_end,
  blocks,         \* the list of blocks from heap_start
  heap,           \* "none" before init_heap, then "ready" or, if it had no memory, "odd"
  owned,          \* address -> length of each region the program owns
  ret             \* what the last call did

heapVars == <<current_break, sys_break, heap_start, heap_end, blocks, heap, owned, ret>>

Block == [addr : Nat, size : Nat, size_used : Nat]
NULL == 0

RoundUp(x, n) == ((x + n - 1) \div n) * n
UP_TO_PAGE(x) == RoundUp(x, PAGESIZE)
WORDROUND(x) == RoundUp(x, WORD)
BLOCK_START(b) == b.addr + HDR
BLOCK_END(b) == BLOCK_START(b) + b.size
MINBLOCK == 2 * HDR

(***************************************************************************)
(* brk and sbrk                                                            *)
(***************************************************************************)
Breaks(rc, brk, sys) == [rc |-> rc, brk |-> brk, sys |-> sys]

\* The kernel moves its break or refuses to; ok says which.
SysBrk(page, ok) == ok /\ page <= MaxBreak

\* Mutant: the break moves although the kernel refused.
brkUnlockedAlways(addr, ok) ==
  LET a == RoundUp(addr, 2 * WORD) IN Breaks(0, a, sys_break)
\* The kernel is asked only when the break leaves its page.
brk_unlocked(addr, ok) ==
  LET a == RoundUp(addr, 2 * WORD)
      page == UP_TO_PAGE(a)
  IN IF page = UP_TO_PAGE(current_break) THEN Breaks(0, a, sys_break)
     ELSE IF SysBrk(page, ok) THEN Breaks(0, a, page)
     ELSE Breaks(-1, current_break, sys_break)

SetBreaks(b) == current_break' = b.brk /\ sys_break' = b.sys

\* The program itself asks for memory past the heap; it never gives any back.
sbrk(incr, ok) ==
  /\ current_break + incr <= MaxBreak + PAGESIZE
  /\ LET b == brk_unlocked(current_break + incr, ok)
     IN /\ SetBreaks(b)
        /\ ret' = IF b.rc = 0 THEN "sbrk" ELSE "null"
  /\ UNCHANGED <<heap_start, heap_end, blocks, heap, owned>>

\* Brk always asks the kernel, and does not round.
Brk(addr, ok) ==
  /\ addr >= current_break
  /\ SetBreaks(IF SysBrk(UP_TO_PAGE(addr), ok) THEN Breaks(0, addr, UP_TO_PAGE(addr))
               ELSE Breaks(-1, current_break, sys_break))
  /\ ret' = IF SysBrk(UP_TO_PAGE(addr), ok) THEN "sbrk" ELSE "null"
  /\ UNCHANGED <<heap_start, heap_end, blocks, heap, owned>>

(***************************************************************************)
(* The list of blocks                                                      *)
(***************************************************************************)
FreeBlock(addr, size) == [addr |-> addr, size |-> size, size_used |-> 0]
IsFree(b) == b.size_used = 0
Merged(first, second) == [first EXCEPT !.size = @ + second.size + HDR]

\* merge_free_pair on the last two blocks of a list.
MergeLast(bs, b) ==
  IF bs # <<>> /\ IsFree(Last(bs)) /\ IsFree(b)
  THEN Append(Front(bs), Merged(Last(bs), b)) ELSE Append(bs, b)

\* Mutant: after a merge the pass goes on behind the merged block.
MergePairs(bs) ==
  LET step(acc, b) ==
        IF acc.fresh /\ acc.bs # <<>> /\ IsFree(Last(acc.bs)) /\ IsFree(b)
        THEN [bs |-> Append(Front(acc.bs), Merged(Last(acc.bs), b)), fresh |-> FALSE]
        ELSE [bs |-> Append(acc.bs, b), fresh |-> TRUE]
  IN FoldLeft(step, [bs |-> <<>>, fresh |-> TRUE], bs).bs
\* One pass from the front; a merged block is compared with its next neighbour again.
garbage_collect(bs) ==
  LET pass[n \in 0 .. Len(bs)] ==
        IF n = 0 THEN <<>> ELSE MergeLast(pass[n - 1], bs[n])
  IN pass[Len(bs)]

\* Mutant: a block is split however small the rest.
splitAlways(bs, i, len) ==
  InsertAt([bs EXCEPT ![i].size = len], i + 1,
           FreeBlock(bs[i].addr + HDR + len, bs[i].size - len - HDR))
split_free_block(bs, i, len) ==
  IF bs[i].size < len + MINBLOCK THEN bs
  ELSE InsertAt([bs EXCEPT ![i].size = len], i + 1,
                FreeBlock(bs[i].addr + HDR + len, bs[i].size - len - HDR))

TakeBlock(bs, i, len) == [split_free_block(bs, i, len) EXCEPT ![i].size_used = len]

\* The block whose storage holds addr.
Holding(bs, addr) == {i \in DOMAIN bs : BLOCK_START(bs[i]) <= addr /\ addr < BLOCK_END(bs[i])}

Freed(bs, i) == garbage_collect([bs EXCEPT ![i].size_used = 0])
BlockOf(bs, ptr) == CHOOSE i \in DOMAIN bs : BLOCK_START(bs[i]) = ptr

\* What the library checks of a block; a failed check warns or aborts.
sanity_check(i) ==
  heap_start = heap_end \/
    /\ heap_start <= blocks[i].addr /\ blocks[i].addr < heap_end
    /\ blocks[i].size_used <= blocks[i].size
    /\ i < Len(blocks) => BLOCK_END(blocks[i]) = blocks[i + 1].addr
helper_check_heap == \A i \in DOMAIN blocks : sanity_check(i)

(***************************************************************************)
(* malloc, as a function of its argument and the kernel's answer           *)
(***************************************************************************)
Outcome(bs, end, breaks, ptr) ==
  [blocks |-> bs, heap_end |-> end, breaks |-> breaks, ptr |-> ptr]
Failed == Outcome(blocks, heap_end, Breaks(-1, current_break, sys_break), NULL)

\* grow_heap appends a free block up to the new break, which malloc merges with
\* the last one if that is free too.
Grown(len, ok) ==
  LET b == brk_unlocked(UP_TO_PAGE(heap_end + len + HDR), ok)
      bs == MergeLast(blocks, FreeBlock(heap_end, b.brk - heap_end - HDR))
  IN IF b.rc # 0 THEN Failed
     ELSE Outcome(TakeBlock(bs, Len(bs), len), b.brk, b, BLOCK_START(Last(bs)))

\* Mutant: no slop.
NoSlop(size) == WORDROUND(size)
\* A word of slop, so that no block in use has length 0, the mark of a free one.
WithSlop(size) == WORDROUND(size + WORD)

malloc(size, ok) ==
  LET len == WithSlop(size)
      fit == {i \in DOMAIN blocks : IsFree(blocks[i]) /\ len <= blocks[i].size}
  IN IF size >= 2 ^ (WIDTH - 1) THEN Failed
     ELSE IF fit # {}
     THEN LET i == CHOOSE i \in fit : \A j \in fit : i <= j
          IN Outcome(TakeBlock(blocks, i, len), heap_end,
                     Breaks(0, current_break, sys_break), BLOCK_START(blocks[i]))
     ELSE Grown(len, ok)

Install(o) ==
  /\ blocks' = o.blocks
  /\ heap_end' = o.heap_end
  /\ SetBreaks(o.breaks)

(***************************************************************************)
(* The calls.  init_heap is the beginning of whichever call of the library *)
(* comes first; nothing else can run between the two.                      *)
(***************************************************************************)
Ready == heap = "ready"

\* Without memory the only block has the size 0 - sizeof(mblock_t), an unsigned
\* number: "user heap will function oddly", and the model follows it no further.
init_heap(ok) ==
  /\ heap = "none"
  /\ LET b == brk_unlocked(current_break + 4 * PAGESIZE, ok)
     IN /\ SetBreaks(b)
        /\ heap_start' = current_break
        /\ heap_end' = b.brk
        /\ blocks' = <<FreeBlock(current_break, (b.brk - current_break - HDR) % 2 ^ WIDTH)>>
        /\ heap' = IF b.rc = 0 THEN "ready" ELSE "odd"
  /\ ret' = "init"
  /\ UNCHANGED owned

Own(ptr, len) ==
  owned' = [a \in DOMAIN owned \cup {ptr} |-> IF a = ptr THEN len ELSE owned[a]]
Disown(ptr) == owned' = [a \in DOMAIN owned \ {ptr} |-> owned[a]]
Keep == UNCHANGED <<heap_start, heap>>

Malloc(size, ok) ==
  /\ Ready /\ Cardinality(DOMAIN owned) < MaxOwned
  /\ LET o == malloc(size, ok)
     IN /\ Install(o)
        /\ IF o.ptr = NULL THEN ret' = "null" /\ UNCHANGED owned
           ELSE ret' = "ptr" /\ Own(o.ptr, size)
  /\ Keep

\* The product wraps around, and so does the number of bytes that are cleared.
Calloc(nmemb, size, ok) == Malloc((nmemb * size) % 2 ^ WIDTH, ok)

Free(ptr) ==
  /\ Ready /\ ptr \in DOMAIN owned
  /\ blocks' = Freed(blocks, CHOOSE i \in Holding(blocks, ptr) : TRUE)
  /\ Disown(ptr)
  /\ ret' = "freed"
  /\ Keep /\ UNCHANGED <<heap_end, current_break, sys_break>>

\* A second free finds a free block or none at all, and warns.
FreeAgain(addr) ==
  /\ Ready
  /\ \A i \in Holding(blocks, addr) : IsFree(blocks[i])
  /\ ret' = "warned"
  /\ UNCHANGED <<heap_start, heap_end, blocks, heap, current_break, sys_break, owned>>

\* Mutant: the free block next door is taken one header too soon.
ReallocInPlaceOff(bs, i, size) ==
  /\ i < Len(bs) /\ IsFree(bs[i + 1])
  /\ size <= bs[i].size + bs[i + 1].size + 2 * HDR
\* The next block is free and the two together are large enough.
ReallocInPlace(bs, i, size) ==
  /\ i < Len(bs) /\ IsFree(bs[i + 1])
  /\ size <= bs[i].size + bs[i + 1].size + HDR

Absorbed(bs, i, size) ==
  RemoveAt([bs EXCEPT ![i] = [Merged(bs[i], bs[i + 1]) EXCEPT !.size_used = size]], i + 1)

\* Mutant: the slop that malloc adds is not copied.
CopiedNoSlop(b) == b.size_used - WORD
\* What memcpy copies of the old block: "lost" records that it was less than the
\* program had there or more than the new block holds.
Copied(b) == b.size_used

\* Mutant: the old region is released although there is no new one.
ReallocFailsFrees(ptr, i) ==
  /\ blocks' = Freed(blocks, i) /\ Disown(ptr) /\ ret' = "null"
  /\ UNCHANGED <<heap_end, current_break, sys_break>>
ReallocFails(ptr, i) ==
  ret' = "null" /\ UNCHANGED <<blocks, heap_end, current_break, sys_break, owned>>

\* realloc(ptr, size) of an owned region with size > 0; realloc(NULL, size) is
\* Malloc and realloc(ptr, 0) is Free.
Realloc(ptr, size, ok) ==
  /\ Ready /\ ptr \in DOMAIN owned /\ size > 0
  /\ LET i == BlockOf(blocks, ptr)
         o == malloc(size, ok)
         bs == o.blocks
     IN CASE size <= blocks[i].size ->
               /\ blocks' = [blocks EXCEPT ![i].size_used = size]
               /\ owned' = [owned EXCEPT ![ptr] = size]
               /\ ret' = "ptr"
               /\ UNCHANGED <<heap_end, current_break, sys_break>>
          [] size > blocks[i].size /\ ReallocInPlace(blocks, i, size) ->
               /\ blocks' = Absorbed(blocks, i, size)
               /\ owned' = [owned EXCEPT ![ptr] = size]
               /\ ret' = "ptr"
               /\ UNCHANGED <<heap_end, current_break, sys_break>>
          [] OTHER ->
               IF o.ptr = NULL THEN ReallocFails(ptr, i)
               ELSE /\ Install([o EXCEPT !.blocks = Freed(bs, BlockOf(bs, ptr))])
                    /\ owned' = [a \in (DOMAIN owned \ {ptr}) \cup {o.ptr} |->
                                   IF a = o.ptr THEN size ELSE owned[a]]
                    /\ ret' = IF Copied(blocks[i]) \in owned[ptr] .. bs[BlockOf(bs, o.ptr)].size
                              THEN "ptr" ELSE "lost"
  /\ Keep

(***************************************************************************)
(* The specification                                                       *)
(***************************************************************************)
\* The program is loaded: its pages are mapped and the break is its end.
HeapInit ==
  /\ current_break \in LinkedEnds
  /\ sys_break = UP_TO_PAGE(current_break)
  /\ heap_start = NULL /\ heap_end = NULL
  /\ blocks = <<>>
  /\ heap = "none"
  /\ owned = <<>>
  /\ ret = "init"

HeapNext ==
  \/ \E ok \in BOOLEAN : init_heap(ok)
  \/ \E incr \in Incrs, ok \in BOOLEAN : sbrk(incr, ok) \/ Brk(current_break + incr, ok)
  \/ \E size \in Lens, ok \in BOOLEAN : Malloc(size, ok)
  \/ \E a \in Arrays, ok \in BOOLEAN : Calloc(a.nmemb, a.size, ok)
  \/ \E ptr \in DOMAIN owned : Free(ptr)
  \/ \E addr \in {heap_end} \cup {BLOCK_START(blocks[i]) : i \in DOMAIN blocks} : FreeAgain(addr)
  \/ \E ptr \in DOMAIN owned, size \in Lens, ok \in BOOLEAN : Realloc(ptr, size, ok)

HeapSpec == HeapInit /\ [][HeapNext]_heapVars

(***************************************************************************)
(* Properties                                                              *)
(***************************************************************************)
\* Every variable has its type, and no address is beyond the bound of the breaks.
HeapTypeOK ==
  /\ current_break \in 0 .. MaxBreak
  /\ sys_break \in 0 .. MaxBreak
  /\ heap_start \in 0 .. MaxBreak
  /\ heap_end \in 0 .. MaxBreak
  /\ blocks \in Seq(Block)
  /\ heap \in {"none", "ready", "odd"}
  /\ \A a \in DOMAIN owned : a \in HDR .. MaxBreak /\ owned[a] \in 0 .. 2 ^ WIDTH - 1
  /\ ret \in {"init", "sbrk", "null", "ptr", "freed", "warned", "lost"}

\* The checks that every call runs on every block it passes never fail, and beyond
\* what they look at the list covers the heap from its start to its end: no call
\* leaves bytes that are in no block, or blocks that overlap.
SanityHolds ==
  Ready =>
    /\ helper_check_heap
    /\ blocks[1].addr = heap_start
    /\ BLOCK_END(Last(blocks)) = heap_end

\* No two neighbours are free: after any sequence of calls a free stretch of the
\* heap is one block, so malloc's first fit sees all of it (garbage_collect, the
\* merge after grow_heap, and realloc taking its neighbour).
FreeBlocksAreMerged ==
  \A i \in 1 .. Len(blocks) - 1 : ~(IsFree(blocks[i]) /\ IsFree(blocks[i + 1]))

\* A block is in use exactly if the program owns a region at its start, and the
\* region fits: no block leaks and none is handed out twice (malloc, realloc, free).
BlocksAreOwned ==
  Ready =>
    /\ {BLOCK_START(blocks[i]) : i \in {j \in DOMAIN blocks : ~IsFree(blocks[j])}} = DOMAIN owned
    /\ \A i \in DOMAIN blocks : ~IsFree(blocks[i]) =>
         owned[BLOCK_START(blocks[i])] <= blocks[i].size_used

\* The heap ends at or below the break, and the kernel has mapped all of it, even
\* if the kernel refused memory or the program moved the break itself.
HeapIsMapped == heap_end <= current_break /\ current_break <= sys_break

\* realloc copies all the program had in the old block and no more than the new one
\* holds, also after the block was resized in place and lost malloc's slop.
ContentsSurvive == ret # "lost"

\* A call that returns NULL leaves the heap as it was: a failed realloc keeps the
\* old region, and a failed grow_heap links no block.
FailureChangesNothing ==
  [][ret' = "null" => UNCHANGED <<current_break, sys_break, heap_end, blocks, owned>>]_heapVars
=============================================================================
