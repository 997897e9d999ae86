-------------------------------- MODULE Heap --------------------------------
(***************************************************************************)
(* The kernel heap (kernel/mm/heap/heap.c): blocks in address order, each  *)
(* behind a header; first fit with split, coalescing free, growth by       *)
(* mapping frames up to a cap.  kalloc() and kfree() run with interrupts   *)
(* off.  Addresses and sizes are in units of 16 bytes, which is the size   *)
(* of a header and what kalloc() rounds a request up to.                   *)
(*                                                                         *)
(* Callers free only what they were given, once.                           *)
(***************************************************************************)
EXTENDS Naturals

CONSTANTS
  PAGE,       \* units per page
  CHUNK,      \* least growth: 65536 bytes, a multiple of PAGE
  CAP,        \* g_heap_cap, a multiple of PAGE, at least CHUNK
  MaxSize,    \* bound: the largest request
  FrameFails  \* whether alloc_frame() may find no frame

Header == 1

VARIABLES
  hdr,          \* offset -> header, for the blocks of the heap
  g_heap_size,
  mapped,       \* units of the heap's address range that are mapped
  live,         \* history: offset -> size asked for, of what callers hold
  leaked,       \* history: some frame was mapped over by another
  faulted       \* a header was stored outside the mapped range

vars == <<hdr, g_heap_size, mapped, live, leaked, faulted>>

Offsets == 0 .. CAP
Blocks == DOMAIN hdr

\* Headers lie inside the heap and describe blocks inside it.
TypeOK ==
  /\ g_heap_size \in 0 .. CAP
  /\ mapped \in g_heap_size .. CAP
  /\ \A b \in Blocks : /\ b < g_heap_size
                       /\ hdr[b].size \in Nat
                       /\ b + Header + hdr[b].size <= g_heap_size
                       /\ hdr[b].free \in BOOLEAN
  /\ leaked \in BOOLEAN
  /\ faulted \in BOOLEAN

\* heap_init(), called by the first kalloc(): one chunk, one free block.
Init ==
  /\ hdr = [b \in {0} |-> [size |-> CHUNK - Header, free |-> TRUE]]
  /\ g_heap_size = CHUNK
  /\ mapped = CHUNK
  /\ live = [b \in {} |-> 0]
  /\ leaked = FALSE
  /\ faulted = FALSE

-----------------------------------------------------------------------------
\* The offset at which the scans continue after block b.
After(h, b) == b + Header + h[b].size

Restricted(h, S) == [b \in S |-> h[b]]

\* "Split only if enough remains for another header + 16 bytes."
Splits(h, b, size) == h[b].size >= size + Header + 1

\* (Mutant.) The remainder keeps the room of the header it is given.
RemainderUncut(h, b, size) == h[b].size - size

Remainder(h, b, size) == h[b].size - size - Header

Fits(h, size) == {b \in DOMAIN h : h[b].free /\ h[b].size >= size}

\* The first block of the scan that fits, and the headers once it is taken.
FirstFit(h, size) ==
  CHOOSE b \in Fits(h, size) : \A c \in Fits(h, size) : b <= c

Take(h, b, size) ==
  LET r == b + Header + size IN
  IF Splits(h, b, size)
  THEN [c \in DOMAIN h \cup {r} |->
          IF c = b THEN [size |-> size, free |-> FALSE]
          ELSE IF c = r THEN [size |-> Remainder(h, b, size), free |-> TRUE]
          ELSE h[c]]
  ELSE [h EXCEPT ![b].free = FALSE]

RoundUp(n) == ((n + PAGE - 1) \div PAGE) * PAGE

\* What heap_grow(min_extra) tries to map: at least a chunk, at most what
\* the cap leaves, which may be less than min_extra, and nothing at the cap.
GrowBy(min_extra) ==
  LET chunk == RoundUp(IF min_extra < CHUNK THEN CHUNK ELSE min_extra) IN
  IF g_heap_size + chunk > CAP THEN CAP - g_heap_size ELSE chunk

-----------------------------------------------------------------------------
\* kalloc() when a free block is large enough.
KallocFits(size) ==
  /\ ~faulted
  /\ Fits(hdr, size) # {}
  /\ LET b == FirstFit(hdr, size) IN
     /\ hdr' = Take(hdr, b, size)
     /\ live' = [c \in DOMAIN live \cup {b} |-> IF c = b THEN size ELSE live[c]]
  /\ UNCHANGED <<g_heap_size, mapped, leaked, faulted>>

(***************************************************************************)
(* kalloc() when none is: it grows and scans again.  If the growth was cut *)
(* short by the cap and the new block is still too small, it grows by      *)
(* nothing, which heap_grow() reports as success, and stores a header at   *)
(* the end of the heap, which is not mapped.                               *)
(***************************************************************************)
KallocGrows(size) ==
  LET chunk == GrowBy(size + Header)
      new == [size |-> chunk - Header, free |-> TRUE]
      grown == [c \in Blocks \cup {g_heap_size} |->
                  IF c = g_heap_size THEN new ELSE hdr[c]]
  IN
  /\ ~faulted
  /\ Fits(hdr, size) = {}
  /\ g_heap_size' = g_heap_size + chunk
  /\ mapped' = IF mapped > g_heap_size' THEN mapped ELSE g_heap_size'
  /\ leaked' = (leaked \/ (mapped > g_heap_size /\ chunk > 0))
  /\ IF chunk >= size + Header
     THEN /\ hdr' = Take(grown, g_heap_size, size)
          /\ live' = [c \in DOMAIN live \cup {g_heap_size} |->
                        IF c = g_heap_size THEN size ELSE live[c]]
          /\ UNCHANGED faulted
     ELSE /\ hdr' = IF chunk = 0 THEN hdr ELSE grown
          /\ faulted' = TRUE
          /\ UNCHANGED live

\* kalloc() that returns NULL because alloc_frame() or map_page() fails; the
\* pages mapped before that stay mapped and are not counted.
KallocNoFrame(size, pages) ==
  /\ ~faulted
  /\ FrameFails
  /\ Fits(hdr, size) = {}
  /\ pages * PAGE < GrowBy(size + Header)
  /\ LET end == g_heap_size + pages * PAGE IN
     mapped' = IF mapped > end THEN mapped ELSE end
  /\ leaked' = (leaked \/ (mapped > g_heap_size /\ pages > 0))
  /\ UNCHANGED <<hdr, g_heap_size, live, faulted>>

-----------------------------------------------------------------------------
\* The free blocks that follow b without a gap or a block in use.
FreeRun(h, b) ==
  {c \in DOMAIN h : c > b /\ \A d \in DOMAIN h : b < d /\ d <= c => h[d].free}

\* (Mutant.) The forward loop is left out.
ForwardNothing(h, b) == {}

\* What the forward loop of kfree() merges: "every immediately-following free
\* block".
Forward(h, b) == FreeRun(h, b)

\* What its rescan from offset 0 finds and merges into.
Prev(h, b) == {c \in DOMAIN h : After(h, c) = b /\ h[c].free}

SizeOver(h, first, S) ==
  LET last == CHOOSE c \in S : \A d \in S : d <= c IN
  After(h, last) - first - Header

Kfree(b) ==
  LET run == Forward(hdr, b)
      first == IF Prev(hdr, b) = {} THEN b ELSE CHOOSE c \in Prev(hdr, b) : TRUE
      keep == (Blocks \ (run \cup {b})) \cup {first}
  IN
  /\ ~faulted
  /\ b \in DOMAIN live
  /\ hdr' = [c \in keep |->
               IF c = first
               THEN [size |-> SizeOver(hdr, first, run \cup {b}), free |-> TRUE]
               ELSE hdr[c]]
  /\ live' = Restricted(live, DOMAIN live \ {b})
  /\ UNCHANGED <<g_heap_size, mapped, leaked, faulted>>

Next ==
  \/ \E size \in 1 .. MaxSize : KallocFits(size)
  \/ \E size \in 1 .. MaxSize : KallocGrows(size)
  \/ \E size \in 1 .. MaxSize, pages \in 0 .. CAP : KallocNoFrame(size, pages)
  \/ \E b \in Offsets : Kfree(b)

Spec == Init /\ [][Next]_vars

-----------------------------------------------------------------------------
(***************************************************************************)
(* The walk every scan relies on: from offset 0, block after block, it     *)
(* meets each header once and ends exactly at g_heap_size.                 *)
(***************************************************************************)
BlocksTile ==
  /\ 0 \in Blocks
  /\ \A b \in Blocks : After(hdr, b) \in Blocks \cup {g_heap_size}
  /\ \A b, c \in Blocks : b < c => After(hdr, b) <= c

(***************************************************************************)
(* What kalloc() has handed out is a block in use at least as large as     *)
(* asked for, and no other block is in use: blocks "alias" no two callers, *)
(* and every byte that was freed can be allocated again.                   *)
(***************************************************************************)
LiveBlocksKept ==
  /\ \A b \in DOMAIN live : b \in Blocks /\ hdr[b].size >= live[b]
  /\ {b \in Blocks : ~hdr[b].free} = DOMAIN live

(***************************************************************************)
(* kfree() coalesces in both directions, and neither a split nor a growth  *)
(* of kalloc() leaves a free block beside another: in any history of calls *)
(* no two neighbours are free, so free space is never cut up needlessly.   *)
(***************************************************************************)
FreeBlocksApart ==
  ~faulted =>
    \A b \in Blocks :
      hdr[b].free /\ After(hdr, b) \in Blocks => ~hdr[After(hdr, b)].free

\* heap_grow() "Returns false on allocation failure or cap hit": running out
\* of heap makes kalloc() return NULL and never store outside the heap.
CapIsOutOfMemory == ~faulted

\* No page of the heap is mapped over: that would be "leaking the old" frame.
NoFrameLeaked == ~leaked
=============================================================================
