------------------------------ MODULE MCMemory ------------------------------
(***************************************************************************)
(* Memory management for TLC: the frames and page tables of Memory, and    *)
(* the kernel heap.  All the heap needs of the frame allocator is that a   *)
(* call may fail, which Heap allows at any time, so the two are explored   *)
(* one at a time: `part' says which one a behaviour is about.              *)
(***************************************************************************)
EXTENDS Memory, TLC

CONSTANTS p1, p2, p3

VARIABLES
  part,
  hdr, g_heap_size, heap_mapped, heap_live, heap_leaked, faulted

H == INSTANCE Heap WITH
  PAGE <- 3, CHUNK <- 6, CAP <- 12, MaxSize <- 7, FrameFails <- TRUE,
  mapped <- heap_mapped, live <- heap_live, leaked <- heap_leaked

heap == <<hdr, g_heap_size, heap_mapped, heap_live, heap_leaked, faulted>>
mcvars == <<part, vars, heap>>

MCInit == part \in {"pages", "heap"} /\ Init /\ H!Init

MCNext ==
  /\ UNCHANGED part
  /\ \/ part = "pages" /\ Next /\ UNCHANGED heap
     \/ part = "heap" /\ H!Next /\ UNCHANGED vars

MCSpec == MCInit /\ [][MCNext]_mcvars

ProcSymmetry == Permutations({p1, p2, p3})

-----------------------------------------------------------------------------
\* Every table of memory management, the heap's block headers among them,
\* holds what its declaration says.
TypesOK == TypeOK /\ H!TypeOK

\* The heap is a list of disjoint blocks.  The walk of kalloc() and kfree()
\* from offset 0 meets each header once and ends at g_heap_size; what
\* kalloc() has handed out is a block in use at least as large as asked for,
\* and no other block is in use; and no two neighbours are free, since kfree()
\* coalesces both ways and neither a split nor a growth leaves such a pair.
HeapSound == H!BlocksTile /\ H!LiveBlocksKept /\ H!FreeBlocksApart
=============================================================================
