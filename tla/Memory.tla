------------------------------- MODULE Memory -------------------------------
(***************************************************************************)
(* Physical frames, per-process page tables, copy-on-write fork, shared    *)
(* memory and the page-fault repair: kernel/mm/frames, kernel/mm/paging,   *)
(* kernel/mm/cow, proc/ipc/shared_memory, the page-fault branch of         *)
(* kernel/isr/isr.c, and the parts of spawn_process(), fork, thread_create *)
(* and process_exit that touch memory.                                     *)
(*                                                                         *)
(* Every operation below runs with interrupts disabled, or works on an     *)
(* address space nobody else can reach yet, and is one step.  The frames   *)
(* that hold page tables are never shared, are freed with their address    *)
(* space and are left out.  A frame's content is one value.  Shared        *)
(* regions have one page, and region r is always mapped at page r.         *)
(***************************************************************************)
EXTENDS Integers, FiniteSets

CONSTANTS
  Procs,          \* process slots
  NFrames,        \* number of physical frames
  ImagePages,     \* pages spawn_process() maps writable: the program image
  StackPages,     \* pages it maps writable and NX: the main stack
  ThreadPages,    \* pages thread_create maps writable and NX
  Regions,        \* shared regions, named by the page they are mapped at
  CopyOutPages,   \* pages holding buffers a system call fills
  COW_SLOTS,      \* size of g_cow_frames
  Values,         \* page contents
  Zero,           \* the content of a fresh page
  NONE,           \* an absent page-table entry or frame
  ForkPages,      \* what a process that calls fork has mapped at most
  TaskTableFull,  \* whether create_task_with_cr3() may find no slot (BOOLEANs)
  TouchesStack    \* whether a process writes its stack after a fork before
                  \* it exits, as one that returns from fork() does

Pages == ImagePages \cup StackPages \cup ThreadPages \cup Regions

ASSUME MemoryAssumption ==
  /\ NFrames \in Nat
  /\ Pages \subseteq Nat
  /\ CopyOutPages \subseteq Pages
  /\ ForkPages \subseteq Pages
  /\ COW_SLOTS \in Nat
  /\ TaskTableFull \subseteq BOOLEAN
  /\ Zero \in Values
  /\ NONE \notin Values

Frames == 1 .. NFrames

VARIABLES
  free,      \* clear bits of g_frame_bitmap
  content,   \* what each frame holds
  live,      \* g_processes[p].used
  pt,        \* the leaf entries below g_processes[p].cr3
  cow,       \* refcount of a frame in g_cow_frames, 0 when it has no slot
  shm,       \* the frame of each region of g_shared_regions
  halted,    \* the page-fault handler has reached hlt
  leaked     \* history: frames a failed spawn_process() left behind

vars == <<free, content, live, pt, cow, shm, halted, leaked>>

Entries == [frame : Frames, w : BOOLEAN, nx : BOOLEAN]

\* Every table holds what its declaration says.
TypeOK ==
  /\ free \subseteq Frames
  /\ content \in [Frames -> Values]
  /\ live \in [Procs -> BOOLEAN]
  /\ pt \in [Procs -> [Pages -> Entries \cup {NONE}]]
  /\ cow \in [Frames -> Nat]
  /\ Cardinality({f \in Frames : cow[f] > 0}) <= COW_SLOTS
  /\ shm \in [Regions -> Frames \cup {NONE}]
  /\ halted \in BOOLEAN
  /\ leaked \subseteq Frames

NoPages == [v \in Pages |-> NONE]

Init ==
  /\ free = Frames
  /\ content = [f \in Frames |-> Zero]
  /\ live = [p \in Procs |-> FALSE]
  /\ pt = [p \in Procs |-> NoPages]
  /\ cow = [f \in Frames |-> 0]
  /\ shm = [r \in Regions |-> NONE]
  /\ halted = FALSE
  /\ leaked = {}

-----------------------------------------------------------------------------
Mapped(p) == {v \in Pages : pt[p][v] # NONE}

ShmFrames == {shm[r] : r \in Regions} \ {NONE}

Tracked == {f \in Frames : cow[f] > 0}

(***************************************************************************)
(* alloc_frame() hands out the lowest free frame; the k-th call in a row,  *)
(* counting from 0, the one with k free frames below it.                   *)
(***************************************************************************)
NthFree(k) == CHOOSE f \in free : Cardinality({g \in free : g < f}) = k

Below(S, v) == Cardinality({w \in S : w < v})

(***************************************************************************)
(* spawn_process(): a frame per image page, then one for the stack.  When  *)
(* a frame is missing it returns -1 and what it has allocated so far, by   *)
(* then every free frame, stays allocated.                                 *)
(***************************************************************************)
Spawn(p) ==
  LET pages == ImagePages \cup StackPages
      FrameOf(v) == NthFree(Below(pages, v))
  IN
  /\ ~halted
  /\ ~live[p]
  /\ IF Cardinality(free) >= Cardinality(pages)
     THEN /\ live' = [live EXCEPT ![p] = TRUE]
          /\ pt' = [pt EXCEPT ![p] = [v \in Pages |->
                      IF v \in pages
                      THEN [frame |-> FrameOf(v), w |-> TRUE,
                            nx |-> v \in StackPages]
                      ELSE NONE]]
          /\ free' = free \ {FrameOf(v) : v \in pages}
          /\ content' = [f \in Frames |->
                           IF \E v \in pages : f = FrameOf(v) THEN Zero
                           ELSE content[f]]
          /\ UNCHANGED leaked
     ELSE /\ free' = {}
          /\ leaked' = leaked \cup free
          /\ UNCHANGED <<live, pt, content>>
  /\ UNCHANGED <<cow, shm, halted>>

\* thread_create: one more NX stack page in the caller's address space.
ThreadCreate(p, v) ==
  /\ ~halted
  /\ live[p]
  /\ pt[p][v] = NONE
  /\ free # {}
  /\ pt' = [pt EXCEPT ![p][v] = [frame |-> NthFree(0), w |-> TRUE, nx |-> TRUE]]
  /\ free' = free \ {NthFree(0)}
  /\ UNCHANGED <<content, live, cow, shm, halted, leaked>>

\* alloc_shared_memory(): regions are never given back.
AllocSharedMemory(r) ==
  /\ ~halted
  /\ shm[r] = NONE
  /\ free # {}
  /\ shm' = [shm EXCEPT ![r] = NthFree(0)]
  /\ free' = free \ {NthFree(0)}
  /\ UNCHANGED <<content, live, pt, cow, halted, leaked>>

\* shared_memory_map(), for the caller itself or for another process.
SharedMemoryMap(p, r) ==
  /\ ~halted
  /\ live[p]
  /\ shm[r] # NONE
  /\ pt' = [pt EXCEPT ![p][r] = [frame |-> shm[r], w |-> TRUE, nx |-> FALSE]]
  /\ UNCHANGED <<free, content, live, cow, shm, halted, leaked>>

-----------------------------------------------------------------------------
(***************************************************************************)
(* free_address_space() on the leaf entries m, with the reference counts   *)
(* c in force: cow_should_free() on each leaf, then                        *)
(* shared_memory_owns_frame().  The leaf address keeps the PAGE_NX bit,    *)
(* so an NX leaf matches neither table; free_frame() truncates the bit     *)
(* away and frees the frame.                                               *)
(***************************************************************************)
LooksTracked(e) == e # NONE /\ ~e.nx

DroppedCountUnchecked(m, c) ==
  [f \in Frames |->
     IF \E v \in Pages : LooksTracked(m[v]) /\ m[v].frame = f
     THEN c[f] - 1 ELSE c[f]]

DroppedCount(m, c) ==
  [f \in Frames |->
     IF c[f] > 0 /\ \E v \in Pages : LooksTracked(m[v]) /\ m[v].frame = f
     THEN c[f] - 1 ELSE c[f]]

FreedFramesAlways(m, c) == {m[v].frame : v \in {w \in Pages : m[w] # NONE}}

FreedFrames(m, c) ==
  {m[v].frame : v \in {w \in Pages :
     /\ m[w] # NONE
     /\ LooksTracked(m[w]) =>
          c[m[w].frame] <= 1 /\ m[w].frame \notin ShmFrames}}

(***************************************************************************)
(* clone_address_space_cow(): in page order each leaf of the parent loses  *)
(* its writable bit, is mapped alike in the child and is tracked.  The     *)
(* first leaf for which g_cow_frames has no slot left ends the walk, its   *)
(* two mappings already written.                                           *)
(***************************************************************************)
ReadOnly(e) == [e EXCEPT !.w = FALSE]

Overflows(p, v) ==
  LET untracked == {w \in Mapped(p) : pt[p][w].frame \notin Tracked} IN
  v \in untracked /\ Below(untracked, v) >= COW_SLOTS - Cardinality(Tracked)

Visited(p) == {v \in Mapped(p) : \A w \in Mapped(p) : Overflows(p, w) => w >= v}

TrackAlways2(p, c) ==
  [f \in Frames |->
     IF \E v \in Visited(p) : pt[p][v].frame = f /\ ~Overflows(p, v)
     THEN 2 ELSE c[f]]

TrackStartsAtOne(p, c) ==
  [f \in Frames |->
     IF \E v \in Visited(p) : pt[p][v].frame = f /\ ~Overflows(p, v)
     THEN c[f] + 1 ELSE c[f]]

\* cow_track(): refcount 2 for a frame first shared, one more afterwards.
CowTrack(p, c) ==
  [f \in Frames |->
     IF \E v \in Visited(p) : pt[p][v].frame = f /\ ~Overflows(p, v)
     THEN IF c[f] = 0 THEN 2 ELSE c[f] + 1
     ELSE c[f]]

(***************************************************************************)
(* fork.  full says whether create_task_with_cr3() has no slot left.  When *)
(* the walk or the task creation fails the child's address space is freed; *)
(* the parent's demoted mappings stay as they are.                         *)
(***************************************************************************)
ForkWritable(e) == e

ForkEntry(e) == ReadOnly(e)

Fork(p, c, full) ==
  LET child == [v \in Pages |->
                  IF v \in Visited(p) THEN ForkEntry(pt[p][v]) ELSE NONE]
      counts == CowTrack(p, cow)
  IN
  /\ ~halted
  /\ live[p]
  /\ Mapped(p) \subseteq ForkPages
  /\ ~live[c]
  /\ IF full \/ \E v \in Pages : Overflows(p, v)
     THEN /\ pt' = [pt EXCEPT ![p] = [v \in Pages |->
                      IF v \in Visited(p) THEN ForkEntry(pt[p][v])
                      ELSE pt[p][v]]]
          /\ cow' = DroppedCount(child, counts)
          /\ free' = free \cup FreedFrames(child, counts)
          /\ UNCHANGED live
     ELSE /\ pt' = [pt EXCEPT ![p] = child, ![c] = child]
          /\ cow' = counts
          /\ live' = [live EXCEPT ![c] = TRUE]
          /\ UNCHANGED free
  /\ UNCHANGED <<content, shm, halted, leaked>>

\* process_exit's free_address_space().
Exit(p) ==
  /\ ~halted
  /\ live[p]
  /\ TouchesStack => \A v \in StackPages \cap Mapped(p) : pt[p][v].w
  /\ live' = [live EXCEPT ![p] = FALSE]
  /\ pt' = [pt EXCEPT ![p] = NoPages]
  /\ cow' = DroppedCount(pt[p], cow)
  /\ free' = free \cup FreedFrames(pt[p], cow)
  /\ UNCHANGED <<content, shm, halted, leaked>>

-----------------------------------------------------------------------------
(***************************************************************************)
(* A write by user code.  On a read-only page the page-fault handler gives *)
(* the writer a private copy, mapped writable and executable, if the frame *)
(* is tracked and a frame is left; in any other case the machine halts.    *)
(***************************************************************************)
RepairKeepsOld(f) == {}

\* cow_should_free() and free_frame() on the frame the repair replaced.
RepairFrees(f) == IF cow[f] = 1 THEN {f} ELSE {}

UserWrite(p, v, x) ==
  LET e == pt[p][v]
      new == NthFree(0)
  IN
  /\ ~halted
  /\ live[p]
  /\ e # NONE
  /\ \/ /\ e.w
        /\ content' = [content EXCEPT ![e.frame] = x]
        /\ UNCHANGED <<free, pt, cow, halted, leaked>>
     \/ /\ ~e.w
        /\ cow[e.frame] > 0
        /\ free # {}
        /\ content' = [content EXCEPT ![new] = x]
        /\ pt' = [pt EXCEPT ![p][v] = [frame |-> new, w |-> TRUE, nx |-> FALSE]]
        /\ cow' = [cow EXCEPT ![e.frame] = @ - 1]
        /\ free' = (free \ {new}) \cup RepairFrees(e.frame)
        /\ UNCHANGED halted
     \/ /\ ~e.w
        /\ cow[e.frame] = 0 \/ free = {}
        /\ halted' = TRUE
        /\ UNCHANGED <<free, content, pt, cow>>
  /\ UNCHANGED <<live, shm, leaked>>

(***************************************************************************)
(* A system call storing a result in a user buffer.  CR0.WP is clear, so   *)
(* the kernel's own write never faults on a read-only page.                *)
(***************************************************************************)
KernelWrite(p, v, x) ==
  /\ ~halted
  /\ live[p]
  /\ pt[p][v] # NONE
  /\ content' = [content EXCEPT ![pt[p][v].frame] = x]
  /\ UNCHANGED <<free, live, pt, cow, shm, halted, leaked>>

Next ==
  \/ \E p \in Procs : Spawn(p)
  \/ \E p \in Procs, v \in ThreadPages : ThreadCreate(p, v)
  \/ \E r \in Regions : AllocSharedMemory(r)
  \/ \E p \in Procs, r \in Regions : SharedMemoryMap(p, r)
  \/ \E p, c \in Procs, full \in TaskTableFull : Fork(p, c, full)
  \/ \E p \in Procs : Exit(p)
  \/ \E p \in Procs, v \in Pages, x \in Values : UserWrite(p, v, x)
  \/ \E p \in Procs, v \in CopyOutPages, x \in Values : KernelWrite(p, v, x)

Spec == Init /\ [][Next]_vars

-----------------------------------------------------------------------------
Mappings(f) ==
  {m \in Procs \X Pages : pt[m[1]][m[2]] # NONE /\ pt[m[1]][m[2]].frame = f}

(***************************************************************************)
(* No process maps a frame the allocator considers free: "the caller must  *)
(* NOT free it" while another reference remains (cow.h).                   *)
(***************************************************************************)
NoDanglingMapping == \A f \in free : Mappings(f) = {}

(***************************************************************************)
(* The reference count of a tracked frame is the number of address spaces  *)
(* that still map it, however forks, repairs and exits are interleaved.    *)
(***************************************************************************)
RefcountExact == \A f \in Tracked : cow[f] = Cardinality(Mappings(f))

(***************************************************************************)
(* A page is read-only only because it is COW-shared, so the handler can   *)
(* always repair a write to it ("gets a fresh private copy instead of      *)
(* halting", isr.c).                                                       *)
(***************************************************************************)
ReadOnlyIsTracked ==
  \A p \in Procs, v \in Pages :
    pt[p][v] # NONE /\ ~pt[p][v].w => pt[p][v].frame \in Tracked

(***************************************************************************)
(* Allocated frames are mapped pages or shared regions: exits and repairs  *)
(* give back all that nobody uses any more.  What a spawn_process() that   *)
(* ran out of frames has left behind is the only exception.                *)
(***************************************************************************)
NothingLeaks ==
  \A f \in Frames \ free :
    \/ Mappings(f) # {}
    \/ f \in ShmFrames \cup leaked

(***************************************************************************)
(* A region's frames stay with the region, whoever maps them, forks with   *)
(* them mapped, writes them or exits ("borrowed, not owned",               *)
(* shared_memory.c).                                                       *)
(***************************************************************************)
RegionsKeepFrames == ShmFrames \cap free = {}

\* Frames are kept exactly as long as needed, through faults, forks, regions and
\* exits: no mapping of any address space names a free frame, a shared region
\* keeps its frames, and every other frame in use is mapped, but for those a
\* spawn_process() that ran out of frames has left behind.
FramesKept == NoDanglingMapping /\ RegionsKeepFrames /\ NothingLeaks

\* Copy-on-write: the reference count of a tracked frame is the number of its
\* mappings, and a read-only page is always a tracked one, so that a write to it
\* can be repaired (cow.c, isr.c).
CowExact == RefcountExact /\ ReadOnlyIsTracked

(***************************************************************************)
(* Copy-on-write is invisible: outside shared regions a process sees       *)
(* memory of its own.                                                      *)
(***************************************************************************)
PM == INSTANCE ProcessMemory WITH
  Pages <- Pages \ Regions,
  mem <- [p \in Procs |-> [v \in Pages \ Regions |->
            IF pt[p][v] = NONE THEN NONE ELSE content[pt[p][v].frame]]]

ImplementsProcessMemory == PM!Spec
=============================================================================
