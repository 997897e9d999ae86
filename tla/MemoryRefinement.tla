-------------------------- MODULE MemoryRefinement --------------------------
(***************************************************************************)
(* Copy-on-write is invisible: Memory implements ProcessMemory.            *)
(***************************************************************************)
EXTENDS MemoryProofs

-----------------------------------------------------------------------------
(***************************************************************************)
(* Memory implements ProcessMemory.  Two more conditions: a process has a  *)
(* stack, and the buffers a system call fills lie on pages that are never  *)
(* shared copy-on-write, since the kernel's own writes bypass the fault    *)
(* handler.                                                                *)
(***************************************************************************)
BuffersUnshared == StackPages # {} /\ CopyOutPages \cap ForkPages = {}

\* What process p reads at page v, and the memory ProcessMemory sees.
Cell(p, v) == IF pt[p][v] = NONE THEN NONE ELSE content[pt[p][v].frame]

Mem == [p \in Procs |-> [v \in Pages \ Regions |-> Cell(p, v)]]

\* A live process has its image and its stack.
LiveHasStack == \A p \in Procs, v \in StackPages : live[p] => pt[p][v] # NONE

\* A step that changes no cell is a stuttering step of ProcessMemory.
LEMMA MemSame ==
  ASSUME \A q \in Procs, u \in Pages \ Regions : Cell(q, u)' = Cell(q, u)
  PROVE  Mem' = Mem
BY DEF Mem

\* A step that gives one cell of a live process a value is a Change.
LEMMA MemChange ==
  ASSUME NEW p \in Procs, NEW v \in Pages \ Regions,
         Cell(p, v)' \in Values,
         \A q \in Procs, u \in Pages \ Regions :
           ~(q = p /\ u = v) => Cell(q, u)' = Cell(q, u),
         \E u \in Pages \ Regions : Cell(p, u) # NONE
  PROVE  PM!Next
<1>1. /\ DOMAIN Mem' = Procs
      /\ \A q \in Procs \ {p} : Mem'[q] = Mem[q]
  BY DEF Mem
<1>2. Mem[p] # [u \in Pages \ Regions |-> NONE]
  <2>1. PICK u \in Pages \ Regions : Cell(p, u) # NONE
    OBVIOUS
  <2>2. Mem[p][u] = Cell(p, u)
    BY DEF Mem
  <2>. QED
    BY <2>1, <2>2
<1>3. Mem'[p][v] = Cell(p, v)'
  BY DEF Mem
<1>4. Mem'[p] = [Mem[p] EXCEPT ![v] = Mem'[p][v]]
  <2>1. Mem[p] = [u \in Pages \ Regions |-> Cell(p, u)]
    BY DEF Mem
  <2>2. Mem'[p] = [u \in Pages \ Regions |-> Cell(p, u)']
    BY DEF Mem
  <2>. QED
    BY <2>1, <2>2
<1>5. PM!Change(p, v)
  BY <1>2, <1>3, <1>4, Zenon DEF PM!Change, PM!NoPages, Mem, Cell
<1>6. PM!OnlyOf(p)
  BY <1>1, Zenon DEF PM!OnlyOf, Mem, Cell
<1>. QED
  BY <1>5, <1>6 DEF PM!Next

\* Steps on the memory of one process as a whole.
LEMMA MemOfOne ==
  ASSUME NEW p \in Procs,
         \A q \in Procs \ {p}, u \in Pages \ Regions : Cell(q, u)' = Cell(q, u),
         \/ /\ \A u \in Pages \ Regions : Cell(p, u) = NONE
            /\ \A u \in Pages \ Regions : Cell(p, u)' \in {Zero, NONE}
         \/ /\ \A u \in Pages \ Regions : Cell(p, u) = NONE
            /\ \E parent \in Procs :
                 \A u \in Pages \ Regions : Cell(p, u)' = Cell(parent, u)
         \/ \A u \in Pages \ Regions : Cell(p, u)' = NONE
  PROVE  PM!Next
<1>1. PM!OnlyOf(p)
  <2>1. /\ DOMAIN Mem' = Procs
        /\ \A q \in Procs \ {p} : Mem'[q] = Mem[q]
    BY DEF Mem
  <2>. QED
    BY <2>1, Zenon DEF PM!OnlyOf, Mem, Cell
<1>2. Mem'[p] = [u \in Pages \ Regions |-> Cell(p, u)']
  BY DEF Mem
<1>3. \A q \in Procs : Mem[q] = [u \in Pages \ Regions |-> Cell(q, u)]
  BY DEF Mem
<1>4. CASE /\ \A u \in Pages \ Regions : Cell(p, u) = NONE
           /\ \A u \in Pages \ Regions : Cell(p, u)' \in {Zero, NONE}
  <2>1. Mem[p] = [u \in Pages \ Regions |-> NONE]
        /\ Mem'[p] \in [Pages \ Regions -> {Zero, NONE}]
    BY <1>2, <1>3, <1>4
  <2>2. PM!Start(p)
    BY <2>1, Zenon DEF PM!Start, PM!NoPages, Mem, Cell
  <2>. QED
    BY <1>1, <2>2 DEF PM!Next
<1>5. CASE /\ \A u \in Pages \ Regions : Cell(p, u) = NONE
           /\ \E parent \in Procs :
                \A u \in Pages \ Regions : Cell(p, u)' = Cell(parent, u)
  <2>1. Mem[p] = [u \in Pages \ Regions |-> NONE]
        /\ \E parent \in Procs : Mem'[p] = Mem[parent]
    BY <1>2, <1>3, <1>5
  <2>2. PM!Copy(p)
    BY <2>1, Zenon DEF PM!Copy, PM!NoPages, Mem, Cell
  <2>. QED
    BY <1>1, <2>2 DEF PM!Next
<1>6. CASE \A u \in Pages \ Regions : Cell(p, u)' = NONE
  <2>1. Mem'[p] = [u \in Pages \ Regions |-> NONE]
    BY <1>2, <1>6
  <2>2. PM!Exit(p)
    BY <2>1, Zenon DEF PM!Exit, PM!NoPages, Mem, Cell
  <2>. QED
    BY <1>1, <2>2 DEF PM!Next
<1>. QED
  BY <1>4, <1>5, <1>6

\* A live process reads something, and a mapped page always holds a value.
LEMMA CellFacts ==
  ASSUME Usual, BuffersUnshared, MemoryInv, LiveHasStack
  PROVE  /\ \A p \in Procs : live[p] => \E u \in Pages \ Regions : Cell(p, u) # NONE
         /\ \A p \in Procs, u \in Pages : pt[p][u] # NONE => pt[p][u].frame \in Frames
         /\ \A p \in Procs, u \in Pages \ Regions : ~live[p] => Cell(p, u) = NONE
<1>1. \A p \in Procs, u \in Pages : pt[p][u] # NONE => pt[p][u].frame \in Frames
  BY DEF MemoryInv, TypeOK, Entries
<1>2. ASSUME NEW p \in Procs, live[p]
      PROVE  \E u \in Pages \ Regions : Cell(p, u) # NONE
  <2>1. PICK v \in StackPages : TRUE
    BY DEF BuffersUnshared
  <2>2. v \in Pages \ Regions /\ pt[p][v] # NONE
    BY <1>2, <2>1, PageFacts DEF LiveHasStack
  <2>3. content[pt[p][v].frame] \in Values
    BY <1>1, <2>2 DEF MemoryInv, TypeOK
  <2>4. Cell(p, v) # NONE
    BY <2>2, <2>3, MemoryAssumption DEF Cell, MemoryAssumption
  <2>. QED
    BY <2>2, <2>4
<1>3. \A p \in Procs, u \in Pages \ Regions : ~live[p] => Cell(p, u) = NONE
  BY DEF MemoryInv, DeadMapNothing, NoPages, Cell
<1>. QED
  BY <1>1, <1>2, <1>3

\* A write to a page that is p's alone is a Change; to a region, a stutter.
LEMMA DirectWriteRefines ==
  ASSUME Usual, BuffersUnshared, MemoryInv, LiveHasStack,
         NEW p \in Procs, NEW v \in Pages, NEW x \in Values,
         live[p], pt[p][v] # NONE, pt[p][v].w,
         content' = [content EXCEPT ![pt[p][v].frame] = x], pt' = pt
  PROVE  PM!Next \/ Mem' = Mem
<1>t. content \in [Frames -> Values] /\ pt[p][v].frame \in Frames
  BY CellFacts DEF MemoryInv, TypeOK
<1>c. content'[pt[p][v].frame] = x
      /\ \A f \in Frames : f # pt[p][v].frame => content'[f] = content[f]
  BY <1>t, Zenon
<1>1. CASE v \in Regions
  <2>1. ASSUME NEW q \in Procs, NEW u \in Pages \ Regions
        PROVE  Cell(q, u)' = Cell(q, u)
    <3>1. pt[q][u] # NONE => pt[q][u].frame \in Frames /\ pt[q][u].frame # pt[p][v].frame
      <4>1. pt[p][v].frame = shm[v] /\ shm[v] # NONE
        BY <1>1, <1>t, Zenon DEF MemoryInv, RegionEntries, Usual
      <4>2. pt[p][v].frame \in ShmFrames
        BY <4>1, <1>1 DEF ShmFrames
      <4>. QED
        BY <4>2, CellFacts, Zenon DEF MemoryInv, PrivateEntries
    <3>. QED
      BY <3>1, <1>c DEF Cell
  <2>. QED
    BY <2>1, MemSame, Zenon
<1>2. CASE v \in Pages \ Regions
  <2>1. Cell(p, v)' \in Values
    BY <1>c DEF Cell
  <2>2. ASSUME NEW q \in Procs, NEW u \in Pages \ Regions, ~(q = p /\ u = v)
        PROVE  Cell(q, u)' = Cell(q, u)
    <3>1. pt[q][u] # NONE => pt[q][u].frame \in Frames /\ pt[q][u].frame # pt[p][v].frame
      <4>1. pt[q][u] # NONE => pt[q][u].frame \in Frames
        BY CellFacts
      <4>2. Alone /\ pt[p][v] # NONE /\ pt[p][v].w
        BY DEF MemoryInv
      <4>3. pt[q][u] # NONE => pt[q][u].frame # pt[p][v].frame
        BY ONLY <4>2, <1>2, <2>2, q \in Procs, p \in Procs, u \in Pages \ Regions DEF Alone
      <4>. QED
        BY ONLY <4>1, <4>3
    <3>. QED
      BY <3>1, <1>c DEF Cell
  <2>3. \E u \in Pages \ Regions : Cell(p, u) # NONE
    BY CellFacts, Zenon
  <2>. QED
    BY <1>2, <2>1, <2>2, <2>3, MemChange
<1>. QED
  BY <1>1, <1>2

\* The repair of a copy-on-write page is a Change of the writer's memory only.
LEMMA RepairRefines ==
  ASSUME Usual, BuffersUnshared, MemoryInv, LiveHasStack,
         NEW p \in Procs, NEW v \in Pages, NEW x \in Values, NEW new \in free,
         live[p], pt[p][v] # NONE, ~pt[p][v].w,
         content' = [content EXCEPT ![new] = x],
         pt' = [pt EXCEPT ![p][v] = [frame |-> new, w |-> TRUE, nx |-> FALSE]]
  PROVE  PM!Next
<1>t. content \in [Frames -> Values] /\ new \in Frames
      /\ pt \in [Procs -> [Pages -> Entries \cup {NONE}]]
  BY DEF MemoryInv, TypeOK
<1>v. v \in Pages \ Regions
  BY DEF MemoryInv, RegionEntries
<1>1. content'[new] = x /\ \A f \in Frames : f # new => content'[f] = content[f]
  BY <1>t
<1>2. pt'[p][v] = [frame |-> new, w |-> TRUE, nx |-> FALSE]
      /\ \A q \in Procs, u \in Pages : ~(q = p /\ u = v) => pt'[q][u] = pt[q][u]
  BY <1>t
<1>3. Cell(p, v)' \in Values
  <2>1. pt'[p][v] \in Entries
    BY <1>2, <1>t DEF Entries
  <2>2. pt'[p][v] # NONE /\ pt'[p][v].frame = new
    <3>1. pt'[p][v] # NONE
      BY <2>1, Zenon DEF Usual
    <3>2. pt'[p][v].frame = new
      BY ONLY <1>2
    <3>. QED
      BY <3>1, <3>2
  <2>. QED
    BY <2>2, <1>1 DEF Cell
<1>4. ASSUME NEW q \in Procs, NEW u \in Pages \ Regions, ~(q = p /\ u = v)
      PROVE  Cell(q, u)' = Cell(q, u)
  <2>1. pt'[q][u] = pt[q][u]
    BY <1>2, <1>4
  <2>2. pt[q][u] # NONE => pt[q][u].frame \in Frames /\ pt[q][u].frame # new
    BY CellFacts DEF MemoryInv, FreeUnused
  <2>. QED
    BY <2>1, <2>2, <1>1 DEF Cell
<1>5. \E u \in Pages \ Regions : Cell(p, u) # NONE
  BY CellFacts
<1>. QED
  BY <1>v, <1>3, <1>4, <1>5, MemChange

\* Every step is one of ProcessMemory or a stutter.
LEMMA StepRefines ==
  ASSUME Usual, BuffersUnshared, MemoryInv, LiveHasStack, RoomToTrack, [Next]_vars
  PROVE  PM!Next \/ Mem' = Mem
<1>t. TypeOK /\ free \in SUBSET Frames /\ content \in [Frames -> Values]
      /\ pt \in [Procs -> [Pages -> Entries \cup {NONE}]]
  BY DEF MemoryInv, TypeOK
<1>q. ASSUME pt' = pt, content' = content PROVE Mem' = Mem
  BY <1>q, Zenon DEF Mem, Cell
<1>1. ASSUME NEW p \in Procs, Spawn(p) PROVE PM!Next \/ Mem' = Mem
  <2> DEFINE pages == ImagePages \cup StackPages
             FrameOf(v) == NthFree(Below(pages, v))
  <2>1. CASE Cardinality(free) >= Cardinality(pages)
    <3>1. \A v \in pages : FrameOf(v) \in free
      <4>1. pages \subseteq Nat /\ IsFiniteSet(pages)
        BY PageFacts
      <4>. QED
        BY <4>1, <2>1, <1>t, SpawnFrames
    <3>2. /\ pt' = [pt EXCEPT ![p] = [v \in Pages |->
                      IF v \in pages
                      THEN [frame |-> FrameOf(v), w |-> TRUE, nx |-> v \in StackPages]
                      ELSE NONE]]
          /\ content' = [f \in Frames |->
                           IF \E v \in pages : f = FrameOf(v) THEN Zero ELSE content[f]]
          /\ ~live[p]
      BY <1>1, <2>1, Zenon DEF Spawn
    <3> HIDE DEF FrameOf, pages
    <3>3. ASSUME NEW q \in Procs \ {p}, NEW u \in Pages \ Regions
          PROVE  Cell(q, u)' = Cell(q, u)
      <4>1. pt'[q][u] = pt[q][u]
        BY <3>2, <1>t
      <4>2. pt[q][u] # NONE => pt[q][u].frame \in Frames /\ pt[q][u].frame \notin free
        BY CellFacts DEF MemoryInv, FreeUnused
      <4>3. pt[q][u] # NONE => content'[pt[q][u].frame] = content[pt[q][u].frame]
        BY <4>2, <3>1, <3>2, Zenon
      <4>. QED
        BY <4>1, <4>3, Zenon DEF Cell
    <3>4. \A u \in Pages \ Regions : Cell(p, u) = NONE
      BY <3>2, CellFacts
    <3>5. ASSUME NEW u \in Pages \ Regions PROVE Cell(p, u)' \in {Zero, NONE}
      <4>1. CASE u \in pages
        <5>1. pt'[p][u] = [frame |-> FrameOf(u), w |-> TRUE, nx |-> u \in StackPages]
          BY <4>1, <3>2, <1>t
        <5>2. pt'[p][u].frame = FrameOf(u) /\ FrameOf(u) \in Frames
          BY <5>1, <4>1, <3>1, <1>t
        <5>3. content'[FrameOf(u)] = Zero
          BY <5>2, <4>1, <3>2, Zenon
        <5>. QED
          BY ONLY <5>2, <5>3 DEF Cell
      <4>2. CASE u \notin pages
        <5>1. pt'[p][u] = NONE
          BY <4>2, <3>2, <1>t
        <5>. QED
          BY <5>1 DEF Cell
      <4>. QED
        BY <4>1, <4>2
    <3>. QED
      BY <3>3, <3>4, <3>5, MemOfOne
  <2>2. CASE ~(Cardinality(free) >= Cardinality(pages))
    BY <1>1, <2>2, <1>q DEF Spawn
  <2>. QED
    BY <2>1, <2>2
<1>2. ASSUME NEW p \in Procs, NEW v \in ThreadPages, ThreadCreate(p, v)
      PROVE  PM!Next \/ Mem' = Mem
  <2> DEFINE new == NthFree(0)
  <2>1. new \in free /\ new \in Frames /\ live[p] /\ content' = content /\ v \in Pages \ Regions
    BY <1>2, <1>t, FirstFree, PageFacts, Zenon DEF ThreadCreate
  <2>2. pt' = [pt EXCEPT ![p][v] = [frame |-> new, w |-> TRUE, nx |-> TRUE]]
    BY <1>2 DEF ThreadCreate
  <2> HIDE DEF new
  <2>3. pt'[p][v] = [frame |-> new, w |-> TRUE, nx |-> TRUE]
        /\ \A q \in Procs, u \in Pages : ~(q = p /\ u = v) => pt'[q][u] = pt[q][u]
    BY <2>1, <2>2, <1>t
  <2>4. Cell(p, v)' \in Values
    <3>1. pt'[p][v] \in Entries
      BY <2>1, <2>3 DEF Entries
    <3>2. pt'[p][v] # NONE /\ pt'[p][v].frame = new
      <4>1. pt'[p][v] # NONE
        BY <3>1 DEF Usual
      <4>2. pt'[p][v].frame = new
        BY ONLY <2>3
      <4>. QED
        BY <4>1, <4>2
    <3>. QED
      BY <3>2, <2>1, <1>t DEF Cell
  <2>5. \A q \in Procs, u \in Pages \ Regions :
          ~(q = p /\ u = v) => Cell(q, u)' = Cell(q, u)
    BY <2>1, <2>3 DEF Cell
  <2>6. \E u \in Pages \ Regions : Cell(p, u) # NONE
    BY <2>1, CellFacts
  <2>. QED
    BY <2>1, <2>4, <2>5, <2>6, MemChange
<1>3. ASSUME NEW r \in Regions, AllocSharedMemory(r) PROVE PM!Next \/ Mem' = Mem
  BY <1>3, <1>q DEF AllocSharedMemory
<1>4. ASSUME NEW p \in Procs, NEW r \in Regions, SharedMemoryMap(p, r)
      PROVE  PM!Next \/ Mem' = Mem
  <2>1. content' = content /\ \A q \in Procs, u \in Pages \ Regions : pt'[q][u] = pt[q][u]
    BY <1>4, <1>t DEF SharedMemoryMap
  <2>2. \A q \in Procs, u \in Pages \ Regions : Cell(q, u)' = Cell(q, u)
    BY <2>1 DEF Cell
  <2>. QED
    BY <2>2, MemSame
<1>5. ASSUME NEW p \in Procs, NEW c \in Procs, NEW full \in TaskTableFull, Fork(p, c, full)
      PROVE  PM!Next \/ Mem' = Mem
  <2> DEFINE child == [v \in Pages |-> IF v \in Mapped(p) THEN ReadOnly(pt[p][v]) ELSE NONE]
  <2>1. p # c /\ ~live[c] /\ content' = content
        /\ pt' = [pt EXCEPT ![p] = child, ![c] = child]
    BY <1>5, ForkEffect
  <2>2. ASSUME NEW u \in Pages, pt[p][u] # NONE
        PROVE  child[u] # NONE /\ child[u].frame = pt[p][u].frame
    <3>1. u \in Mapped(p) /\ pt[p][u] \in Entries
      BY <2>2, <1>t DEF Mapped
    <3>2. child[u] = [pt[p][u] EXCEPT !.w = FALSE]
      BY <3>1 DEF ReadOnly
    <3> HIDE DEF child
    <3>3. child[u] \in Entries /\ child[u].frame = pt[p][u].frame
      BY <3>1, <3>2, Zenon DEF Entries
    <3>. QED
      BY <3>3 DEF Usual
  <2>3. ASSUME NEW u \in Pages, pt[p][u] = NONE PROVE child[u] = NONE
    BY <2>3 DEF Mapped
  <2> HIDE DEF child
  <2>4. pt'[p] = child /\ pt'[c] = child /\ \A q \in Procs : q # p /\ q # c => pt'[q] = pt[q]
    BY <2>1, <1>t
  <2>5. ASSUME NEW q \in Procs \ {c}, NEW u \in Pages \ Regions
        PROVE  Cell(q, u)' = Cell(q, u)
    <3>1. CASE q = p
      BY <3>1, <2>1, <2>2, <2>3, <2>4 DEF Cell
    <3>2. CASE q # p
      <4>1. pt'[q] = pt[q] /\ content' = content
        BY <3>2, <2>1, <2>4, Zenon
      <4>. QED
        BY <4>1 DEF Cell
    <3>. QED
      BY <3>1, <3>2
  <2>6. ASSUME NEW u \in Pages \ Regions PROVE Cell(c, u)' = Cell(p, u)
    BY <2>1, <2>2, <2>3, <2>4 DEF Cell
  <2>7. \A u \in Pages \ Regions : Cell(c, u) = NONE
    BY <2>1, CellFacts
  <2>. QED
    BY <2>5, <2>6, <2>7, MemOfOne
<1>6. ASSUME NEW p \in Procs, Exit(p) PROVE PM!Next \/ Mem' = Mem
  <2>1. pt' = [pt EXCEPT ![p] = NoPages] /\ content' = content
    BY <1>6 DEF Exit
  <2>2. \A q \in Procs \ {p}, u \in Pages \ Regions : Cell(q, u)' = Cell(q, u)
    BY <2>1, <1>t DEF Cell
  <2>3. \A u \in Pages \ Regions : Cell(p, u)' = NONE
    BY <2>1, <1>t DEF Cell, NoPages
  <2>. QED
    BY <2>2, <2>3, MemOfOne
<1>7. ASSUME NEW p \in Procs, NEW v \in Pages, NEW x \in Values, UserWrite(p, v, x)
      PROVE  PM!Next \/ Mem' = Mem
  <2>0. live[p] /\ pt[p][v] # NONE
    BY <1>7 DEF UserWrite
  <2>1. CASE /\ pt[p][v].w
             /\ content' = [content EXCEPT ![pt[p][v].frame] = x]
             /\ pt' = pt
    BY <2>0, <2>1, DirectWriteRefines, Zenon
  <2>2. CASE /\ ~pt[p][v].w
             /\ free # {}
             /\ content' = [content EXCEPT ![NthFree(0)] = x]
             /\ pt' = [pt EXCEPT ![p][v] = [frame |-> NthFree(0), w |-> TRUE, nx |-> FALSE]]
    <3>1. NthFree(0) \in free
      BY <2>2, <1>t, FirstFree
    <3>. QED
      BY <2>0, <2>2, <3>1, RepairRefines, Zenon
  <2>3. CASE content' = content /\ pt' = pt
    BY <2>3, <1>q
  <2>. QED
    BY <1>7, <2>1, <2>2, <2>3, Zenon DEF UserWrite
<1>8. ASSUME NEW p \in Procs, NEW v \in CopyOutPages, NEW x \in Values, KernelWrite(p, v, x)
      PROVE  PM!Next \/ Mem' = Mem
  <2>1. /\ live[p] /\ pt[p][v] # NONE /\ pt' = pt /\ v \in Pages
        /\ content' = [content EXCEPT ![pt[p][v].frame] = x]
    BY <1>8, MemoryAssumption DEF KernelWrite, MemoryAssumption
  <2>2. pt[p][v].w
    <3>1. SUFFICES ASSUME ~pt[p][v].w PROVE FALSE
      OBVIOUS
    <3>2. v \notin Regions
      BY <2>1, <3>1 DEF MemoryInv, RegionEntries
    <3>3. v \in ForkPages
      BY <2>1, <3>1, <3>2 DEF MemoryInv, PrivateEntries
    <3>. QED
      BY <3>3 DEF BuffersUnshared
  <2>. QED
    BY <2>1, <2>2, DirectWriteRefines, Zenon
<1>9. CASE UNCHANGED vars
  BY <1>9, <1>q DEF vars
<1>. QED
  BY <1>1, <1>2, <1>3, <1>4, <1>5, <1>6, <1>7, <1>8, <1>9 DEF Next

\* A live process keeps its stack.
LEMMA LiveHasStackStep ==
  ASSUME Usual, MemoryInv, LiveHasStack, RoomToTrack, [Next]_vars
  PROVE  LiveHasStack'
<1>t. TypeOK /\ free \in SUBSET Frames /\ live \in [Procs -> BOOLEAN]
      /\ pt \in [Procs -> [Pages -> Entries \cup {NONE}]]
  BY DEF MemoryInv, TypeOK
<1>s. \A v \in StackPages : v \in Pages
  BY DEF Pages
<1>m. MemoryInv'
  BY MemoryStep
<1>q. ASSUME \A q \in Procs : live'[q] => live[q],
             \A q \in Procs, v \in Pages :
               live'[q] /\ pt[q][v] # NONE => pt'[q][v] # NONE
      PROVE  LiveHasStack'
  BY <1>q, <1>s, Zenon DEF LiveHasStack
<1>1. ASSUME NEW p \in Procs, Spawn(p) PROVE LiveHasStack'
  <2> DEFINE pages == ImagePages \cup StackPages
             FrameOf(v) == NthFree(Below(pages, v))
  <2>1. CASE Cardinality(free) >= Cardinality(pages)
    <3>1. \A v \in pages : FrameOf(v) \in free
      <4>1. pages \subseteq Nat /\ IsFiniteSet(pages)
        BY PageFacts
      <4>. QED
        BY <4>1, <2>1, <1>t, SpawnFrames
    <3>2. /\ pt' = [pt EXCEPT ![p] = [v \in Pages |->
                      IF v \in pages
                      THEN [frame |-> FrameOf(v), w |-> TRUE, nx |-> v \in StackPages]
                      ELSE NONE]]
          /\ live' = [live EXCEPT ![p] = TRUE]
      BY <1>1, <2>1 DEF Spawn
    <3>3. StackPages \subseteq pages
      OBVIOUS
    <3> HIDE DEF FrameOf, pages
    <3> SUFFICES ASSUME NEW q \in Procs, NEW v \in StackPages, live'[q]
                 PROVE  pt'[q][v] # NONE
      BY DEF LiveHasStack
    <3>4. CASE q = p
      <4>1. pt'[q][v] = [frame |-> FrameOf(v), w |-> TRUE, nx |-> v \in StackPages]
        BY <3>2, <3>3, <3>4, <1>s, <1>t
      <4>2. FrameOf(v) \in Frames
        BY <3>1, <3>3, <1>t
      <4>3. pt'[q][v] \in Entries
        BY ONLY <4>1, <4>2 DEF Entries
      <4>. QED
        BY <4>3 DEF Usual
    <3>5. CASE q # p
      BY <3>2, <3>5, <1>t DEF LiveHasStack
    <3>. QED
      BY <3>4, <3>5
  <2>2. CASE ~(Cardinality(free) >= Cardinality(pages))
    <3>1. live' = live /\ pt' = pt
      BY <1>1, <2>2 DEF Spawn
    <3>. QED
      BY <3>1, <1>q
  <2>. QED
    BY <2>1, <2>2
<1>2. ASSUME NEW p \in Procs, NEW v \in ThreadPages, ThreadCreate(p, v) PROVE LiveHasStack'
  <2>1. live' = live /\ pt[p][v] = NONE
        /\ pt' = [pt EXCEPT ![p][v] = [frame |-> NthFree(0), w |-> TRUE, nx |-> TRUE]]
    BY <1>2 DEF ThreadCreate
  <2>2. \A q \in Procs, u \in Pages : pt[q][u] # NONE => pt'[q][u] = pt[q][u]
    BY <2>1, <1>t
  <2>. QED
    BY <2>1, <2>2, <1>q
<1>3. ASSUME NEW r \in Regions, AllocSharedMemory(r) PROVE LiveHasStack'
  BY <1>3, <1>q DEF AllocSharedMemory
<1>4. ASSUME NEW p \in Procs, NEW r \in Regions, SharedMemoryMap(p, r) PROVE LiveHasStack'
  <2>1. live' = live
        /\ pt' = [pt EXCEPT ![p][r] = [frame |-> shm[r], w |-> TRUE, nx |-> FALSE]]
    BY <1>4 DEF SharedMemoryMap
  <2>2. ASSUME NEW q \in Procs, NEW v \in StackPages PROVE pt'[q][v] = pt[q][v]
    <3>1. v # r /\ v \in Pages
      BY <1>s DEF Usual
    <3>. QED
      BY <2>1, <3>1, <1>t
  <2> SUFFICES ASSUME NEW q \in Procs, NEW v \in StackPages, live'[q]
               PROVE  pt'[q][v] # NONE
    BY DEF LiveHasStack
  <2>3. live[q] /\ pt'[q][v] = pt[q][v]
    BY <2>1, <2>2
  <2>. QED
    BY ONLY <2>3, LiveHasStack DEF LiveHasStack
<1>5. ASSUME NEW p \in Procs, NEW c \in Procs, NEW full \in TaskTableFull, Fork(p, c, full)
      PROVE  LiveHasStack'
  <2> DEFINE child == [v \in Pages |-> IF v \in Mapped(p) THEN ReadOnly(pt[p][v]) ELSE NONE]
  <2>1. p # c /\ live[p] /\ live' = [live EXCEPT ![c] = TRUE]
        /\ pt' = [pt EXCEPT ![p] = child, ![c] = child]
    BY <1>5, ForkEffect
  <2>2. ASSUME NEW u \in StackPages PROVE child[u] # NONE
    <3>1. u \in Mapped(p) /\ pt[p][u] \in Entries
      BY <2>1, <1>s, <1>t DEF Mapped, LiveHasStack
    <3>2. child[u] = [pt[p][u] EXCEPT !.w = FALSE]
      BY <3>1, <1>s DEF ReadOnly
    <3>3. child[u] \in Entries
      <4> HIDE DEF child
      <4>. QED
        BY <3>1, <3>2, Zenon DEF Entries
    <3>. QED
      BY <3>3 DEF Usual
  <2> HIDE DEF child
  <2>3. pt'[p] = child /\ pt'[c] = child /\ \A q \in Procs : q # p /\ q # c => pt'[q] = pt[q]
    BY <2>1, <1>t
  <2>4. \A q \in Procs : q # c => live'[q] = live[q]
    BY <2>1, <1>t
  <2>. QED
    BY <2>2, <2>3, <2>4 DEF LiveHasStack
<1>6. ASSUME NEW p \in Procs, Exit(p) PROVE LiveHasStack'
  <2>1. live' = [live EXCEPT ![p] = FALSE] /\ pt' = [pt EXCEPT ![p] = NoPages]
    BY <1>6 DEF Exit
  <2>2. \A q \in Procs : live'[q] => q # p /\ live[q] /\ pt'[q] = pt[q]
    BY <2>1, <1>t, SMTT(30)
  <2>. QED
    BY <2>2, <1>q
<1>7. ASSUME NEW p \in Procs, NEW v \in Pages, NEW x \in Values, UserWrite(p, v, x)
      PROVE  LiveHasStack'
  <2>1. live' = live
    BY <1>7 DEF UserWrite
  <2>2. CASE pt' = pt
    BY <2>1, <2>2, <1>q
  <2>3. CASE /\ free # {}
             /\ pt' = [pt EXCEPT ![p][v] = [frame |-> NthFree(0), w |-> TRUE, nx |-> FALSE]]
    <3>1. NthFree(0) \in Frames
      BY <2>3, <1>t, FirstFree
    <3>2. pt'[p][v] = [frame |-> NthFree(0), w |-> TRUE, nx |-> FALSE]
          /\ \A q \in Procs, u \in Pages : ~(q = p /\ u = v) => pt'[q][u] = pt[q][u]
      BY <2>3, <1>t
    <3>3. pt'[p][v] \in Entries
      BY ONLY <3>1, <3>2 DEF Entries
    <3>4. pt'[p][v] # NONE
      BY <3>3 DEF Usual
    <3>. QED
      BY <2>1, <3>2, <3>4, <1>q
  <2>. QED
    BY <1>7, <2>2, <2>3, SMTT(30) DEF UserWrite
<1>8. ASSUME NEW p \in Procs, NEW v \in CopyOutPages, NEW x \in Values, KernelWrite(p, v, x)
      PROVE  LiveHasStack'
  BY <1>8, <1>q DEF KernelWrite
<1>9. CASE UNCHANGED vars
  BY <1>9, <1>q DEF vars
<1>. QED
  BY <1>1, <1>2, <1>3, <1>4, <1>5, <1>6, <1>7, <1>8, <1>9 DEF Next

\* Copy-on-write is invisible (cow.c, isr.c): for any number of processes, pages
\* and frames, what a process reads outside shared regions changes only by its
\* own writes, and a fork hands the child the parent's memory as it is at that
\* moment.  For programs that fork with nothing but image and stack mapped,
\* while g_cow_frames has room, and with system call buffers off the pages a
\* fork shares.
THEOREM CowIsInvisible ==
  ASSUME Usual, BuffersUnshared
  PROVE  Spec /\ []RoomToTrack => ImplementsProcessMemory
<1>1. Init => MemoryInv /\ LiveHasStack
  BY MemoryStart, ZenonT(30) DEF Init, LiveHasStack
<1>2. MemoryInv /\ LiveHasStack /\ RoomToTrack /\ [Next]_vars
        => MemoryInv' /\ LiveHasStack'
  BY MemoryStep, LiveHasStackStep
<1>3. Init => PM!Init
  <2> SUFFICES ASSUME Init
               PROVE  Mem = [p \in Procs |-> [v \in Pages \ Regions |-> NONE]]
    BY DEF PM!Init, PM!NoPages, Mem, Cell
  <2>1. \A p \in Procs, v \in Pages \ Regions : Cell(p, v) = NONE
    BY DEF Init, NoPages, Cell
  <2>. QED
    BY <2>1 DEF Mem
<1>4. MemoryInv /\ LiveHasStack /\ RoomToTrack /\ [Next]_vars => [PM!Next]_Mem
  BY StepRefines
<1>. QED
  BY <1>1, <1>2, <1>3, <1>4, PTL
     DEF Spec, ImplementsProcessMemory, PM!Spec, Mem, Cell
=============================================================================
