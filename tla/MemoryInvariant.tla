-------------------------- MODULE MemoryInvariant ---------------------------
(***************************************************************************)
(* The inductive invariant behind the frames and the copy-on-write counts  *)
(* of Memory, and the proofs that programs starting, the fault handler's   *)
(* repair and shared memory keep it.  MemoryProofs does process_exit() and *)
(* fork, and draws the conclusions.                                        *)
(***************************************************************************)
EXTENDS Memory, FiniteSetTheorems, TLAPS

-----------------------------------------------------------------------------
(***************************************************************************)
(* Finite sets of naturals, for the order in which alloc_frame() hands out *)
(* frames and clone_address_space_cow() meets pages.                       *)
(***************************************************************************)

\* A non-empty set of naturals has a least element.
LEMMA LeastElement ==
  ASSUME NEW S, S \subseteq Nat, S # {}
  PROVE  \E m \in S : \A x \in S : m <= x
<1>1. PICK m \in S : \A x \in S : ~(<<x, m>> \in OpToRel(<, Nat))
  BY WFMin, NatLessThanWellFounded, Zenon
<1>2. \A x \in S : ~(x < m)
  BY <1>1, Zenon DEF OpToRel
<1>. QED
  BY <1>2

\* A finite non-empty set of naturals has a greatest element.
LEMMA GreatestElement ==
  ASSUME NEW S, S \subseteq Nat, IsFiniteSet(S), S # {}
  PROVE  \E m \in S : \A x \in S : x <= m
<1> DEFINE Tops(T) == {m \in T : \A x \in T : x <= m}
           Bad == {T \in SUBSET S : T # {} /\ Tops(T) = {}}
           Sizes == {Cardinality(T) : T \in Bad}
<1>1. SUFFICES ASSUME Bad # {} PROVE FALSE
  <2>1. Bad = {}
    BY <1>1
  <2>. QED
    BY <2>1, Zenon
<1>2. \A T \in SUBSET S : IsFiniteSet(T) /\ Cardinality(T) \in Nat
  BY FS_Subset, FS_CardinalityType, Zenon
<1>3. Sizes \subseteq Nat /\ Sizes # {}
  BY <1>1, <1>2
<1>4. PICK n \in Sizes : \A k \in Sizes : n <= k
  BY <1>3, LeastElement, Zenon
<1>5. PICK T \in Bad : Cardinality(T) = n
  BY <1>4
<1>6. PICK x \in T : TRUE
  BY <1>5
<1>7. Cardinality(T \ {x}) = n - 1 /\ T \ {x} \in SUBSET S
  BY <1>5, <1>6, <1>2, FS_RemoveElement, Zenon
<1>8. T \ {x} \notin Bad
  <2>1. SUFFICES ASSUME T \ {x} \in Bad PROVE FALSE
    OBVIOUS
  <2>2. n - 1 \in Sizes
    BY <2>1, <1>7, Zenon
  <2>3. n <= n - 1 /\ n \in Nat
    BY <2>2, <1>3, <1>4
  <2>. QED
    BY <2>3
<1>9. CASE T \ {x} = {}
  <2>1. x \in Tops(T)
    BY <1>5, <1>6, <1>9
  <2>. QED
    BY <2>1, <1>5
<1>10. CASE T \ {x} # {}
  <2>1. PICK m \in T \ {x} : \A y \in T \ {x} : y <= m
    BY <1>7, <1>8, <1>10, Zenon
  <2>2. x \in Nat /\ m \in Nat /\ T \subseteq Nat
    BY <2>1, <1>5, <1>6
  <2>3. CASE x <= m
    <3>1. m \in Tops(T)
      BY <2>1, <2>2, <2>3
    <3>. QED
      BY <3>1, <1>5
  <2>4. CASE m <= x
    <3>1. x \in Tops(T)
      BY <2>1, <2>2, <2>4, <1>6
    <3>. QED
      BY <3>1, <1>5
  <2>. QED
    BY <2>2, <2>3, <2>4
<1>. QED
  BY <1>9, <1>10

\* How many elements of a finite set lie below a point: counted, and fewer
\* than all of them when the point is itself in the set.
LEMMA BelowType ==
  ASSUME NEW S, S \subseteq Nat, IsFiniteSet(S), NEW v \in Nat
  PROVE  /\ Below(S, v) \in Nat
         /\ v \in S => Below(S, v) < Cardinality(S)
<1> DEFINE B == {w \in S : w < v}
<1>1. B \in SUBSET S
  OBVIOUS
<1>2. IsFiniteSet(B) /\ Cardinality(B) <= Cardinality(S)
      /\ (Cardinality(S) = Cardinality(B) => S = B)
  BY <1>1, FS_Subset
<1>3. Cardinality(B) \in Nat /\ Cardinality(S) \in Nat
  BY <1>2, FS_CardinalityType
<1>4. v \in S => S # B
  OBVIOUS
<1>. QED
  BY <1>2, <1>3, <1>4 DEF Below

\* Two elements of the set have different numbers of elements below them.
LEMMA BelowInjective ==
  ASSUME NEW S, S \subseteq Nat, IsFiniteSet(S), NEW u \in S, NEW v \in S,
         u < v
  PROVE  Below(S, u) < Below(S, v)
<1> DEFINE A == {w \in S : w < u}
           B == {w \in S : w < v}
<1>1. A \in SUBSET B /\ B \in SUBSET S
  <2>1. ASSUME NEW w \in S, w < u PROVE w < v
    <3>1. w \in Nat /\ u \in Nat /\ v \in Nat
      OBVIOUS
    <3>. QED
      BY <3>1, <2>1
  <2>. QED
    BY <2>1, Zenon
<1>2. IsFiniteSet(B)
  BY <1>1, FS_Subset
<1>3. IsFiniteSet(A) /\ Cardinality(A) <= Cardinality(B)
      /\ (Cardinality(B) = Cardinality(A) => B = A)
  BY <1>1, <1>2, FS_Subset
<1>4. Cardinality(A) \in Nat /\ Cardinality(B) \in Nat
  BY <1>2, <1>3, FS_CardinalityType
<1>5. u \in B /\ u \notin A
  OBVIOUS
<1>. QED
  BY <1>3, <1>4, <1>5 DEF Below

\* Every count below the size of the set is the one of some element.
LEMMA BelowSurjective ==
  ASSUME NEW S, S \subseteq Nat, IsFiniteSet(S),
         NEW k \in Nat, k < Cardinality(S)
  PROVE  \E v \in S : Below(S, v) = k
<1> DEFINE Bad == {n \in Nat : n < Cardinality(S) /\ \A v \in S : Below(S, v) # n}
<1>1. SUFFICES ASSUME Bad # {} PROVE FALSE
  OBVIOUS
<1>2. PICK n \in Bad : \A j \in Bad : n <= j
  BY <1>1, LeastElement, Zenon
<1>3. Cardinality(S) \in Nat
  BY FS_CardinalityType
<1>4. S # {}
  BY <1>2, <1>3, FS_EmptySet
<1>5. CASE n = 0
  <2>1. PICK m \in S : \A x \in S : m <= x
    BY <1>4, LeastElement, Zenon
  <2>2. {w \in S : w < m} = {}
    <3>1. ASSUME NEW w \in S, w < m PROVE FALSE
      <4>1. w \in Nat /\ m \in Nat /\ m <= w
        BY <2>1
      <4>. QED
        BY <4>1, <3>1
    <3>. QED
      BY <3>1, Zenon
  <2>3. Below(S, m) = 0
    BY <2>2, FS_EmptySet DEF Below
  <2>. QED
    BY <2>3, <1>2, <1>5
<1>6. CASE n # 0
  <2>1. n - 1 \in Nat /\ n - 1 < Cardinality(S) /\ n - 1 \notin Bad
    BY <1>2, <1>3, <1>6
  <2>2. PICK f \in S : Below(S, f) = n - 1
    BY <2>1
  <2> DEFINE B == {w \in S : w < f}
             C == B \cup {f}
             D == {w \in S : f < w}
  <2>3. IsFiniteSet(B)
    <3>1. B \in SUBSET S
      OBVIOUS
    <3>. QED
      BY <3>1, FS_Subset
  <2>4. Cardinality(C) = n
    <3>1. f \notin B
      OBVIOUS
    <3>2. Cardinality(C) = Cardinality(B) + 1
      BY <3>1, <2>3, FS_AddElement
    <3>. QED
      BY <3>2, <2>2, <1>2 DEF Below
  <2>5. D # {}
    <3>1. SUFFICES ASSUME D = {} PROVE FALSE
      OBVIOUS
    <3>2. \A w \in S : w \in C
      <4> TAKE w \in S
      <4>1. w \in Nat /\ f \in Nat /\ ~(f < w)
        BY <3>1
      <4>. QED
        BY <4>1
    <3>3. C = S
      BY <3>2, Zenon
    <3>. QED
      BY <3>3, <2>4, <1>2, <1>3
  <2>6. PICK g \in D : \A x \in D : g <= x
    <3>1. D \subseteq Nat
      BY Zenon
    <3>. QED
      BY <3>1, <2>5, LeastElement, Zenon
  <2>7. {w \in S : w < g} = C
    <3>1. g \in Nat /\ f \in Nat /\ f < g
      BY <2>6
    <3>2. ASSUME NEW w \in S, w < g PROVE w \in C
      <4>1. w \notin D
        BY <3>1, <3>2, <2>6
      <4>2. w \in Nat /\ ~(f < w)
        BY <4>1
      <4>. QED
        BY <4>2, <3>1
    <3>3. ASSUME NEW w \in C PROVE w \in S /\ w < g
      BY <3>1, <3>3
    <3>. QED
      BY <3>2, <3>3, Zenon
  <2>8. g \in S /\ Below(S, g) = n
    BY <2>6, <2>7, <2>4 DEF Below
  <2>. QED
    BY <2>8, <1>2
<1>. QED
  BY <1>5, <1>6

-----------------------------------------------------------------------------
(***************************************************************************)
(* Where a process may be when it forks, and how the tables are laid out.  *)
(* A region has a page of its own; a process that forks has neither a      *)
(* region nor a thread's stack mapped; create_task_with_cr3() finds a      *)
(* slot; and a process writes its stack before it exits.  Without one of   *)
(* the last three, frames in use are freed (see the README).               *)
(***************************************************************************)
Usual ==
  /\ IsFiniteSet(Procs)
  /\ IsFiniteSet(Pages)
  /\ NONE \notin Frames \cup Entries
  /\ Regions \cap (ImagePages \cup StackPages \cup ThreadPages) = {}
  /\ ForkPages \cap (ThreadPages \cup Regions) = {}
  /\ TRUE \notin TaskTableFull
  /\ TouchesStack

\* g_cow_frames has a slot for every page a fork would share.
RoomToTrack ==
  \A p \in Procs, v \in Pages :
    live[p] /\ Mapped(p) \subseteq ForkPages => ~Overflows(p, v)

\* Nothing is mapped by a process slot not in use.
DeadMapNothing == \A p \in Procs : ~live[p] => pt[p] = NoPages

\* A free frame is in no table.
FreeUnused ==
  /\ \A f \in free : cow[f] = 0 /\ f \notin ShmFrames
  /\ \A p \in Procs, v \in Pages : pt[p][v] # NONE => pt[p][v].frame \notin free

\* A region's page shows the region's frame, writable and executable.
RegionEntries ==
  \A p \in Procs, r \in Regions :
    pt[p][r] # NONE => pt[p][r].frame = shm[r] /\ pt[p][r].w /\ ~pt[p][r].nx

\* Regions have a frame each, which is never tracked.
RegionsApart ==
  /\ \A r \in Regions : shm[r] # NONE => cow[shm[r]] = 0
  /\ \A r, s \in Regions : shm[r] # NONE /\ shm[r] = shm[s] => r = s

\* Outside regions a page is writable and untracked, or read-only because of
\* a fork and tracked; only stacks are NX.
PrivateEntries ==
  \A p \in Procs, v \in Pages \ Regions :
    pt[p][v] # NONE =>
      /\ pt[p][v].frame \notin ShmFrames
      /\ pt[p][v].w => cow[pt[p][v].frame] = 0
      /\ ~pt[p][v].w => cow[pt[p][v].frame] > 0 /\ v \in ForkPages
      /\ pt[p][v].nx => v \in StackPages \cup ThreadPages

\* Two mappings of one frame, outside regions, are read-only and in different
\* address spaces.
Alone ==
  \A p, q \in Procs, u, v \in Pages \ Regions :
    /\ pt[p][u] # NONE
    /\ pt[q][v] # NONE
    /\ pt[p][u].frame = pt[q][v].frame
    => \/ p = q /\ u = v
       \/ p # q /\ ~pt[p][u].w /\ ~pt[q][v].w

\* The inductive invariant behind FramesKept and CowExact.
MemoryInv ==
  /\ TypeOK
  /\ DeadMapNothing
  /\ FreeUnused
  /\ RegionEntries
  /\ RegionsApart
  /\ PrivateEntries
  /\ Alone
  /\ RefcountExact
  /\ NothingLeaks

-----------------------------------------------------------------------------
\* Frames are finitely many naturals, and an entry is never NONE.
LEMMA FrameFacts ==
  /\ Frames \subseteq Nat
  /\ IsFiniteSet(Frames)
  /\ \A S \in SUBSET Frames : S \subseteq Nat /\ IsFiniteSet(S) /\ Cardinality(S) \in Nat
<1>1. Frames \subseteq Nat /\ IsFiniteSet(Frames)
  BY MemoryAssumption, FS_Interval DEF Frames, MemoryAssumption
<1>2. \A S \in SUBSET Frames : IsFiniteSet(S) /\ Cardinality(S) \in Nat
  BY <1>1, FS_Subset, FS_CardinalityType, Zenon
<1>. QED
  BY <1>1, <1>2

\* alloc_frame() called for the k-th time in a row returns a free frame, the
\* one with k free frames below it.
LEMMA NthFreeIsFree ==
  ASSUME free \in SUBSET Frames, NEW k \in Nat, k < Cardinality(free)
  PROVE  NthFree(k) \in free /\ Below(free, NthFree(k)) = k
<1>1. free \subseteq Nat /\ IsFiniteSet(free)
  BY FrameFacts
<1>2. \E f \in free : Below(free, f) = k
  BY <1>1, BelowSurjective, Zenon
<1>. QED
  BY <1>2, Zenon DEF NthFree, Below

\* The single call finds a frame when there is one.
LEMMA FirstFree ==
  ASSUME free \in SUBSET Frames, free # {}
  PROVE  NthFree(0) \in free
<1>1. IsFiniteSet(free) /\ Cardinality(free) \in Nat
  BY FrameFacts
<1>2. Cardinality(free) # 0
  BY <1>1, FS_EmptySet
<1>. QED
  BY <1>1, <1>2, NthFreeIsFree

\* The frames spawn_process() hands out, one per page in page order, are free
\* and different.
LEMMA SpawnFrames ==
  ASSUME free \in SUBSET Frames,
         NEW pages, pages \subseteq Nat, IsFiniteSet(pages),
         Cardinality(free) >= Cardinality(pages)
  PROVE  /\ \A v \in pages : NthFree(Below(pages, v)) \in free
         /\ \A u, v \in pages :
              NthFree(Below(pages, u)) = NthFree(Below(pages, v)) => u = v
<1>1. Cardinality(pages) \in Nat /\ Cardinality(free) \in Nat
  BY FS_CardinalityType, FrameFacts
<1>2. \A v \in pages : Below(pages, v) \in Nat /\ Below(pages, v) < Cardinality(free)
  <2> TAKE v \in pages
  <2>1. v \in Nat
    OBVIOUS
  <2>2. Below(pages, v) \in Nat /\ Below(pages, v) < Cardinality(pages)
    BY <2>1, BelowType, Zenon
  <2>. QED
    BY <2>2, <1>1
<1>3. \A v \in pages : /\ NthFree(Below(pages, v)) \in free
                       /\ Below(free, NthFree(Below(pages, v))) = Below(pages, v)
  BY <1>2, NthFreeIsFree
<1>4. ASSUME NEW u \in pages, NEW v \in pages,
             NthFree(Below(pages, u)) = NthFree(Below(pages, v))
      PROVE  u = v
  <2>1. Below(pages, u) = Below(pages, v)
    BY <1>3, <1>4
  <2>2. u \in Nat /\ v \in Nat
    OBVIOUS
  <2>3. ASSUME u < v PROVE FALSE
    <3>1. Below(pages, u) < Below(pages, v)
      BY <2>3, BelowInjective, Zenon
    <3>. QED
      BY <3>1, <2>1, <1>2
  <2>4. ASSUME v < u PROVE FALSE
    <3>1. Below(pages, v) < Below(pages, u)
      BY <2>4, BelowInjective, Zenon
    <3>. QED
      BY <3>1, <2>1, <1>2
  <2>. QED
    BY <2>2, <2>3, <2>4
<1>. QED
  BY <1>3, <1>4

\* The mappings of a frame are finitely many.
LEMMA MappingsFinite ==
  ASSUME Usual, NEW f
  PROVE  /\ IsFiniteSet(Mappings(f))
         /\ Cardinality(Mappings(f)) \in Nat
         /\ Cardinality(Mappings(f)) = 0 <=> Mappings(f) = {}
<1>1. IsFiniteSet(Procs \X Pages)
  BY FS_Product DEF Usual
<1>2. Mappings(f) \in SUBSET (Procs \X Pages)
  BY DEF Mappings
<1>3. IsFiniteSet(Mappings(f))
  BY <1>1, <1>2, FS_Subset
<1>. QED
  BY <1>3, FS_CardinalityType, FS_EmptySet

\* The members of Mappings, as pairs.
LEMMA MappingsMember ==
  ASSUME NEW f, NEW p \in Procs, NEW v \in Pages
  PROVE  <<p, v>> \in Mappings(f) <=> pt[p][v] # NONE /\ pt[p][v].frame = f
BY DEF Mappings

\* Two sets of mappings are the same when they have the same pairs.
LEMMA PairsDecide ==
  ASSUME NEW A \in SUBSET (Procs \X Pages), NEW B \in SUBSET (Procs \X Pages),
         \A p \in Procs, v \in Pages : <<p, v>> \in A <=> <<p, v>> \in B
  PROVE  A = B
OBVIOUS

-----------------------------------------------------------------------------
(***************************************************************************)
(* Giving process p fresh pages A, page v on the free frame F[v]: what     *)
(* spawn_process() and thread_create do to the tables.                     *)
(***************************************************************************)
LEMMA FreshPages ==
  ASSUME Usual, MemoryInv, NEW p \in Procs,
         NEW A \in SUBSET (Pages \ Regions), NEW F \in [A -> free],
         \A u, v \in A : F[u] = F[v] => u = v,
         NEW N \in SUBSET (StackPages \cup ThreadPages),
         \A v \in A : pt[p][v] = NONE,
         pt' = [pt EXCEPT ![p] = [v \in Pages |->
                  IF v \in A THEN [frame |-> F[v], w |-> TRUE, nx |-> v \in N]
                  ELSE pt[p][v]]],
         free' = free \ {F[v] : v \in A},
         live' \in [Procs -> BOOLEAN], live'[p],
         \A q \in Procs : live[q] => live'[q],
         content' \in [Frames -> Values],
         UNCHANGED <<cow, shm, halted, leaked>>
  PROVE  MemoryInv'
<1> USE DEF MemoryInv
<1>t. TypeOK
  OBVIOUS
<1>f. \A v \in A : F[v] \in free /\ F[v] \in Frames
  BY <1>t DEF TypeOK
<1>e. \A v \in A : [frame |-> F[v], w |-> TRUE, nx |-> v \in N] \in Entries
  BY <1>f DEF Entries
<1>1. pt' \in [Procs -> [Pages -> Entries \cup {NONE}]]
  BY <1>t, <1>e DEF TypeOK
<1>2. \A v \in A : /\ pt'[p][v] # NONE
                   /\ pt'[p][v].frame = F[v]
                   /\ pt'[p][v].w = TRUE
                   /\ pt'[p][v].nx = (v \in N)
  <2> TAKE v \in A
  <2>1. pt'[p][v] = [frame |-> F[v], w |-> TRUE, nx |-> v \in N]
    BY <1>t DEF TypeOK
  <2>2. pt'[p][v] # NONE
    BY <2>1, <1>e DEF Usual
  <2>. QED
    BY <2>1, <2>2
<1>3. \A q \in Procs, v \in Pages : ~(q = p /\ v \in A) => pt'[q][v] = pt[q][v]
  BY <1>t DEF TypeOK
<1>4. \A q \in Procs, v \in Pages : pt[q][v] # NONE => pt'[q][v] = pt[q][v]
  BY <1>3
<1>5. cow' = cow /\ shm' = shm /\ leaked' = leaked /\ halted' = halted
      /\ ShmFrames' = ShmFrames /\ Tracked' = Tracked
  BY DEF ShmFrames, Tracked
<1>6. free' \subseteq free
  OBVIOUS
<1>7. TypeOK'
  BY <1>t, <1>1, <1>5, <1>6 DEF TypeOK
<1>8. DeadMapNothing'
  <2> SUFFICES ASSUME NEW q \in Procs, ~live'[q] PROVE pt'[q] = NoPages
    BY DEF DeadMapNothing, NoPages
  <2>1. q # p /\ ~live[q]
    OBVIOUS
  <2>2. pt'[q] = pt[q]
    BY <2>1, <1>t DEF TypeOK
  <2>. QED
    BY <2>1, <2>2 DEF DeadMapNothing
<1>9. FreeUnused'
  <2>1. \A f \in free' : cow'[f] = 0 /\ f \notin ShmFrames'
    BY <1>5, <1>6 DEF FreeUnused
  <2>2. ASSUME NEW q \in Procs, NEW v \in Pages, pt'[q][v] # NONE
        PROVE  pt'[q][v].frame \notin free'
    <3>1. CASE q = p /\ v \in A
      <4>1. pt'[q][v].frame = F[v]
        BY <3>1, <1>2, Zenon
      <4>. QED
        BY <4>1, <3>1
    <3>2. CASE ~(q = p /\ v \in A)
      BY <3>2, <2>2, <1>3, <1>6 DEF FreeUnused
    <3>. QED
      BY <3>1, <3>2
  <2>. QED
    BY <2>1, <2>2 DEF FreeUnused
<1>10. RegionEntries'
  <2> SUFFICES ASSUME NEW q \in Procs, NEW r \in Regions, pt'[q][r] # NONE
               PROVE  pt'[q][r].frame = shm[r] /\ pt'[q][r].w /\ ~pt'[q][r].nx
    BY <1>5 DEF RegionEntries
  <2>1. pt'[q][r] = pt[q][r]
    BY <1>3 DEF Pages
  <2>2. pt[q][r].frame = shm[r] /\ pt[q][r].w /\ ~pt[q][r].nx
    BY <2>1 DEF RegionEntries
  <2>. QED
    BY <2>1, <2>2, ZenonT(30)
<1>11. RegionsApart'
  BY <1>5, ZenonT(30) DEF RegionsApart
<1>12. PrivateEntries'
  <2> SUFFICES ASSUME NEW q \in Procs, NEW v \in Pages \ Regions, pt'[q][v] # NONE
               PROVE  /\ pt'[q][v].frame \notin ShmFrames
                      /\ pt'[q][v].w => cow[pt'[q][v].frame] = 0
                      /\ ~pt'[q][v].w => cow[pt'[q][v].frame] > 0 /\ v \in ForkPages
                      /\ pt'[q][v].nx => v \in StackPages \cup ThreadPages
    BY <1>5 DEF PrivateEntries
  <2>1. CASE q = p /\ v \in A
    <3>1. /\ pt'[q][v].frame = F[v]
          /\ pt'[q][v].w = TRUE
          /\ pt'[q][v].nx = (v \in N)
      BY <2>1, <1>2
    <3>2. cow[F[v]] = 0 /\ F[v] \notin ShmFrames
      BY <2>1, <1>f, ZenonT(30) DEF FreeUnused
    <3>. QED
      BY <3>1, <3>2, Zenon
  <2>2. CASE ~(q = p /\ v \in A)
    BY <2>2, <1>3, SMTT(30) DEF PrivateEntries
  <2>. QED
    BY <2>1, <2>2, ZenonT(30)
<1>13. Alone'
  <2> SUFFICES ASSUME NEW q \in Procs, NEW s \in Procs,
                      NEW u \in Pages \ Regions, NEW v \in Pages \ Regions,
                      pt'[q][u] # NONE, pt'[s][v] # NONE,
                      pt'[q][u].frame = pt'[s][v].frame
               PROVE  \/ q = s /\ u = v
                      \/ q # s /\ ~pt'[q][u].w /\ ~pt'[s][v].w
    BY DEF Alone
  <2>1. CASE (q = p /\ u \in A) /\ (s = p /\ v \in A)
    BY <2>1, <1>2
  <2>2. CASE (q = p /\ u \in A) /\ ~(s = p /\ v \in A)
    <3>1. pt'[s][v].frame \notin free
      BY <2>2, <1>3, SMTT(30) DEF FreeUnused
    <3>. QED
      BY <3>1, <2>2, <1>2, <1>f, SMTT(30)
  <2>3. CASE ~(q = p /\ u \in A) /\ (s = p /\ v \in A)
    <3>1. pt'[q][u].frame \notin free
      BY <2>3, <1>3 DEF FreeUnused
    <3>. QED
      BY <3>1, <2>3, <1>2, <1>f
  <2>4. CASE ~(q = p /\ u \in A) /\ ~(s = p /\ v \in A)
    BY <2>4, <1>3 DEF Alone
  <2>. QED
    BY <2>1, <2>2, <2>3, <2>4, ZenonT(30)
<1>14. RefcountExact'
  <2> SUFFICES ASSUME NEW f \in Tracked PROVE cow[f] = Cardinality(Mappings(f)')
    BY <1>5 DEF RefcountExact
  <2>1. f \notin free
    BY DEF FreeUnused, Tracked
  <2>2. ASSUME NEW q \in Procs, NEW v \in Pages
        PROVE  <<q, v>> \in Mappings(f)' <=> <<q, v>> \in Mappings(f)
    <3>1. CASE q = p /\ v \in A
      BY <3>1, <1>2, <1>f, <2>1 DEF Mappings
    <3>2. CASE ~(q = p /\ v \in A)
      BY <3>2, <1>3 DEF Mappings
    <3>. QED
      BY <3>1, <3>2
  <2>3. Mappings(f)' = Mappings(f)
    <3>1. Mappings(f)' \in SUBSET (Procs \X Pages) /\ Mappings(f) \in SUBSET (Procs \X Pages)
      BY DEF Mappings
    <3>. QED
      BY <3>1, <2>2, PairsDecide, Zenon
  <2>. QED
    BY <2>3 DEF RefcountExact
<1>15. NothingLeaks'
  <2> SUFFICES ASSUME NEW f \in Frames \ free'
               PROVE  Mappings(f)' # {} \/ f \in ShmFrames \cup leaked
    BY <1>5 DEF NothingLeaks
  <2>1. CASE f \in free
    <3>1. PICK v \in A : f = F[v]
      BY <2>1
    <3>2. <<p, v>> \in Mappings(f)'
      BY <3>1, <1>2, ZenonT(30) DEF Mappings
    <3>. QED
      BY <3>2
  <2>2. CASE f \notin free
    <3>1. Mappings(f) # {} \/ f \in ShmFrames \cup leaked
      BY <2>2 DEF NothingLeaks
    <3>2. Mappings(f) \subseteq Mappings(f)'
      BY <1>4 DEF Mappings
    <3>. QED
      BY <3>1, <3>2
  <2>. QED
    BY <2>1, <2>2
<1>. QED
  BY <1>7, <1>8, <1>9, <1>10, <1>11, <1>12, <1>13, <1>14, <1>15

\* The layout of pages: regions are pages of their own.
LEMMA PageFacts ==
  ASSUME Usual
  PROVE  /\ ImagePages \cup StackPages \in SUBSET (Pages \ Regions)
         /\ ThreadPages \in SUBSET (Pages \ Regions)
         /\ Regions \in SUBSET Pages
         /\ ImagePages \cup StackPages \subseteq Nat
         /\ IsFiniteSet(ImagePages \cup StackPages)
<1>1. /\ ImagePages \cup StackPages \in SUBSET (Pages \ Regions)
      /\ ThreadPages \in SUBSET (Pages \ Regions)
      /\ Regions \in SUBSET Pages
  BY DEF Usual, Pages
<1>2. IsFiniteSet(ImagePages \cup StackPages)
  <2>1. ImagePages \cup StackPages \in SUBSET Pages
    BY <1>1
  <2>. QED
    BY <2>1, FS_Subset DEF Usual
<1>3. ImagePages \cup StackPages \subseteq Nat
  BY <1>1, MemoryAssumption, Zenon DEF MemoryAssumption
<1>. QED
  BY <1>1, <1>2, <1>3

\* spawn_process() keeps the invariant, whether or not it finds its frames.
LEMMA SpawnInv ==
  ASSUME Usual, MemoryInv, NEW p \in Procs, Spawn(p)
  PROVE  MemoryInv'
<1> DEFINE pages == ImagePages \cup StackPages
           F == [v \in pages |-> NthFree(Below(pages, v))]
<1>t. TypeOK /\ free \in SUBSET Frames
  BY DEF MemoryInv, TypeOK
<1>1. CASE Cardinality(free) >= Cardinality(pages)
  <2>1. /\ \A v \in pages : NthFree(Below(pages, v)) \in free
        /\ \A u, v \in pages :
             NthFree(Below(pages, u)) = NthFree(Below(pages, v)) => u = v
    <3>1. pages \subseteq Nat /\ IsFiniteSet(pages)
      BY PageFacts
    <3>. QED
      BY <3>1, <1>1, <1>t, SpawnFrames, Zenon
  <2>2. F \in [pages -> free] /\ \A u, v \in pages : F[u] = F[v] => u = v
    BY <2>1, Zenon
  <2>3. pt[p] = NoPages /\ \A v \in Pages : pt[p][v] = NONE
    BY DEF MemoryInv, DeadMapNothing, Spawn, NoPages
  <2>4. pt' = [pt EXCEPT ![p] = [v \in Pages |->
                 IF v \in pages THEN [frame |-> F[v], w |-> TRUE, nx |-> v \in StackPages]
                 ELSE pt[p][v]]]
    BY <1>1, <2>3, ZenonT(30) DEF Spawn
  <2>5. free' = free \ {F[v] : v \in pages}
    BY <1>1, Zenon DEF Spawn
  <2>6. live' \in [Procs -> BOOLEAN] /\ live'[p] /\ \A q \in Procs : live[q] => live'[q]
    BY <1>1, <1>t, Zenon DEF Spawn, TypeOK
  <2>7. content' \in [Frames -> Values]
    BY <1>1, <1>t, MemoryAssumption DEF Spawn, TypeOK, MemoryAssumption
  <2>8. UNCHANGED <<cow, shm, halted, leaked>>
    BY <1>1 DEF Spawn
  <2>9. pages \in SUBSET (Pages \ Regions) /\ \A v \in pages : pt[p][v] = NONE
    BY <2>3, PageFacts
  <2> HIDE DEF F, pages
  <2>. QED
    BY <2>2, <2>4, <2>5, <2>6, <2>7, <2>8, <2>9, FreshPages, Zenon
<1>2. CASE ~(Cardinality(free) >= Cardinality(pages))
  <2>1. /\ free' = {} /\ leaked' = leaked \cup free
        /\ UNCHANGED <<live, pt, content, cow, shm, halted>>
    BY <1>2 DEF Spawn
  <2>2. ShmFrames' = ShmFrames /\ Tracked' = Tracked /\ \A f : Mappings(f)' = Mappings(f)
    BY <2>1 DEF ShmFrames, Tracked, Mappings
  <2>3. TypeOK'
    BY <2>1, <1>t DEF TypeOK
  <2>4. NothingLeaks'
    BY <2>1, <2>2 DEF MemoryInv, NothingLeaks
  <2>5. RefcountExact'
    BY <2>1, <2>2 DEF MemoryInv, RefcountExact
  <2>6. FreeUnused' /\ DeadMapNothing'
    BY <2>1, <2>2 DEF MemoryInv, FreeUnused, DeadMapNothing, NoPages
  <2>7. RegionEntries' /\ RegionsApart'
    BY <2>1, ZenonT(30) DEF MemoryInv, RegionEntries, RegionsApart
  <2>8. PrivateEntries' /\ Alone'
    BY <2>1, <2>2 DEF MemoryInv, PrivateEntries, Alone
  <2>. QED
    BY <2>3, <2>4, <2>5, <2>6, <2>7, <2>8 DEF MemoryInv
<1>. QED
  BY <1>1, <1>2

\* thread_create keeps the invariant.
LEMMA ThreadCreateInv ==
  ASSUME Usual, MemoryInv, NEW p \in Procs, NEW v \in ThreadPages,
         ThreadCreate(p, v)
  PROVE  MemoryInv'
<1> DEFINE F == [u \in {v} |-> NthFree(0)]
<1>t. TypeOK /\ free \in SUBSET Frames
  BY DEF MemoryInv, TypeOK
<1>1. NthFree(0) \in free
  BY <1>t, FirstFree DEF ThreadCreate
<1>2. F \in [{v} -> free] /\ \A u, w \in {v} : F[u] = F[w] => u = w
  BY <1>1
<1>3. {v} \in SUBSET (Pages \ Regions) /\ v \in Pages
  BY PageFacts
<1>4. pt' = [pt EXCEPT ![p] = [u \in Pages |->
               IF u \in {v} THEN [frame |-> F[u], w |-> TRUE, nx |-> u \in {v}]
               ELSE pt[p][u]]]
  <2>1. pt' = [pt EXCEPT ![p] = [pt[p] EXCEPT ![v] =
                 [frame |-> NthFree(0), w |-> TRUE, nx |-> TRUE]]]
    BY DEF ThreadCreate
  <2>2. pt[p] \in [Pages -> Entries \cup {NONE}]
    BY <1>t DEF TypeOK
  <2>3. [pt[p] EXCEPT ![v] = [frame |-> NthFree(0), w |-> TRUE, nx |-> TRUE]]
          = [u \in Pages |->
               IF u \in {v} THEN [frame |-> F[u], w |-> TRUE, nx |-> u \in {v}]
               ELSE pt[p][u]]
    BY <2>2, <1>3, Zenon
  <2>. QED
    BY <2>1, <2>3, Zenon
<1>5. free' = free \ {F[u] : u \in {v}}
  BY DEF ThreadCreate
<1>6. live' \in [Procs -> BOOLEAN] /\ live'[p] /\ \A q \in Procs : live[q] => live'[q]
  BY <1>t DEF ThreadCreate, TypeOK
<1>7. content' \in [Frames -> Values]
  BY <1>t DEF ThreadCreate, TypeOK
<1>8. UNCHANGED <<cow, shm, halted, leaked>>
  BY DEF ThreadCreate
<1>9. {v} \in SUBSET (StackPages \cup ThreadPages) /\ \A u \in {v} : pt[p][u] = NONE
  BY DEF ThreadCreate
<1> HIDE DEF F
<1>. QED
  BY <1>2, <1>3, <1>4, <1>5, <1>6, <1>7, <1>8, <1>9, FreshPages, Zenon

\* alloc_shared_memory() keeps the invariant.
LEMMA AllocSharedMemoryInv ==
  ASSUME Usual, MemoryInv, NEW r \in Regions, AllocSharedMemory(r)
  PROVE  MemoryInv'
<1> DEFINE new == NthFree(0)
<1>t. TypeOK /\ free \in SUBSET Frames
  BY DEF MemoryInv, TypeOK
<1>1. new \in free /\ new \in Frames /\ new # NONE
  BY <1>t, FirstFree DEF AllocSharedMemory, Usual
<1>2. /\ shm' = [shm EXCEPT ![r] = new]
      /\ shm[r] = NONE
      /\ free' = free \ {new}
      /\ UNCHANGED <<content, live, pt, cow, halted, leaked>>
  BY DEF AllocSharedMemory
<1> HIDE DEF new
<1>3. shm'[r] = new /\ \A s \in Regions \ {r} : shm'[s] = shm[s]
  BY <1>2, <1>t DEF TypeOK
<1>4. ShmFrames' = ShmFrames \cup {new}
  <2>1. ASSUME NEW f PROVE f \in ShmFrames' <=> f \in ShmFrames \cup {new}
    BY <1>1, <1>2, <1>3 DEF ShmFrames
  <2>. QED
    BY <2>1
<1>5. Tracked' = Tracked /\ \A f : Mappings(f)' = Mappings(f)
  BY <1>2 DEF Tracked, Mappings
<1>6. TypeOK'
  BY <1>1, <1>2, <1>t DEF TypeOK
<1>7. DeadMapNothing' /\ Alone'
  BY <1>2 DEF MemoryInv, DeadMapNothing, NoPages, Alone
<1>8. FreeUnused'
  BY <1>2, <1>4 DEF MemoryInv, FreeUnused
<1>9. RegionEntries'
  <2> SUFFICES ASSUME NEW q \in Procs, NEW s \in Regions, pt[q][s] # NONE
               PROVE  pt[q][s].frame = shm'[s] /\ pt[q][s].w /\ ~pt[q][s].nx
    BY <1>2 DEF RegionEntries
  <2>1. pt[q][s].frame = shm[s] /\ pt[q][s].w /\ ~pt[q][s].nx
    BY DEF MemoryInv, RegionEntries
  <2>2. pt[q][s] \in Entries /\ pt[q][s].frame \in Frames
    BY <1>t, PageFacts DEF TypeOK, Entries
  <2>3. s # r
    BY <2>1, <2>2, <1>2 DEF Usual
  <2>. QED
    BY <2>1, <2>3, <1>3
<1>10. RegionsApart'
  <2>1. cow[new] = 0 /\ \A s \in Regions : shm[s] # new
    BY <1>1 DEF MemoryInv, FreeUnused, ShmFrames, Usual
  <2>2. \A s \in Regions : shm'[s] # NONE => cow'[shm'[s]] = 0
    BY <1>2, <1>3, <2>1, ZenonT(30) DEF MemoryInv, RegionsApart
  <2>3. \A s, u \in Regions : shm'[s] # NONE /\ shm'[s] = shm'[u] => s = u
    BY <1>3, <2>1, ZenonT(30) DEF MemoryInv, RegionsApart
  <2>. QED
    BY <2>2, <2>3 DEF RegionsApart
<1>11. PrivateEntries'
  <2>1. \A q \in Procs, v \in Pages : pt[q][v] # NONE => pt[q][v].frame # new
    BY <1>1 DEF MemoryInv, FreeUnused
  <2>. QED
    BY <2>1, <1>2, <1>4 DEF MemoryInv, PrivateEntries
<1>12. RefcountExact' /\ NothingLeaks'
  BY <1>2, <1>4, <1>5 DEF MemoryInv, RefcountExact, NothingLeaks
<1>. QED
  BY <1>6, <1>7, <1>8, <1>9, <1>10, <1>11, <1>12 DEF MemoryInv

\* shared_memory_map() keeps the invariant.
LEMMA SharedMemoryMapInv ==
  ASSUME Usual, MemoryInv, NEW p \in Procs, NEW r \in Regions,
         SharedMemoryMap(p, r)
  PROVE  MemoryInv'
<1> DEFINE e == [frame |-> shm[r], w |-> TRUE, nx |-> FALSE]
<1>t. TypeOK /\ r \in Pages
  BY PageFacts DEF MemoryInv
<1>1. /\ live[p] /\ shm[r] # NONE /\ shm[r] \in Frames
      /\ pt' = [pt EXCEPT ![p][r] = e]
      /\ UNCHANGED <<free, content, live, cow, shm, halted, leaked>>
  BY <1>t DEF SharedMemoryMap, TypeOK
<1>2. e \in Entries /\ e # NONE /\ e.frame = shm[r] /\ e.w = TRUE /\ e.nx = FALSE
  <2>1. e \in Entries
    BY <1>1 DEF Entries
  <2>2. e # NONE
    BY <2>1, Zenon DEF Usual
  <2>. QED
    BY <2>1, <2>2
<1> HIDE DEF e
<1>3. pt' \in [Procs -> [Pages -> Entries \cup {NONE}]]
  BY <1>t, <1>1, <1>2 DEF TypeOK
<1>4. pt'[p][r] = e
  BY <1>t, <1>1 DEF TypeOK
<1>5. \A q \in Procs, v \in Pages : ~(q = p /\ v = r) => pt'[q][v] = pt[q][v]
  BY <1>t, <1>1 DEF TypeOK
<1>6. ShmFrames' = ShmFrames /\ Tracked' = Tracked /\ shm[r] \in ShmFrames
  BY <1>1 DEF ShmFrames, Tracked
<1>7. shm[r] \notin Tracked /\ shm[r] \notin free
  BY <1>1, <1>6 DEF MemoryInv, RegionsApart, Tracked, FreeUnused
<1>8. TypeOK'
  BY <1>t, <1>1, <1>3 DEF TypeOK
<1>9. DeadMapNothing'
  <2> SUFFICES ASSUME NEW q \in Procs, ~live[q] PROVE pt'[q] = NoPages
    BY <1>1 DEF DeadMapNothing, NoPages
  <2>1. pt'[q] = pt[q]
    BY <1>1, <1>t DEF TypeOK
  <2>. QED
    BY <2>1 DEF MemoryInv, DeadMapNothing
<1>10. FreeUnused'
  <2>1. \A q \in Procs, v \in Pages : pt'[q][v] # NONE => pt'[q][v].frame \notin free
    BY <1>2, <1>4, <1>5, <1>7 DEF MemoryInv, FreeUnused
  <2>. QED
    BY <2>1, <1>1, <1>6 DEF MemoryInv, FreeUnused
<1>11. RegionEntries'
  <2> SUFFICES ASSUME NEW q \in Procs, NEW s \in Regions, pt'[q][s] # NONE
               PROVE  pt'[q][s].frame = shm[s] /\ pt'[q][s].w /\ ~pt'[q][s].nx
    BY <1>1 DEF RegionEntries
  <2>1. CASE q = p /\ s = r
    BY <2>1, <1>2, <1>4
  <2>2. CASE ~(q = p /\ s = r)
    <3>1. pt'[q][s] = pt[q][s]
      BY <2>2, <1>5, PageFacts
    <3>2. pt[q][s].frame = shm[s] /\ pt[q][s].w /\ ~pt[q][s].nx
      BY <3>1 DEF MemoryInv, RegionEntries
    <3>. QED
      BY <3>1, <3>2
  <2>. QED
    BY <2>1, <2>2
<1>12. RegionsApart'
  BY <1>1 DEF MemoryInv, RegionsApart
<1>13. \A q \in Procs, v \in Pages \ Regions : pt'[q][v] = pt[q][v]
  BY <1>5, ZenonT(30)
<1>14. PrivateEntries'
  BY <1>13, <1>1, <1>6 DEF MemoryInv, PrivateEntries
<1>15. Alone'
  BY <1>13 DEF MemoryInv, Alone
<1>16. RefcountExact'
  <2> SUFFICES ASSUME NEW f \in Tracked PROVE cow[f] = Cardinality(Mappings(f)')
    BY <1>1, <1>6 DEF RefcountExact
  <2>1. ASSUME NEW q \in Procs, NEW v \in Pages
        PROVE  <<q, v>> \in Mappings(f)' <=> <<q, v>> \in Mappings(f)
    <3>1. CASE q = p /\ v = r
      <4>1. pt'[q][v].frame # f
        BY <3>1, <1>2, <1>4, <1>7
      <4>2. pt[q][v] # NONE => pt[q][v].frame # f
        BY <3>1, <1>7 DEF MemoryInv, RegionEntries
      <4>. QED
        BY <4>1, <4>2 DEF Mappings
    <3>2. CASE ~(q = p /\ v = r)
      BY <3>2, <1>5 DEF Mappings
    <3>. QED
      BY <3>1, <3>2
  <2>2. Mappings(f)' = Mappings(f)
    <3>1. Mappings(f)' \in SUBSET (Procs \X Pages) /\ Mappings(f) \in SUBSET (Procs \X Pages)
      BY DEF Mappings
    <3>. QED
      BY <3>1, <2>1, PairsDecide
  <2>. QED
    BY <2>2 DEF MemoryInv, RefcountExact
<1>17. NothingLeaks'
  <2> SUFFICES ASSUME NEW f \in Frames \ free, f \notin ShmFrames \cup leaked
               PROVE  Mappings(f)' # {}
    BY <1>1, <1>6 DEF NothingLeaks
  <2>1. PICK m \in Mappings(f) : TRUE
    BY DEF MemoryInv, NothingLeaks
  <2>2. /\ m \in Procs \X Pages /\ m[1] \in Procs /\ m[2] \in Pages
        /\ pt[m[1]][m[2]] # NONE /\ pt[m[1]][m[2]].frame = f
    BY <2>1 DEF Mappings
  <2>3. ~(m[1] = p /\ m[2] = r)
    BY <2>2, <1>6 DEF MemoryInv, RegionEntries
  <2>4. m \in Mappings(f)'
    BY <2>2, <2>3, <1>5 DEF Mappings
  <2>. QED
    BY <2>4
<1>. QED
  BY <1>8, <1>9, <1>10, <1>11, <1>12, <1>14, <1>15, <1>16, <1>17 DEF MemoryInv

\* A step that only writes a frame's content, or halts, keeps the invariant.
LEMMA QuietInv ==
  ASSUME MemoryInv, content' \in [Frames -> Values], halted' \in BOOLEAN,
         UNCHANGED <<free, live, pt, cow, shm, leaked>>
  PROVE  MemoryInv'
<1>1. ShmFrames' = ShmFrames /\ Tracked' = Tracked /\ \A f : Mappings(f)' = Mappings(f)
  BY DEF ShmFrames, Tracked, Mappings
<1>2. TypeOK'
  BY DEF MemoryInv, TypeOK
<1>3. DeadMapNothing' /\ FreeUnused' /\ RegionEntries' /\ RegionsApart'
  BY <1>1, ZenonT(30) DEF MemoryInv, DeadMapNothing, NoPages, FreeUnused, RegionEntries, RegionsApart
<1>4. PrivateEntries' /\ Alone'
  BY <1>1 DEF MemoryInv, PrivateEntries, Alone
<1>5. RefcountExact' /\ NothingLeaks'
  BY <1>1 DEF MemoryInv, RefcountExact, NothingLeaks
<1>. QED
  BY <1>2, <1>3, <1>4, <1>5 DEF MemoryInv

\* What repairing a write by p to page v does: the page moves from the shared
\* frame old to new, which is writable.
Repaired(p, v, old, new) ==
  /\ pt' = [pt EXCEPT ![p][v] = [frame |-> new, w |-> TRUE, nx |-> FALSE]]
  /\ cow' = [cow EXCEPT ![old] = cow[old] - 1]
  /\ free' = (free \ {new}) \cup RepairFrees(old)

\* Repairing a write to a copy-on-write page keeps the invariant.
LEMMA RepairInv ==
  ASSUME Usual, MemoryInv, NEW p \in Procs, NEW v \in Pages,
         NEW old, NEW new,
         pt[p][v] # NONE, ~pt[p][v].w, old = pt[p][v].frame, cow[old] > 0,
         new \in free,
         content' \in [Frames -> Values],
         Repaired(p, v, old, new),
         live[p],
         UNCHANGED <<live, shm, leaked, halted>>
  PROVE  MemoryInv'
<1> DEFINE e == [frame |-> new, w |-> TRUE, nx |-> FALSE]
<1>t. TypeOK
  BY DEF MemoryInv
<1>1. new \in Frames /\ old \in Frames /\ cow[old] \in Nat /\ pt[p][v] \in Entries
  BY <1>t, SMTT(30) DEF TypeOK, Entries
<1>2. v \in Pages \ Regions
  BY DEF MemoryInv, RegionEntries
<1>3. e \in Entries /\ e # NONE /\ e.frame = new /\ e.w = TRUE /\ e.nx = FALSE
  <2>1. e \in Entries
    BY <1>1 DEF Entries
  <2>2. e # NONE
    BY <2>1, Zenon DEF Usual
  <2>. QED
    BY <2>1, <2>2, ZenonT(30)
<1>p. pt' = [pt EXCEPT ![p][v] = e]
  BY Zenon DEF Repaired
<1>c. cow' = [cow EXCEPT ![old] = cow[old] - 1]
  BY Zenon DEF Repaired
<1>r. free' = (free \ {new}) \cup RepairFrees(old)
  BY Zenon DEF Repaired
<1> HIDE DEF e
<1>4. pt' \in [Procs -> [Pages -> Entries \cup {NONE}]]
  <2>1. pt \in [Procs -> [Pages -> Entries \cup {NONE}]] /\ e \in Entries \cup {NONE}
    BY <1>t, <1>3 DEF TypeOK
  <2>. QED
    BY ONLY <2>1, <1>p
<1>5. pt'[p][v] = e
  BY <1>t, <1>p DEF TypeOK
<1>6. \A q \in Procs, u \in Pages : ~(q = p /\ u = v) => pt'[q][u] = pt[q][u]
  BY <1>t, <1>p, ZenonT(30) DEF TypeOK
<1>7. cow' \in [Frames -> Nat] /\ cow'[old] = cow[old] - 1
      /\ \A f \in Frames \ {old} : cow'[f] = cow[f]
  BY <1>t, <1>1, <1>c DEF TypeOK
<1>8. ShmFrames' = ShmFrames
  BY ZenonT(30) DEF ShmFrames
<1>9. old \notin free /\ old # new /\ old \notin ShmFrames /\ cow[new] = 0 /\ new \notin ShmFrames
  BY <1>2, ZenonT(30) DEF MemoryInv, FreeUnused, PrivateEntries
<1>10. Tracked' \subseteq Tracked
  BY <1>1, <1>7 DEF Tracked
<1>11. TypeOK'
  <2>1. Tracked \in SUBSET Frames /\ Tracked' \in SUBSET Tracked
    BY <1>10 DEF Tracked
  <2>2. IsFiniteSet(Tracked) /\ Cardinality(Tracked) \in Nat
        /\ IsFiniteSet(Tracked') /\ Cardinality(Tracked') \in Nat
    BY <2>1, <1>10, FrameFacts
  <2>3. Cardinality(Tracked') <= Cardinality(Tracked)
    BY <2>1, <2>2, FS_Subset
  <2>4. Cardinality(Tracked) <= COW_SLOTS
    BY <1>t DEF TypeOK, Tracked
  <2>5. Cardinality(Tracked') <= COW_SLOTS
    BY <2>2, <2>3, <2>4, MemoryAssumption, SMTT(30) DEF MemoryAssumption
  <2>6. free' \subseteq Frames
    BY <1>t, <1>1, <1>r DEF TypeOK, RepairFrees
  <2>. QED
    BY <1>t, <1>4, <1>7, <2>5, <2>6, Zenon DEF TypeOK, Tracked
<1>12. <<p, v>> \in Mappings(old)
  BY MappingsMember
\* The frame loses one mapping, the new one gets its first.
<1>13. \A f : f # old /\ f # new => Mappings(f)' = Mappings(f)
  <2> SUFFICES ASSUME NEW f, f # old, f # new PROVE Mappings(f)' = Mappings(f)
    BY ZenonT(30)
  <2>1. Mappings(f)' \in SUBSET (Procs \X Pages) /\ Mappings(f) \in SUBSET (Procs \X Pages)
    BY ZenonT(30) DEF Mappings
  <2>2. ASSUME NEW q \in Procs, NEW u \in Pages
        PROVE  <<q, u>> \in Mappings(f)' <=> <<q, u>> \in Mappings(f)
    BY <1>3, <1>5, <1>6, ZenonT(30) DEF Mappings
  <2>. QED
    BY <2>1, <2>2, PairsDecide, Zenon
<1>14. Mappings(old)' = Mappings(old) \ {<<p, v>>}
  <2>1. Mappings(old)' \in SUBSET (Procs \X Pages)
        /\ Mappings(old) \ {<<p, v>>} \in SUBSET (Procs \X Pages)
    BY ZenonT(30) DEF Mappings
  <2>2. ASSUME NEW q \in Procs, NEW u \in Pages
        PROVE  <<q, u>> \in Mappings(old)' <=> <<q, u>> \in Mappings(old) \ {<<p, v>>}
    <3>1. CASE q = p /\ u = v
      BY <3>1, <1>3, <1>5, <1>9, ZenonT(30) DEF Mappings
    <3>2. CASE ~(q = p /\ u = v)
      BY <3>2, <1>6, ZenonT(30) DEF Mappings
    <3>. QED
      BY <3>1, <3>2, ZenonT(30)
  <2>. QED
    BY <2>1, <2>2, PairsDecide, SMTT(30)
<1>15. cow'[old] = Cardinality(Mappings(old)')
  <2>1. cow[old] = Cardinality(Mappings(old))
    BY <1>1 DEF MemoryInv, RefcountExact, Tracked
  <2>2. Cardinality(Mappings(old) \ {<<p, v>>}) = Cardinality(Mappings(old)) - 1
    BY <1>12, MappingsFinite, FS_RemoveElement, Zenon
  <2>. QED
    BY <2>1, <2>2, <1>7, <1>14, ZenonT(30)
<1>16. cow'[old] = 0 <=> Mappings(old)' = {}
  <2>1. IsFiniteSet(Mappings(old)')
    <3>1. IsFiniteSet(Mappings(old) \ {<<p, v>>})
      BY MappingsFinite, FS_RemoveElement, ZenonT(30)
    <3>. QED
      BY <3>1, <1>14
  <2>. QED
    BY <2>1, <1>15, FS_EmptySet, ZenonT(30)
<1>17. DeadMapNothing'
  <2> SUFFICES ASSUME NEW q \in Procs, ~live[q] PROVE pt'[q] = NoPages
    BY DEF DeadMapNothing, NoPages
  <2>1. pt'[q] = pt[q]
    BY <1>p, <1>t, ZenonT(30) DEF TypeOK
  <2>. QED
    BY <2>1 DEF MemoryInv, DeadMapNothing
<1>18. old \in free' => cow'[old] = 0
  BY <1>r, <1>1, <1>7, <1>9, SMTT(30) DEF RepairFrees
<1>19. \A f \in free' : f = old \/ (f \in free /\ f # new)
  BY <1>r, ZenonT(30) DEF RepairFrees
<1>20. FreeUnused'
  <2>1. ASSUME NEW f \in free' PROVE cow'[f] = 0 /\ f \notin ShmFrames'
    <3>1. CASE f = old
      BY <3>1, <1>8, <1>9, <1>18, ZenonT(30)
    <3>2. CASE f # old
      <4>1. f \in free /\ f \in Frames
        BY <3>2, <1>19, <1>t DEF TypeOK
      <4>. QED
        BY <3>2, <4>1, <1>7, <1>8 DEF MemoryInv, FreeUnused
    <3>. QED
      BY <3>1, <3>2, ZenonT(30)
  <2>2. ASSUME NEW q \in Procs, NEW u \in Pages, pt'[q][u] # NONE
        PROVE  pt'[q][u].frame \notin free'
    <3>1. CASE q = p /\ u = v
      BY <3>1, <1>3, <1>5, <1>9, <1>19, ZenonT(30)
    <3>2. CASE ~(q = p /\ u = v)
      <4>1. pt'[q][u] = pt[q][u] /\ pt[q][u].frame \notin free
        BY <3>2, <2>2, <1>6, ZenonT(30) DEF MemoryInv, FreeUnused
      <4>2. CASE pt[q][u].frame = old
        <5>1. <<q, u>> \in Mappings(old)'
          BY <4>1, <4>2, <2>2, ZenonT(30) DEF Mappings
        <5>. QED
          BY <4>1, <4>2, <5>1, <1>16, <1>18
      <4>3. CASE pt[q][u].frame # old
        BY <4>1, <4>3, <1>19, ZenonT(30)
      <4>. QED
        BY <4>2, <4>3, ZenonT(30)
    <3>. QED
      BY <3>1, <3>2, ZenonT(30)
  <2>. QED
    BY <2>1, <2>2, ZenonT(30) DEF FreeUnused
<1>21. RegionEntries'
  <2> SUFFICES ASSUME NEW q \in Procs, NEW s \in Regions, pt'[q][s] # NONE
               PROVE  pt'[q][s].frame = shm[s] /\ pt'[q][s].w /\ ~pt'[q][s].nx
    BY ZenonT(30) DEF RegionEntries
  <2>1. pt'[q][s] = pt[q][s]
    BY <1>2, <1>6, PageFacts, ZenonT(30)
  <2>. QED
    BY <2>1, SMTT(30) DEF MemoryInv, RegionEntries
<1>22. RegionsApart'
  <2>1. \A s \in Regions : shm[s] # NONE => cow'[shm[s]] = 0
    <3> TAKE s \in Regions
    <3> HAVE shm[s] # NONE
    <3>1. shm[s] \in Frames \ {old}
      BY <1>9, <1>t DEF ShmFrames, TypeOK
    <3>. QED
      BY <3>1, <1>7 DEF MemoryInv, RegionsApart
  <2>. QED
    BY <2>1, ZenonT(30) DEF MemoryInv, RegionsApart
<1>23. PrivateEntries'
  <2> SUFFICES ASSUME NEW q \in Procs, NEW u \in Pages \ Regions, pt'[q][u] # NONE
               PROVE  /\ pt'[q][u].frame \notin ShmFrames
                      /\ pt'[q][u].w => cow'[pt'[q][u].frame] = 0
                      /\ ~pt'[q][u].w => cow'[pt'[q][u].frame] > 0 /\ u \in ForkPages
                      /\ pt'[q][u].nx => u \in StackPages \cup ThreadPages
    BY <1>8, ZenonT(30) DEF PrivateEntries
  <2>1. CASE q = p /\ u = v
    <3>1. cow'[new] = 0
      BY <1>1, <1>7, <1>9
    <3>. QED
      BY ONLY <2>1, <3>1, <1>3, <1>5, <1>9, ZenonT(30)
  <2>2. CASE ~(q = p /\ u = v)
    <3>0. pt'[q][u] = pt[q][u] /\ PrivateEntries
      BY <2>2, <1>6 DEF MemoryInv
    <3>1. /\ pt'[q][u] = pt[q][u]
          /\ pt[q][u].frame \notin ShmFrames
          /\ pt[q][u].w => cow[pt[q][u].frame] = 0
          /\ ~pt[q][u].w => cow[pt[q][u].frame] > 0 /\ u \in ForkPages
          /\ pt[q][u].nx => u \in StackPages \cup ThreadPages
      BY <3>0 DEF PrivateEntries
    <3>2. pt[q][u].frame \in Frames
      BY <3>1, <1>t, SMTT(30) DEF TypeOK, Entries
    <3>3. CASE pt[q][u].frame = old
      <4>1. <<q, u>> \in Mappings(old)'
        BY <3>1, <3>3, ZenonT(30) DEF Mappings
      <4>2. cow'[old] \in Nat /\ cow'[old] # 0
        BY <4>1, <1>1, <1>7, <1>16, ZenonT(30)
      <4>3. ~pt[q][u].w
        BY <3>1, <3>3, <1>1, SMTT(30)
      <4>4. pt'[q][u].frame = old /\ ~pt'[q][u].w
        BY ONLY <3>1, <3>3, <4>3
      <4>5. cow'[old] > 0
        BY ONLY <4>2
      <4>. QED
        BY ONLY <3>1, <4>3, <4>4, <4>5, ZenonT(30)
    <3>4. CASE pt[q][u].frame # old
      BY <3>1, <3>2, <3>4, <1>7, ZenonT(30)
    <3>. QED
      BY <3>3, <3>4, ZenonT(30)
  <2>. QED
    BY <2>1, <2>2, ZenonT(30)
<1>24. Alone'
  <2> SUFFICES ASSUME NEW q \in Procs, NEW s \in Procs,
                      NEW u \in Pages \ Regions, NEW w \in Pages \ Regions,
                      pt'[q][u] # NONE, pt'[s][w] # NONE,
                      pt'[q][u].frame = pt'[s][w].frame
               PROVE  \/ q = s /\ u = w
                      \/ q # s /\ ~pt'[q][u].w /\ ~pt'[s][w].w
    BY SMTT(30) DEF Alone
  <2>1. \A x \in Procs, y \in Pages :
          ~(x = p /\ y = v) /\ pt'[x][y] # NONE
            => pt'[x][y] = pt[x][y] /\ pt[x][y].frame # new
    BY <1>6, SMTT(30) DEF MemoryInv, FreeUnused
  <2>2. CASE (q = p /\ u = v) \/ (s = p /\ w = v)
    BY <2>1, <2>2, <1>3, <1>5, SMTT(30)
  <2>3. CASE ~(q = p /\ u = v) /\ ~(s = p /\ w = v)
    BY <2>1, <2>3, SMTT(30) DEF MemoryInv, Alone
  <2>. QED
    BY <2>2, <2>3, ZenonT(30)
<1>25. RefcountExact'
  <2> SUFFICES ASSUME NEW f \in Tracked' PROVE cow'[f] = Cardinality(Mappings(f)')
    BY ZenonT(30) DEF RefcountExact
  <2>1. CASE f = old
    BY <2>1, <1>15, ZenonT(30)
  <2>2. CASE f # old
    <3>1. f \in Tracked /\ f \in Frames /\ cow'[f] = cow[f] /\ f # new
      BY <2>2, <1>7, <1>9, <1>10, SMTT(30) DEF Tracked
    <3>. QED
      BY <2>2, <3>1, <1>13, ZenonT(30) DEF MemoryInv, RefcountExact
  <2>. QED
    BY <2>1, <2>2, ZenonT(30)
<1>26. NothingLeaks'
  <2> SUFFICES ASSUME NEW f \in Frames \ free', f \notin ShmFrames \cup leaked
               PROVE  Mappings(f)' # {}
    BY <1>8, ZenonT(30) DEF NothingLeaks
  <2>1. CASE f = new
    <3>1. <<p, v>> \in Mappings(f)'
      BY <2>1, <1>3, <1>5, ZenonT(30) DEF Mappings
    <3>. QED
      BY <3>1
  <2>2. CASE f = old
    <3>1. cow[old] # 1
      BY <1>r, <2>2, ZenonT(30) DEF RepairFrees
    <3>. QED
      BY <2>2, <3>1, <1>1, <1>7, <1>16, SMTT(30)
  <2>3. CASE f # new /\ f # old
    <3>1. f \notin free
      BY <1>r, <2>3
    <3>. QED
      BY <2>3, <3>1, <1>13, ZenonT(30) DEF MemoryInv, NothingLeaks
  <2>. QED
    BY <2>1, <2>2, <2>3, ZenonT(30)
<1>. QED
  BY <1>11, <1>17, <1>20, <1>21, <1>22, <1>23, <1>24, <1>25, <1>26 DEF MemoryInv
=============================================================================
