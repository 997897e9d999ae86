---------------------------- MODULE MemoryProofs ----------------------------
(***************************************************************************)
(* Every step of Memory keeps MemoryInv, so frames in use are never free,  *)
(* none is lost, and the copy-on-write counts are exact.                   *)
(***************************************************************************)
EXTENDS MemoryInvariant

-----------------------------------------------------------------------------
\* The frames process p maps outside regions.
OwnFrames(p) ==
  {f \in Frames : \E v \in Pages \ Regions : pt[p][v] # NONE /\ pt[p][v].frame = f}

(***************************************************************************)
(* What free_address_space() does when p exits.  A leaf that is read-only  *)
(* is not NX, since p has written its stack, so the table finds its frame; *)
(* a writable leaf outside regions is p's alone.  So a count drops for     *)
(* each tracked frame of p, and p's frames with no other user are freed.   *)
(***************************************************************************)
LEMMA ExitEffect ==
  ASSUME Usual, MemoryInv, NEW p \in Procs, Exit(p)
  PROVE  /\ cow' = [f \in Frames |-> IF cow[f] > 0 /\ f \in OwnFrames(p)
                                     THEN cow[f] - 1 ELSE cow[f]]
         /\ free' = free \cup {f \in OwnFrames(p) : cow[f] <= 1}
<1>t. TypeOK
  BY DEF MemoryInv
<1>1. \A v \in Pages : pt[p][v] # NONE => pt[p][v].frame \in Frames /\ pt[p][v].w \in BOOLEAN
                                           /\ pt[p][v].nx \in BOOLEAN
  BY <1>t DEF TypeOK, Entries
<1>2. \A v \in Pages \ Regions : pt[p][v] # NONE /\ ~pt[p][v].w => LooksTracked(pt[p][v])
  <2> SUFFICES ASSUME NEW v \in Pages \ Regions, pt[p][v] # NONE, ~pt[p][v].w, pt[p][v].nx
               PROVE  FALSE
    BY DEF LooksTracked
  <2>1. v \in ForkPages /\ v \in StackPages \cup ThreadPages
    BY DEF MemoryInv, PrivateEntries
  <2>2. v \in StackPages
    BY <2>1 DEF Usual
  <2>3. v \in StackPages \cap Mapped(p)
    BY <2>2 DEF Mapped
  <2>. QED
    BY <2>3 DEF Exit, Usual
<1>3. \A v \in Pages \ Regions : pt[p][v] # NONE /\ cow[pt[p][v].frame] > 0 => ~pt[p][v].w
  <2> SUFFICES ASSUME NEW v \in Pages \ Regions, pt[p][v] # NONE,
                      cow[pt[p][v].frame] > 0, pt[p][v].w
               PROVE  FALSE
    OBVIOUS
  <2>1. cow[pt[p][v].frame] = 0
    BY DEF MemoryInv, PrivateEntries
  <2>. QED
    BY <2>1
<1>4. \A r \in Regions : pt[p][r] # NONE =>
        /\ LooksTracked(pt[p][r])
        /\ pt[p][r].frame \in ShmFrames
        /\ cow[pt[p][r].frame] = 0
  <2> SUFFICES ASSUME NEW r \in Regions, pt[p][r] # NONE
               PROVE  /\ LooksTracked(pt[p][r])
                      /\ pt[p][r].frame \in ShmFrames
                      /\ cow[pt[p][r].frame] = 0
    OBVIOUS
  <2>1. pt[p][r].frame = shm[r] /\ ~pt[p][r].nx
    BY DEF MemoryInv, RegionEntries
  <2>2. shm[r] # NONE
    BY <2>1, <1>1, PageFacts, Zenon DEF Usual
  <2>. QED
    BY <2>1, <2>2 DEF LooksTracked, ShmFrames, MemoryInv, RegionsApart
<1>5. ASSUME NEW f \in Frames, cow[f] > 0
      PROVE  (\E v \in Pages : LooksTracked(pt[p][v]) /\ pt[p][v].frame = f)
               <=> f \in OwnFrames(p)
  <2>1. ASSUME NEW v \in Pages, LooksTracked(pt[p][v]), pt[p][v].frame = f
        PROVE  f \in OwnFrames(p)
    <3>1. pt[p][v] # NONE
      BY <2>1 DEF LooksTracked
    <3>2. v \notin Regions
      BY <2>1, <3>1, <1>4, <1>5
    <3>. QED
      BY <2>1, <3>1, <3>2 DEF OwnFrames
  <2>2. ASSUME f \in OwnFrames(p)
        PROVE  \E v \in Pages : LooksTracked(pt[p][v]) /\ pt[p][v].frame = f
    <3>1. PICK v \in Pages \ Regions : pt[p][v] # NONE /\ pt[p][v].frame = f
      BY <2>2 DEF OwnFrames
    <3>. QED
      BY <3>1, <1>2, <1>3, <1>5
  <2>. QED
    BY <2>1, <2>2
<1>6. cow' = [f \in Frames |-> IF cow[f] > 0 /\ f \in OwnFrames(p)
                               THEN cow[f] - 1 ELSE cow[f]]
  <2>1. cow' = [f \in Frames |->
                  IF cow[f] > 0 /\ \E v \in Pages : LooksTracked(pt[p][v]) /\ pt[p][v].frame = f
                  THEN cow[f] - 1 ELSE cow[f]]
    BY DEF Exit, DroppedCount
  <2>. QED
    BY <2>1, <1>5
<1>7. ASSUME NEW f
      PROVE  f \in FreedFrames(pt[p], cow) <=> f \in {g \in OwnFrames(p) : cow[g] <= 1}
  <2>1. ASSUME f \in FreedFrames(pt[p], cow)
        PROVE  f \in OwnFrames(p) /\ cow[f] <= 1
    <3>1. PICK v \in Pages :
            /\ pt[p][v] # NONE /\ f = pt[p][v].frame
            /\ LooksTracked(pt[p][v]) => cow[f] <= 1 /\ f \notin ShmFrames
      BY <2>1 DEF FreedFrames
    <3>2. v \notin Regions
      BY <3>1, <1>4
    <3>3. f \in Frames /\ f \in OwnFrames(p)
      BY <3>1, <3>2, <1>1 DEF OwnFrames
    <3>4. cow[f] \in Nat
      BY <3>3, <1>t DEF TypeOK
    <3>5. CASE cow[f] > 0
      BY <3>1, <3>2, <3>5, <1>2, <1>3, <3>3
    <3>6. CASE cow[f] = 0
      BY <3>3, <3>6
    <3>. QED
      BY <3>4, <3>5, <3>6
  <2>2. ASSUME f \in OwnFrames(p), cow[f] <= 1
        PROVE  f \in FreedFrames(pt[p], cow)
    <3>1. PICK v \in Pages \ Regions : pt[p][v] # NONE /\ pt[p][v].frame = f
      BY <2>2 DEF OwnFrames
    <3>2. f \notin ShmFrames
      BY <3>1 DEF MemoryInv, PrivateEntries
    <3>. QED
      BY <2>2, <3>1, <3>2 DEF FreedFrames
  <2>. QED
    BY <2>1, <2>2
<1>8. FreedFrames(pt[p], cow) = {f \in OwnFrames(p) : cow[f] <= 1}
  BY <1>7
<1>. QED
  BY <1>6, <1>8 DEF Exit

\* process_exit() keeps the invariant.
LEMMA ExitInv ==
  ASSUME Usual, MemoryInv, NEW p \in Procs, Exit(p)
  PROVE  MemoryInv'
<1>t. TypeOK
  BY DEF MemoryInv
<1>1. /\ live[p]
      /\ live' = [live EXCEPT ![p] = FALSE]
      /\ pt' = [pt EXCEPT ![p] = NoPages]
      /\ UNCHANGED <<content, shm, halted, leaked>>
  BY DEF Exit
<1>2. /\ cow' = [f \in Frames |-> IF cow[f] > 0 /\ f \in OwnFrames(p)
                                   THEN cow[f] - 1 ELSE cow[f]]
      /\ free' = free \cup {f \in OwnFrames(p) : cow[f] <= 1}
  BY ExitEffect
<1>3. \A v \in Pages : pt'[p][v] = NONE
  BY <1>1, <1>t DEF TypeOK, NoPages
<1>4. \A q \in Procs, v \in Pages : q # p => pt'[q][v] = pt[q][v]
  BY <1>1, <1>t DEF TypeOK
<1>5. \A q \in Procs, v \in Pages : pt'[q][v] # NONE => q # p /\ pt'[q][v] = pt[q][v]
  BY <1>3, <1>4
<1>6. ShmFrames' = ShmFrames
  BY <1>1 DEF ShmFrames
<1>7. /\ cow' \in [Frames -> Nat]
      /\ \A f \in Frames : f \in OwnFrames(p) /\ cow[f] > 0 => cow'[f] = cow[f] - 1
      /\ \A f \in Frames : ~(f \in OwnFrames(p) /\ cow[f] > 0) => cow'[f] = cow[f]
      /\ \A f \in Frames : cow[f] = 0 => cow'[f] = 0
  <2>1. cow \in [Frames -> Nat]
    BY <1>t DEF TypeOK
  <2>. QED
    BY ONLY <2>1, <1>2
<1>8. \A f \in OwnFrames(p) : f \in Frames /\ f \notin ShmFrames
  BY DEF OwnFrames, MemoryInv, PrivateEntries
\* A tracked frame loses the one mapping p has of it.
<1>9. ASSUME NEW f \in Frames, cow[f] > 0
      PROVE  cow'[f] = Cardinality(Mappings(f)')
  <2>1. cow[f] = Cardinality(Mappings(f))
    BY <1>9 DEF MemoryInv, RefcountExact, Tracked
  <2>2. Mappings(f)' \in SUBSET (Procs \X Pages) /\ Mappings(f) \in SUBSET (Procs \X Pages)
    BY DEF Mappings
  <2>3. CASE f \in OwnFrames(p)
    <3>1. PICK v \in Pages \ Regions : pt[p][v] # NONE /\ pt[p][v].frame = f
      BY <2>3 DEF OwnFrames
    <3>2. ASSUME NEW u \in Pages, pt[p][u] # NONE, pt[p][u].frame = f
          PROVE  u = v
      <4>1. u \notin Regions
        <5>1. SUFFICES ASSUME u \in Regions PROVE FALSE
          OBVIOUS
        <5>2. f = shm[u] /\ shm[u] # NONE
          BY <3>2, <5>1 DEF MemoryInv, RegionEntries, Usual
        <5>. QED
          BY <5>1, <5>2, <1>9 DEF MemoryInv, RegionsApart
      <4>. QED
        BY <3>1, <3>2, <4>1 DEF MemoryInv, Alone
    <3>3. <<p, v>> \in Mappings(f)
      BY <3>1 DEF Mappings
    <3>4. ASSUME NEW q \in Procs, NEW u \in Pages
          PROVE  <<q, u>> \in Mappings(f)' <=> <<q, u>> \in Mappings(f) \ {<<p, v>>}
      <4>1. CASE q = p
        BY <4>1, <3>2, <1>3 DEF Mappings
      <4>2. CASE q # p
        BY <4>2, <1>4 DEF Mappings
      <4>. QED
        BY <4>1, <4>2
    <3>5. Mappings(f)' = Mappings(f) \ {<<p, v>>}
      <4>1. Mappings(f) \ {<<p, v>>} \in SUBSET (Procs \X Pages)
        BY <2>2
      <4>. QED
        BY <4>1, <2>2, <3>4, PairsDecide
    <3>6. Cardinality(Mappings(f) \ {<<p, v>>}) = Cardinality(Mappings(f)) - 1
      BY <3>3, MappingsFinite, FS_RemoveElement, Zenon
    <3>. QED
      BY <2>1, <2>3, <3>5, <3>6, <1>7, <1>9
  <2>4. CASE f \notin OwnFrames(p)
    <3>1. ASSUME NEW u \in Pages, pt[p][u] # NONE, pt[p][u].frame = f
          PROVE  FALSE
      <4>1. u \in Regions
        BY <3>1, <2>4 DEF OwnFrames
      <4>2. f = shm[u] /\ shm[u] # NONE
        BY <3>1, <4>1 DEF MemoryInv, RegionEntries, Usual
      <4>. QED
        BY <4>1, <4>2, <1>9 DEF MemoryInv, RegionsApart
    <3>2. ASSUME NEW q \in Procs, NEW u \in Pages
          PROVE  <<q, u>> \in Mappings(f)' <=> <<q, u>> \in Mappings(f)
      <4>1. CASE q = p
        BY <4>1, <3>1, <1>3 DEF Mappings
      <4>2. CASE q # p
        BY <4>2, <1>4 DEF Mappings
      <4>. QED
        BY <4>1, <4>2
    <3>3. Mappings(f)' = Mappings(f)
      BY <2>2, <3>2, PairsDecide, Zenon
    <3>. QED
      BY <2>1, <2>4, <3>3, <1>7
  <2>. QED
    BY <2>3, <2>4
<1>10. ASSUME NEW f \in Frames, cow[f] > 0
       PROVE  cow'[f] = 0 <=> Mappings(f)' = {}
  <2>1. IsFiniteSet(Mappings(f)')
    <3>1. IsFiniteSet(Mappings(f))
      BY MappingsFinite
    <3>2. Mappings(f)' \in SUBSET Mappings(f)
      BY <1>5 DEF Mappings
    <3>. QED
      BY <3>1, <3>2, FS_Subset
  <2>. QED
    BY <2>1, <1>9, <1>10, FS_EmptySet
\* Another mapping of a frame p maps: both are read-only and counted.
<1>11. ASSUME NEW f \in OwnFrames(p), NEW q \in Procs, NEW u \in Pages,
              pt'[q][u] # NONE, pt'[q][u].frame = f
       PROVE  cow[f] > 1
  <2>1. PICK v \in Pages \ Regions : pt[p][v] # NONE /\ pt[p][v].frame = f
    BY <1>11 DEF OwnFrames
  <2>2. q # p /\ pt[q][u] # NONE /\ pt[q][u].frame = f
    BY <1>5, <1>11
  <2>3. u \notin Regions
    <3>1. SUFFICES ASSUME u \in Regions PROVE FALSE
      OBVIOUS
    <3>2. f = shm[u] /\ f \in Frames
      BY <3>1, <2>2, <1>8 DEF MemoryInv, RegionEntries
    <3>3. f \in ShmFrames
      BY <3>1, <3>2 DEF ShmFrames, Usual
    <3>. QED
      BY <3>3, <1>8
  <2>4. ~pt[p][v].w
    BY <2>1, <2>2, <2>3 DEF MemoryInv, Alone
  <2>5. cow[f] > 0 /\ f \in Frames
    BY <2>1, <2>4, <1>8 DEF MemoryInv, PrivateEntries
  <2>6. <<q, u>> \in Mappings(f)'
    BY <1>11 DEF Mappings
  <2>7. cow'[f] # 0 /\ cow'[f] = cow[f] - 1 /\ cow[f] \in Nat
    BY <2>5, <2>6, <1>7, <1>10, <1>t DEF TypeOK
  <2>. QED
    BY <2>5, <2>7
<1>12. Tracked' \subseteq Tracked
  <2>1. cow \in [Frames -> Nat]
    BY <1>t DEF TypeOK
  <2>2. ASSUME NEW f \in Frames, cow'[f] > 0 PROVE cow[f] > 0
    <3>1. cow[f] \in Nat
      BY <2>1
    <3>. QED
      BY <3>1, <2>2, <1>7
  <2>. QED
    BY <2>2 DEF Tracked
<1>13. TypeOK'
  <2>1. Tracked \in SUBSET Frames /\ Tracked' \in SUBSET Tracked
    BY <1>12 DEF Tracked
  <2>2. IsFiniteSet(Tracked) /\ Cardinality(Tracked) \in Nat
        /\ IsFiniteSet(Tracked') /\ Cardinality(Tracked') \in Nat
    BY <2>1, <1>12, FrameFacts
  <2>3. Cardinality(Tracked') <= Cardinality(Tracked)
    BY <2>1, <2>2, FS_Subset
  <2>4. Cardinality(Tracked) <= COW_SLOTS
    BY <1>t DEF TypeOK, Tracked
  <2>5. Cardinality(Tracked') <= COW_SLOTS
    BY <2>2, <2>3, <2>4, MemoryAssumption DEF MemoryAssumption
  <2>6. free' \subseteq Frames
    BY <1>t, <1>2, <1>8 DEF TypeOK
  <2>7. pt' \in [Procs -> [Pages -> Entries \cup {NONE}]]
    BY <1>t, <1>1 DEF TypeOK, NoPages
  <2>. QED
    BY <1>t, <1>1, <1>7, <2>5, <2>6, <2>7 DEF TypeOK, Tracked
<1>14. DeadMapNothing'
  <2> SUFFICES ASSUME NEW q \in Procs, ~live'[q] PROVE pt'[q] = NoPages
    BY DEF DeadMapNothing, NoPages
  <2>1. CASE q = p
    BY <2>1, <1>1, <1>t DEF TypeOK
  <2>2. CASE q # p
    <3>1. pt'[q] = pt[q] /\ ~live[q]
      BY <2>2, <1>1, <1>t DEF TypeOK
    <3>. QED
      BY <3>1 DEF MemoryInv, DeadMapNothing
  <2>. QED
    BY <2>1, <2>2
<1>15. FreeUnused'
  <2>1. ASSUME NEW f \in free' PROVE cow'[f] = 0 /\ f \notin ShmFrames'
    <3>1. CASE f \in free
      <4>1. f \in Frames /\ cow[f] = 0 /\ f \notin ShmFrames
        BY <3>1, <1>t DEF TypeOK, MemoryInv, FreeUnused
      <4>. QED
        BY <4>1, <1>6, <1>7
    <3>2. CASE f \in OwnFrames(p) /\ cow[f] <= 1
      <4>1. f \in Frames /\ f \notin ShmFrames
        BY <3>2, <1>8
      <4>2. cow[f] \in Nat
        BY <4>1, <1>t DEF TypeOK
      <4>. QED
        BY <3>2, <4>1, <4>2, <1>6, <1>7
    <3>. QED
      BY <3>1, <3>2, <1>2
  <2>2. ASSUME NEW q \in Procs, NEW u \in Pages, pt'[q][u] # NONE,
               pt'[q][u].frame \in free'
        PROVE  FALSE
    <3>1. pt'[q][u].frame \notin free
      BY <2>2, <1>5 DEF MemoryInv, FreeUnused
    <3>2. pt'[q][u].frame \in OwnFrames(p) /\ cow[pt'[q][u].frame] <= 1
      BY <2>2, <3>1, <1>2
    <3>3. cow[pt'[q][u].frame] > 1 /\ cow[pt'[q][u].frame] \in Nat
      BY <2>2, <3>2, <1>8, <1>11, <1>t DEF TypeOK
    <3>. QED
      BY <3>2, <3>3
  <2>. QED
    BY <2>1, <2>2 DEF FreeUnused
<1>16. RegionEntries'
  <2> SUFFICES ASSUME NEW q \in Procs, NEW s \in Regions, pt'[q][s] # NONE
               PROVE  pt'[q][s].frame = shm[s] /\ pt'[q][s].w /\ ~pt'[q][s].nx
    BY <1>1 DEF RegionEntries
  <2>1. pt'[q][s] = pt[q][s]
    BY <1>5, PageFacts
  <2>. QED
    BY <2>1 DEF MemoryInv, RegionEntries
<1>17. RegionsApart'
  <2>1. \A s \in Regions : shm[s] # NONE => cow'[shm[s]] = 0
    <3> TAKE s \in Regions
    <3> HAVE shm[s] # NONE
    <3>1. shm[s] \in Frames /\ cow[shm[s]] = 0
      BY <1>t, ZenonT(30) DEF TypeOK, MemoryInv, RegionsApart
    <3>. QED
      BY <3>1, <1>7
  <2>. QED
    BY <2>1, <1>1 DEF MemoryInv, RegionsApart
<1>18. PrivateEntries'
  <2> SUFFICES ASSUME NEW q \in Procs, NEW u \in Pages \ Regions, pt'[q][u] # NONE
               PROVE  /\ pt'[q][u].frame \notin ShmFrames
                      /\ pt'[q][u].w => cow'[pt'[q][u].frame] = 0
                      /\ ~pt'[q][u].w => cow'[pt'[q][u].frame] > 0 /\ u \in ForkPages
                      /\ pt'[q][u].nx => u \in StackPages \cup ThreadPages
    BY <1>6 DEF PrivateEntries
  <2>0. PICK f : f = pt'[q][u].frame
    OBVIOUS
  <2>1. /\ pt'[q][u] = pt[q][u]
        /\ f \notin ShmFrames
        /\ pt'[q][u].w => cow[f] = 0
        /\ ~pt'[q][u].w => cow[f] > 0 /\ u \in ForkPages
        /\ pt'[q][u].nx => u \in StackPages \cup ThreadPages
    BY <2>0, <1>5 DEF MemoryInv, PrivateEntries
  <2>2. f \in Frames
    BY <2>0, <2>1, <1>t DEF TypeOK, Entries
  <2>3. <<q, u>> \in Mappings(f)'
    BY <2>0 DEF Mappings
  <2>4. cow[f] > 0 => cow'[f] # 0 /\ cow'[f] \in Nat
    BY <2>2, <2>3, <1>7, <1>10
  <2>5. cow[f] = 0 => cow'[f] = 0
    BY <2>2, <1>7
  <2>6. cow[f] > 0 => cow'[f] > 0
    BY ONLY <2>4
  <2>. QED
    BY <2>0, <2>1, <2>5, <2>6
<1>19. Alone'
  BY <1>5 DEF MemoryInv, Alone
<1>20. RefcountExact'
  <2> SUFFICES ASSUME NEW f \in Tracked' PROVE cow'[f] = Cardinality(Mappings(f)')
    BY DEF RefcountExact
  <2>1. f \in Frames /\ cow[f] > 0
    BY <1>12 DEF Tracked
  <2>. QED
    BY <2>1, <1>9
<1>21. NothingLeaks'
  <2> SUFFICES ASSUME NEW f \in Frames \ free', f \notin ShmFrames \cup leaked
               PROVE  Mappings(f)' # {}
    BY <1>1, <1>6 DEF NothingLeaks
  <2>1. cow[f] \in Nat
    BY <1>t DEF TypeOK
  <2>2. CASE f \in OwnFrames(p)
    <3>1. cow[f] > 1
      BY <2>1, <2>2, <1>2
    <3>2. cow'[f] = cow[f] - 1 /\ cow[f] > 0
      BY <2>1, <2>2, <3>1, <1>7
    <3>. QED
      BY <2>1, <3>1, <3>2, <1>10
  <2>3. CASE f \notin OwnFrames(p)
    <3>1. f \notin free
      BY <1>2
    <3>2. PICK m \in Mappings(f) : TRUE
      BY <3>1 DEF MemoryInv, NothingLeaks
    <3>3. /\ m \in Procs \X Pages /\ m[1] \in Procs /\ m[2] \in Pages
          /\ pt[m[1]][m[2]] # NONE /\ pt[m[1]][m[2]].frame = f
      BY <3>2 DEF Mappings
    <3>4. m[1] # p
      <4>1. SUFFICES ASSUME m[1] = p PROVE FALSE
        OBVIOUS
      <4>2. m[2] \in Regions
        BY <4>1, <3>3, <2>3 DEF OwnFrames
      <4>3. f = shm[m[2]]
        BY <4>2, <3>3 DEF MemoryInv, RegionEntries
      <4>. QED
        BY <4>2, <4>3 DEF ShmFrames, Usual
    <3>5. m \in Mappings(f)'
      BY <3>3, <3>4, <1>4 DEF Mappings
    <3>. QED
      BY <3>5
  <2>. QED
    BY <2>2, <2>3
<1>. QED
  BY <1>13, <1>14, <1>15, <1>16, <1>17, <1>18, <1>19, <1>20, <1>21 DEF MemoryInv

-----------------------------------------------------------------------------
(***************************************************************************)
(* A walk that finds room for every page it shares takes no more slots     *)
(* than are left: the last of the untracked pages has all the others below *)
(* it.                                                                     *)
(***************************************************************************)
LEMMA SlotsSuffice ==
  ASSUME Usual, TypeOK, NEW p \in Procs, \A v \in Pages : ~Overflows(p, v)
  PROVE  Cardinality(Tracked \cup {pt[p][v].frame : v \in Mapped(p)}) <= COW_SLOTS
<1> DEFINE U == {w \in Mapped(p) : pt[p][w].frame \notin Tracked}
           G == [v \in U |-> pt[p][v].frame]
           T == {G[v] : v \in U}
<1>1. U \in SUBSET Pages
  BY ZenonT(30) DEF Mapped
<1>2. IsFiniteSet(U) /\ Cardinality(U) \in Nat /\ U \subseteq Nat
  <2>1. IsFiniteSet(U)
    BY <1>1, FS_Subset DEF Usual
  <2>2. U \subseteq Nat
    BY <1>1, MemoryAssumption, Zenon DEF MemoryAssumption
  <2>. QED
    BY <2>1, <2>2, FS_CardinalityType, ZenonT(30)
<1>3. /\ Tracked \in SUBSET Frames /\ IsFiniteSet(Tracked)
      /\ Cardinality(Tracked) \in Nat /\ COW_SLOTS \in Nat
      /\ Cardinality(Tracked) <= COW_SLOTS
  <2>1. Tracked \in SUBSET Frames
    BY DEF Tracked
  <2>2. IsFiniteSet(Tracked) /\ Cardinality(Tracked) \in Nat
    BY <2>1, FrameFacts
  <2>3. Cardinality(Tracked) <= COW_SLOTS
    BY DEF TypeOK, Tracked
  <2>. QED
    BY <2>1, <2>2, <2>3, MemoryAssumption DEF MemoryAssumption
<1>4. Cardinality(U) <= COW_SLOTS - Cardinality(Tracked)
  <2>1. CASE U = {}
    <3>1. Cardinality(U) = 0
      BY <2>1, FS_EmptySet, ZenonT(30)
    <3> HIDE DEF U
    <3>. QED
      BY <3>1, <1>3
  <2>2. CASE U # {}
    <3>1. PICK m \in U : \A x \in U : x <= m
      BY <2>2, <1>2, GreatestElement, Zenon
    <3> DEFINE B == {w \in U : w < m}
    <3>2. B = U \ {m}
      <4>1. ASSUME NEW x \in U PROVE x < m <=> x # m
        <5>1. x \in Nat /\ m \in Nat /\ x <= m
          BY <3>1, <1>2
        <5>. QED
          BY <5>1
      <4>. QED
        BY <4>1
    <3>3. Cardinality(B) = Cardinality(U) - 1
      <4> HIDE DEF U, B
      <4>. QED
        BY <3>1, <3>2, <1>2, FS_RemoveElement
    <3>4. ~Overflows(p, m) /\ m \in U
      BY <3>1, <1>1
    <3>5. ~(Below(U, m) >= COW_SLOTS - Cardinality(Tracked))
      BY <3>4 DEF Overflows
    <3>6. Below(U, m) = Cardinality(U) - 1
      BY <3>3 DEF Below
    <3>. QED
      BY <3>5, <3>6, <1>2, <1>3
  <2>. QED
    BY <2>1, <2>2
<1>5. IsFiniteSet(T) /\ Cardinality(T) <= Cardinality(U) /\ Cardinality(T) \in Nat
  <2> HIDE DEF U
  <2>1. G \in Surjection(U, T)
    BY DEF Surjection
  <2>2. IsFiniteSet(T) /\ Cardinality(T) <= Cardinality(U)
    BY <2>1, <1>2, FS_Surjection
  <2>. QED
    BY <2>2, FS_CardinalityType
<1>6. Tracked \cup {pt[p][v].frame : v \in Mapped(p)} = Tracked \cup T
  <2>1. ASSUME NEW v \in Mapped(p) PROVE pt[p][v].frame \in Tracked \cup T
    <3>1. CASE pt[p][v].frame \in Tracked
      BY <3>1, ZenonT(30)
    <3>2. CASE pt[p][v].frame \notin Tracked
      <4>1. v \in U /\ G[v] = pt[p][v].frame
        BY <3>2, ZenonT(30)
      <4>. QED
        BY <4>1
    <3>. QED
      BY <3>1, <3>2, ZenonT(30)
  <2>2. ASSUME NEW f \in T PROVE f \in {pt[p][v].frame : v \in Mapped(p)}
    <3>1. PICK v \in U : f = G[v]
      OBVIOUS
    <3>. QED
      BY <3>1
  <2>. QED
    BY <2>1, <2>2, Zenon
<1>7. /\ Cardinality(Tracked \cup T) =
           Cardinality(Tracked) + Cardinality(T) - Cardinality(Tracked \cap T)
      /\ Cardinality(Tracked \cap T) \in Nat
  <2>1. IsFiniteSet(Tracked \cap T)
    BY <1>3, FS_Intersection, Zenon
  <2>. QED
    BY <2>1, <1>3, <1>5, FS_Union, FS_CardinalityType, Zenon
<1>8. Cardinality(Tracked \cup T) <= COW_SLOTS
  <2> HIDE DEF T, U
  <2>. QED
    BY ONLY <1>2, <1>3, <1>4, <1>5, <1>7
<1>. QED
  BY <1>6, <1>8, Zenon

\* A fork with room in the table: parent and child map the same frames, all
\* read-only, each counted once more.
LEMMA ForkEffect ==
  ASSUME Usual, MemoryInv, RoomToTrack, NEW p \in Procs, NEW c \in Procs,
         NEW full \in TaskTableFull, Fork(p, c, full)
  PROVE  /\ p # c /\ live[p] /\ ~live[c]
         /\ Mapped(p) \subseteq Pages \ Regions
         /\ Mapped(p) \subseteq ForkPages
         /\ \A v \in Pages : ~Overflows(p, v)
         /\ pt' = [pt EXCEPT
                     ![p] = [v \in Pages |-> IF v \in Mapped(p) THEN ReadOnly(pt[p][v]) ELSE NONE],
                     ![c] = [v \in Pages |-> IF v \in Mapped(p) THEN ReadOnly(pt[p][v]) ELSE NONE]]
         /\ cow' = [f \in Frames |->
                      IF f \in OwnFrames(p) THEN IF cow[f] = 0 THEN 2 ELSE cow[f] + 1
                      ELSE cow[f]]
         /\ live' = [live EXCEPT ![c] = TRUE]
         /\ UNCHANGED <<free, content, shm, halted, leaked>>
<1>1. live[p] /\ ~live[c] /\ p # c /\ Mapped(p) \subseteq ForkPages
  BY DEF Fork
<1>2. \A v \in Pages : ~Overflows(p, v)
  BY <1>1 DEF RoomToTrack
<1>3. ~full
  BY MemoryAssumption, Zenon DEF MemoryAssumption, Usual
<1>4. Mapped(p) \subseteq Pages
  BY DEF Mapped
<1>5. Mapped(p) \subseteq Pages \ Regions
  BY <1>1, <1>4 DEF Usual
<1>6. Visited(p) = Mapped(p)
  BY <1>2, <1>4 DEF Visited
<1>7. \A f \in Frames : f \in OwnFrames(p)
                          <=> \E v \in Visited(p) : pt[p][v].frame = f /\ ~Overflows(p, v)
  <2> TAKE f \in Frames
  <2>1. f \in OwnFrames(p) <=> \E v \in Pages \ Regions : pt[p][v] # NONE /\ pt[p][v].frame = f
    BY DEF OwnFrames
  <2>2. \A v \in Pages \ Regions : pt[p][v] # NONE <=> v \in Mapped(p)
    BY DEF Mapped
  <2>. QED
    BY <2>1, <2>2, <1>2, <1>5, <1>6
<1>8. cow' = [f \in Frames |->
                IF f \in OwnFrames(p) THEN IF cow[f] = 0 THEN 2 ELSE cow[f] + 1
                ELSE cow[f]]
  <2>1. cow' = CowTrack(p, cow)
    BY <1>2, <1>3, ZenonT(30) DEF Fork
  <2>. QED
    BY <2>1, <1>7 DEF CowTrack
<1>9. pt' = [pt EXCEPT
               ![p] = [v \in Pages |-> IF v \in Mapped(p) THEN ReadOnly(pt[p][v]) ELSE NONE],
               ![c] = [v \in Pages |-> IF v \in Mapped(p) THEN ReadOnly(pt[p][v]) ELSE NONE]]
  BY <1>2, <1>3, <1>6 DEF Fork, ForkEntry
<1>10. live' = [live EXCEPT ![c] = TRUE] /\ UNCHANGED <<free, content, shm, halted, leaked>>
  BY <1>2, <1>3 DEF Fork
<1>. QED
  BY <1>1, <1>2, <1>5, <1>8, <1>9, <1>10

\* fork, with room in the table, keeps the invariant.
LEMMA ForkInv ==
  ASSUME Usual, MemoryInv, RoomToTrack, NEW p \in Procs, NEW c \in Procs,
         NEW full \in TaskTableFull, Fork(p, c, full)
  PROVE  MemoryInv'
<1> DEFINE child == [v \in Pages |-> IF v \in Mapped(p) THEN ReadOnly(pt[p][v]) ELSE NONE]
<1>t. TypeOK
  BY DEF MemoryInv
<1>1. /\ p # c /\ live[p] /\ ~live[c]
      /\ Mapped(p) \subseteq Pages \ Regions
      /\ Mapped(p) \subseteq ForkPages
      /\ \A v \in Pages : ~Overflows(p, v)
      /\ live' = [live EXCEPT ![c] = TRUE]
      /\ UNCHANGED <<free, content, shm, halted, leaked>>
  BY ForkEffect
<1>2. pt' = [pt EXCEPT ![p] = child, ![c] = child]
  BY ForkEffect
<1>3. cow' = [f \in Frames |->
                IF f \in OwnFrames(p) THEN IF cow[f] = 0 THEN 2 ELSE cow[f] + 1
                ELSE cow[f]]
  BY ForkEffect, ZenonT(30)
<1>4. \A v \in Pages : pt[c][v] = NONE
  BY <1>1 DEF MemoryInv, DeadMapNothing, NoPages
<1>5. \A v \in Mapped(p) : /\ v \in Pages /\ pt[p][v] \in Entries /\ pt[p][v] # NONE
                           /\ pt[p][v].frame \in Frames
                           /\ pt[p][v].frame \in OwnFrames(p)
  <2> TAKE v \in Mapped(p)
  <2>1. v \in Pages \ Regions /\ pt[p][v] # NONE
    BY <1>1 DEF Mapped
  <2>2. pt[p][v] \in Entries /\ pt[p][v].frame \in Frames
    BY <2>1, <1>t, SMTT(30) DEF TypeOK, Entries
  <2>. QED
    BY <2>1, <2>2 DEF OwnFrames
<1>6. \A v \in Mapped(p) : /\ child[v] \in Entries /\ child[v] # NONE
                           /\ child[v].frame = pt[p][v].frame
                           /\ child[v].w = FALSE
                           /\ child[v].nx = pt[p][v].nx
  <2> TAKE v \in Mapped(p)
  <2>1. child[v] = [pt[p][v] EXCEPT !.w = FALSE]
    BY <1>5 DEF ReadOnly
  <2>2. child[v] \in Entries /\ child[v].frame = pt[p][v].frame
        /\ child[v].w = FALSE /\ child[v].nx = pt[p][v].nx
    <3> HIDE DEF child
    <3>. QED
      BY <2>1, <1>5, Zenon DEF Entries
  <2>. QED
    BY <2>2, ZenonT(30) DEF Usual
<1>7. \A v \in Pages : v \notin Mapped(p) => child[v] = NONE
  OBVIOUS
<1>8. child \in [Pages -> Entries \cup {NONE}]
  <2>1. \A v \in Pages : child[v] \in Entries \cup {NONE}
    BY <1>6, <1>7, Zenon
  <2>. QED
    BY <2>1
<1> HIDE DEF child
<1>9. /\ pt' \in [Procs -> [Pages -> Entries \cup {NONE}]]
      /\ pt'[p] = child /\ pt'[c] = child
      /\ \A q \in Procs : q # p /\ q # c => pt'[q] = pt[q]
  <2>1. pt \in [Procs -> [Pages -> Entries \cup {NONE}]]
    BY <1>t DEF TypeOK
  <2>. QED
    BY <2>1, <1>1, <1>2, <1>8
<1>10. /\ cow' \in [Frames -> Nat]
       /\ \A f \in Frames : f \in OwnFrames(p) => cow'[f] = IF cow[f] = 0 THEN 2 ELSE cow[f] + 1
       /\ \A f \in Frames : f \notin OwnFrames(p) => cow'[f] = cow[f]
       /\ \A f \in Frames : f \in OwnFrames(p) \/ cow[f] > 0 => cow'[f] > 0
  <2>1. cow \in [Frames -> Nat]
    BY <1>t DEF TypeOK
  <2>. QED
    BY ONLY <2>1, <1>3
<1>11. \A f \in OwnFrames(p) : f \in Frames /\ f \notin ShmFrames /\ f \notin free
  BY ZenonT(30) DEF OwnFrames, MemoryInv, PrivateEntries, FreeUnused
<1>12. ShmFrames' = ShmFrames
  BY <1>1 DEF ShmFrames
\* The entries after the fork, by the entry each of them comes from.
<1>13. ASSUME NEW q \in Procs, NEW v \in Pages, pt'[q][v] # NONE
       PROVE  \/ /\ q \in {p, c} /\ v \in Mapped(p)
                 /\ pt'[q][v].frame = pt[p][v].frame
                 /\ pt'[q][v].w = FALSE
                 /\ pt'[q][v].nx = pt[p][v].nx
              \/ q \notin {p, c} /\ pt'[q][v] = pt[q][v]
  <2>1. CASE q \in {p, c}
    <3>1. pt'[q] = child /\ v \in Mapped(p)
      BY <2>1, <1>9, <1>7, <1>13
    <3>. QED
      BY <2>1, <3>1, <1>6
  <2>2. CASE q \notin {p, c}
    BY <2>2, <1>9
  <2>. QED
    BY <2>1, <2>2, ZenonT(30)
<1>14. \A q \in Procs, v \in Pages :
         pt[q][v] # NONE => pt'[q][v] # NONE /\ pt'[q][v].frame = pt[q][v].frame
  <2> TAKE q \in Procs, v \in Pages
  <2> HAVE pt[q][v] # NONE
  <2>1. CASE q = p
    <3>1. v \in Mapped(p)
      BY <2>1 DEF Mapped
    <3>. QED
      BY <2>1, <3>1, <1>6, <1>9
  <2>2. CASE q = c
    BY <2>2, <1>4
  <2>3. CASE q # p /\ q # c
    BY <2>3, <1>9
  <2>. QED
    BY <2>1, <2>2, <2>3
<1>15. TypeOK'
  <2>1. Tracked' \subseteq Tracked \cup {pt[p][v].frame : v \in Mapped(p)}
    <3> SUFFICES ASSUME NEW f \in Frames, cow'[f] > 0, ~(cow[f] > 0)
                 PROVE  f \in {pt[p][v].frame : v \in Mapped(p)}
      BY DEF Tracked
    <3>1. f \in OwnFrames(p)
      BY <1>10
    <3>2. PICK v \in Pages \ Regions : pt[p][v] # NONE /\ pt[p][v].frame = f
      BY <3>1 DEF OwnFrames
    <3>. QED
      BY <3>2 DEF Mapped
  <2>2. Tracked \cup {pt[p][v].frame : v \in Mapped(p)} \in SUBSET Frames
    BY <1>5 DEF Tracked
  <2>3. Cardinality(Tracked \cup {pt[p][v].frame : v \in Mapped(p)}) <= COW_SLOTS
    BY <1>1, <1>t, SlotsSuffice
  <2>4. IsFiniteSet(Tracked \cup {pt[p][v].frame : v \in Mapped(p)})
        /\ Cardinality(Tracked \cup {pt[p][v].frame : v \in Mapped(p)}) \in Nat
    BY <2>2, FrameFacts
  <2>5. Cardinality(Tracked') <= Cardinality(Tracked \cup {pt[p][v].frame : v \in Mapped(p)})
        /\ IsFiniteSet(Tracked')
    BY <2>1, <2>4, FS_Subset
  <2>6. Cardinality(Tracked') \in Nat
    BY <2>5, FS_CardinalityType, ZenonT(30)
  <2>7. Cardinality(Tracked') <= COW_SLOTS
    BY <2>3, <2>4, <2>5, <2>6, MemoryAssumption DEF MemoryAssumption
  <2>8. live' \in [Procs -> BOOLEAN]
    BY <1>t, <1>1, ZenonT(30) DEF TypeOK
  <2>. QED
    BY <1>t, <1>1, <1>9, <1>10, <2>7, <2>8 DEF TypeOK, Tracked
<1>16. DeadMapNothing'
  <2> SUFFICES ASSUME NEW q \in Procs, ~live'[q] PROVE pt'[q] = NoPages
    BY DEF DeadMapNothing, NoPages
  <2>1. q # c /\ q # p /\ ~live[q]
    BY <1>1, <1>t, ZenonT(30) DEF TypeOK
  <2>. QED
    BY <2>1, <1>9 DEF MemoryInv, DeadMapNothing
<1>17. FreeUnused'
  <2>1. ASSUME NEW f \in free PROVE cow'[f] = 0 /\ f \notin ShmFrames
    <3>1. f \in Frames /\ f \notin OwnFrames(p)
      BY <1>11, <1>t DEF TypeOK
    <3>. QED
      BY <3>1, <1>10 DEF MemoryInv, FreeUnused
  <2>2. ASSUME NEW q \in Procs, NEW v \in Pages, pt'[q][v] # NONE
        PROVE  pt'[q][v].frame \notin free
    <3>1. CASE q \in {p, c}
      <4>1. v \in Mapped(p) /\ pt'[q][v].frame = pt[p][v].frame
        BY <2>2, <3>1, <1>13, Zenon
      <4>. QED
        BY <4>1, <1>5, <1>11
    <3>2. CASE q \notin {p, c}
      <4>1. pt'[q][v] = pt[q][v]
        BY <2>2, <3>2, <1>13, ZenonT(30)
      <4>. QED
        BY <4>1, <2>2 DEF MemoryInv, FreeUnused
    <3>. QED
      BY <3>1, <3>2
  <2>. QED
    BY <2>1, <2>2, <1>1, <1>12 DEF FreeUnused
<1>18. RegionEntries'
  <2> SUFFICES ASSUME NEW q \in Procs, NEW s \in Regions, pt'[q][s] # NONE
               PROVE  pt'[q][s].frame = shm[s] /\ pt'[q][s].w /\ ~pt'[q][s].nx
    BY <1>1, Zenon DEF RegionEntries
  <2>1. pt'[q][s] = pt[q][s]
    BY <1>1, <1>13, PageFacts, ZenonT(30)
  <2>. QED
    BY <2>1 DEF MemoryInv, RegionEntries
<1>19. RegionsApart'
  <2>1. \A s \in Regions : shm[s] # NONE => cow'[shm[s]] = 0
    <3> TAKE s \in Regions
    <3> HAVE shm[s] # NONE
    <3>1. shm[s] \in Frames /\ cow[shm[s]] = 0 /\ shm[s] \in ShmFrames
      BY <1>t DEF TypeOK, MemoryInv, RegionsApart, ShmFrames
    <3>. QED
      BY <3>1, <1>10, <1>11
  <2>. QED
    BY <2>1, <1>1, ZenonT(30) DEF MemoryInv, RegionsApart
<1>20. PrivateEntries'
  <2> SUFFICES ASSUME NEW q \in Procs, NEW u \in Pages \ Regions, pt'[q][u] # NONE
               PROVE  /\ pt'[q][u].frame \notin ShmFrames
                      /\ pt'[q][u].w => cow'[pt'[q][u].frame] = 0
                      /\ ~pt'[q][u].w => cow'[pt'[q][u].frame] > 0 /\ u \in ForkPages
                      /\ pt'[q][u].nx => u \in StackPages \cup ThreadPages
    BY <1>12 DEF PrivateEntries
  <2>1. CASE q \in {p, c}
    <3>1. /\ u \in Mapped(p)
          /\ pt'[q][u].frame = pt[p][u].frame
          /\ pt'[q][u].w = FALSE
          /\ pt'[q][u].nx = pt[p][u].nx
      BY <2>1, <1>13, Zenon
    <3>2. /\ pt[p][u].frame \in OwnFrames(p) /\ pt[p][u].frame \in Frames
          /\ pt[p][u] # NONE /\ u \in ForkPages
      BY <3>1, <1>1, <1>5, Zenon
    <3>3. cow'[pt[p][u].frame] > 0 /\ pt[p][u].frame \notin ShmFrames
      BY <3>2, <1>10, <1>11, ZenonT(30)
    <3>4. pt[p][u].nx => u \in StackPages \cup ThreadPages
      BY <3>2, ZenonT(30) DEF MemoryInv, PrivateEntries
    <3>. QED
      BY <3>1, <3>2, <3>3, <3>4, Zenon
  <2>2. CASE q \notin {p, c}
    <3>0. PICK f : f = pt[q][u].frame
      OBVIOUS
    <3>1. /\ pt'[q][u] = pt[q][u]
          /\ f \notin ShmFrames
          /\ pt[q][u].w => cow[f] = 0
          /\ ~pt[q][u].w => cow[f] > 0 /\ u \in ForkPages
          /\ pt[q][u].nx => u \in StackPages \cup ThreadPages
      BY <3>0, <2>2, <1>13, ZenonT(30) DEF MemoryInv, PrivateEntries
    <3>2. f \in Frames
      BY <3>0, <3>1, <1>t, SMTT(30) DEF TypeOK, Entries
    <3>3. pt[q][u].w => f \notin OwnFrames(p)
      <4>1. SUFFICES ASSUME pt[q][u].w, f \in OwnFrames(p) PROVE FALSE
        BY Zenon
      <4>2. PICK v \in Pages \ Regions : pt[p][v] # NONE /\ pt[p][v].frame = f
        BY <4>1, ZenonT(30) DEF OwnFrames
      <4>3. Alone /\ pt[q][u] # NONE /\ pt[q][u].frame = f /\ q # p
        BY <3>0, <3>1, <2>2, ZenonT(30) DEF MemoryInv
      <4>. QED
        BY ONLY <4>1, <4>2, <4>3, q \in Procs, p \in Procs, u \in Pages \ Regions DEF Alone
    <3>4. pt[q][u].w => cow'[f] = 0
      BY <3>1, <3>2, <3>3, <1>10, ZenonT(30)
    <3>5. ~pt[q][u].w => cow'[f] > 0
      BY <3>1, <3>2, <1>10
    <3>. QED
      BY <3>0, <3>1, <3>4, <3>5
  <2>. QED
    BY <2>1, <2>2, ZenonT(30)
<1>21. Alone'
  <2> SUFFICES ASSUME NEW q \in Procs, NEW s \in Procs,
                      NEW u \in Pages \ Regions, NEW w \in Pages \ Regions,
                      pt'[q][u] # NONE, pt'[s][w] # NONE,
                      pt'[q][u].frame = pt'[s][w].frame
               PROVE  \/ q = s /\ u = w
                      \/ q # s /\ ~pt'[q][u].w /\ ~pt'[s][w].w
    BY DEF Alone
  <2>1. q \in {p, c} => /\ pt[p][u] # NONE /\ pt'[q][u].frame = pt[p][u].frame
                        /\ pt'[q][u].w = FALSE
    BY <1>5, <1>13, Zenon
  <2>2. s \in {p, c} => /\ pt[p][w] # NONE /\ pt'[s][w].frame = pt[p][w].frame
                        /\ pt'[s][w].w = FALSE
    BY <1>5, <1>13, Zenon
  <2>3. q \notin {p, c} => pt'[q][u] = pt[q][u]
    BY <1>13, Zenon
  <2>4. s \notin {p, c} => pt'[s][w] = pt[s][w]
    BY <1>13, ZenonT(30)
  <2>5. CASE q \in {p, c} /\ s \in {p, c}
    <3>1. u = w
      BY <2>1, <2>2, <2>5, ZenonT(30) DEF MemoryInv, Alone
    <3>. QED
      BY <3>1, <2>1, <2>2, <2>5, ZenonT(30)
  <2>6. CASE q \in {p, c} /\ s \notin {p, c}
    <3>1. ~pt[s][w].w
      BY <2>1, <2>4, <2>6, SMTT(30) DEF MemoryInv, Alone
    <3>. QED
      BY <3>1, <2>1, <2>4, <2>6, ZenonT(30)
  <2>7. CASE q \notin {p, c} /\ s \in {p, c}
    <3>1. ~pt[q][u].w
      BY <2>2, <2>3, <2>7, SMTT(30) DEF MemoryInv, Alone
    <3>. QED
      BY <3>1, <2>2, <2>3, <2>7, ZenonT(30)
  <2>8. CASE q \notin {p, c} /\ s \notin {p, c}
    BY <2>3, <2>4, <2>8 DEF MemoryInv, Alone
  <2>. QED
    BY <2>5, <2>6, <2>7, <2>8
<1>22. RefcountExact'
  <2> SUFFICES ASSUME NEW f \in Tracked' PROVE cow'[f] = Cardinality(Mappings(f)')
    BY DEF RefcountExact
  <2>f. f \in Frames /\ cow'[f] > 0 /\ cow[f] \in Nat
    BY <1>t DEF Tracked, TypeOK
  <2>s. Mappings(f)' \in SUBSET (Procs \X Pages) /\ Mappings(f) \in SUBSET (Procs \X Pages)
    BY DEF Mappings
  <2>1. CASE f \in OwnFrames(p)
    <3>1. PICK v \in Pages \ Regions : pt[p][v] # NONE /\ pt[p][v].frame = f
      BY <2>1 DEF OwnFrames
    <3>v. v \in Mapped(p)
      BY <3>1, ZenonT(30) DEF Mapped
    <3>2. ASSUME NEW u \in Mapped(p), pt[p][u].frame = f
          PROVE  u = v
      BY <3>1, <3>2, <1>1, <1>5 DEF MemoryInv, Alone
    <3>3. ASSUME NEW q \in Procs, NEW u \in Pages
          PROVE  <<q, u>> \in Mappings(f)' <=> <<q, u>> \in Mappings(f) \cup {<<c, v>>}
      <4>1. CASE q = c
        <5>1. pt'[c][u] # NONE /\ pt'[c][u].frame = f <=> u = v
          BY <3>1, <3>v, <3>2, <1>5, <1>6, <1>7, <1>9, ZenonT(30)
        <5>2. <<c, u>> \notin Mappings(f)
          BY <1>4, ZenonT(30) DEF Mappings
        <5>. QED
          BY <4>1, <5>1, <5>2 DEF Mappings
      <4>2. CASE q = p
        <5>1. pt'[p][u] # NONE /\ pt'[p][u].frame = f
                <=> pt[p][u] # NONE /\ pt[p][u].frame = f
          BY <1>5, <1>6, <1>7, <1>9, ZenonT(30) DEF Mapped
        <5>. QED
          BY <4>2, <5>1, <1>1, ZenonT(30) DEF Mappings
      <4>3. CASE q # c /\ q # p
        BY <4>3, <1>9 DEF Mappings
      <4>. QED
        BY <4>1, <4>2, <4>3, ZenonT(30)
    <3>4. Mappings(f)' = Mappings(f) \cup {<<c, v>>}
      <4>1. Mappings(f) \cup {<<c, v>>} \in SUBSET (Procs \X Pages)
        BY <2>s
      <4>. QED
        BY <4>1, <2>s, <3>3, PairsDecide
    <3>5. Cardinality(Mappings(f)') = Cardinality(Mappings(f)) + 1
      <4>1. <<c, v>> \notin Mappings(f)
        BY <1>4 DEF Mappings
      <4>. QED
        BY <3>4, <4>1, MappingsFinite, FS_AddElement, Zenon
    <3>6. CASE cow[f] = 0
      <4>1. pt[p][v].w
        BY <3>1, <3>6 DEF MemoryInv, PrivateEntries
      <4>2. ASSUME NEW q \in Procs, NEW u \in Pages
            PROVE  <<q, u>> \in Mappings(f) <=> <<q, u>> \in {<<p, v>>}
        <5>1. ASSUME <<q, u>> \in Mappings(f) PROVE q = p /\ u = v
          <6>1. pt[q][u] # NONE /\ pt[q][u].frame = f
            BY <5>1 DEF Mappings
          <6>2. u \notin Regions
            <7>1. SUFFICES ASSUME u \in Regions PROVE FALSE
              OBVIOUS
            <7>2. f = shm[u]
              BY <6>1, <7>1, ZenonT(30) DEF MemoryInv, RegionEntries
            <7>3. f \in ShmFrames
              BY <7>1, <7>2, <2>f, ZenonT(30) DEF ShmFrames, Usual
            <7>. QED
              BY <7>3, <2>1, <1>11
          <6>. QED
            BY <3>1, <4>1, <6>1, <6>2 DEF MemoryInv, Alone
        <5>2. <<p, v>> \in Mappings(f)
          BY <3>1 DEF Mappings
        <5>. QED
          BY <5>1, <5>2
      <4>3. Mappings(f) = {<<p, v>>}
        <5>1. {<<p, v>>} \in SUBSET (Procs \X Pages)
          OBVIOUS
        <5>. QED
          BY <5>1, <4>2, <2>s, PairsDecide
      <4>4. Cardinality(Mappings(f)) = 1
        BY <4>3, FS_Singleton, Zenon
      <4>. QED
        BY <4>4, <3>5, <3>6, <2>1, <2>f, <1>10, SMTT(30)
    <3>7. CASE cow[f] > 0
      <4>1. cow[f] = Cardinality(Mappings(f))
        BY <3>7, <2>f, ZenonT(30) DEF MemoryInv, RefcountExact, Tracked
      <4>. QED
        BY <4>1, <3>5, <3>7, <2>1, <2>f, <1>10
    <3>. QED
      BY <3>6, <3>7, <2>f
  <2>2. CASE f \notin OwnFrames(p)
    <3>1. cow[f] > 0 /\ cow'[f] = cow[f]
      BY <2>2, <2>f, <1>10
    <3>2. ASSUME NEW q \in Procs, NEW u \in Pages
          PROVE  <<q, u>> \in Mappings(f)' <=> <<q, u>> \in Mappings(f)
      <4>1. CASE q \in {p, c}
        <5>1. \A x \in Mapped(p) : pt[p][x].frame # f
          BY <2>2, <1>5
        <5>2. <<q, u>> \notin Mappings(f)
          BY <4>1, <5>1, <1>4, ZenonT(30) DEF Mappings, Mapped
        <5>3. <<q, u>> \notin Mappings(f)'
          BY <4>1, <5>1, <1>6, <1>7, <1>9, SMTT(30) DEF Mappings
        <5>. QED
          BY <5>2, <5>3
      <4>2. CASE q \notin {p, c}
        BY <4>2, <1>9 DEF Mappings
      <4>. QED
        BY <4>1, <4>2
    <3>3. Mappings(f)' = Mappings(f)
      BY <3>2, <2>s, PairsDecide
    <3>. QED
      BY <3>1, <3>3, <2>f DEF MemoryInv, RefcountExact, Tracked
  <2>. QED
    BY <2>1, <2>2
<1>23. NothingLeaks'
  <2> SUFFICES ASSUME NEW f \in Frames \ free, f \notin ShmFrames \cup leaked
               PROVE  Mappings(f)' # {}
    BY <1>1, <1>12 DEF NothingLeaks
  <2>1. Mappings(f) # {}
    BY DEF MemoryInv, NothingLeaks
  <2>2. Mappings(f) \subseteq Mappings(f)'
    BY <1>14 DEF Mappings
  <2>. QED
    BY <2>1, <2>2
<1>. QED
  BY <1>15, <1>16, <1>17, <1>18, <1>19, <1>20, <1>21, <1>22, <1>23 DEF MemoryInv

-----------------------------------------------------------------------------
\* A user write keeps the invariant, whether it goes through, is repaired or
\* halts the machine.
LEMMA UserWriteInv ==
  ASSUME Usual, MemoryInv, NEW p \in Procs, NEW v \in Pages, NEW x \in Values,
         UserWrite(p, v, x)
  PROVE  MemoryInv'
<1> DEFINE e == pt[p][v]
           new == NthFree(0)
<1>t. TypeOK /\ free \in SUBSET Frames
  BY DEF MemoryInv, TypeOK
<1>0. e # NONE /\ live[p] /\ e \in Entries /\ e.frame \in Frames
  <2>1. e # NONE /\ live[p]
    BY Zenon DEF UserWrite
  <2>2. e \in Entries \cup {NONE}
    BY ONLY <1>t, p \in Procs, v \in Pages DEF TypeOK
  <2>. QED
    BY ONLY <2>1, <2>2 DEF Entries
<1>1. CASE /\ content' = [content EXCEPT ![e.frame] = x]
           /\ UNCHANGED <<free, pt, cow, halted, leaked, live, shm>>
  <2>1. content' \in [Frames -> Values] /\ halted' \in BOOLEAN
    BY <1>1, <1>t, Zenon DEF TypeOK
  <2>. QED
    BY <1>1, <2>1, QuietInv
<1>2. CASE /\ ~e.w
           /\ cow[e.frame] > 0
           /\ free # {}
           /\ content' = [content EXCEPT ![new] = x]
           /\ pt' = [pt EXCEPT ![p][v] = [frame |-> new, w |-> TRUE, nx |-> FALSE]]
           /\ cow' = [cow EXCEPT ![e.frame] = @ - 1]
           /\ free' = (free \ {new}) \cup RepairFrees(e.frame)
           /\ UNCHANGED <<halted, live, shm, leaked>>
  <2>1. new \in free
    BY <1>2, <1>t, FirstFree
  <2>2. content' \in [Frames -> Values]
    BY <1>2, <1>t, Zenon DEF TypeOK
  <2>3. Repaired(p, v, e.frame, new)
    BY <1>2 DEF Repaired
  <2> HIDE DEF new
  <2>. QED
    BY <1>0, <1>2, <2>1, <2>2, <2>3, RepairInv, Zenon
<1>3. CASE halted' = TRUE /\ UNCHANGED <<free, content, pt, cow, live, shm, leaked>>
  <2>1. content' \in [Frames -> Values] /\ halted' \in BOOLEAN
    BY <1>3, <1>t DEF TypeOK
  <2>. QED
    BY <1>3, <2>1, QuietInv
<1>. QED
  BY <1>1, <1>2, <1>3, Zenon DEF UserWrite

\* Every step keeps the invariant.
LEMMA MemoryStep ==
  ASSUME Usual, MemoryInv, RoomToTrack, [Next]_vars
  PROVE  MemoryInv'
<1>1. ASSUME NEW p \in Procs, Spawn(p) PROVE MemoryInv'
  BY <1>1, SpawnInv
<1>2. ASSUME NEW p \in Procs, NEW v \in ThreadPages, ThreadCreate(p, v) PROVE MemoryInv'
  BY <1>2, ThreadCreateInv
<1>3. ASSUME NEW r \in Regions, AllocSharedMemory(r) PROVE MemoryInv'
  BY <1>3, AllocSharedMemoryInv
<1>4. ASSUME NEW p \in Procs, NEW r \in Regions, SharedMemoryMap(p, r) PROVE MemoryInv'
  BY <1>4, SharedMemoryMapInv
<1>5. ASSUME NEW p \in Procs, NEW c \in Procs, NEW full \in TaskTableFull, Fork(p, c, full)
      PROVE  MemoryInv'
  BY <1>5, ForkInv
<1>6. ASSUME NEW p \in Procs, Exit(p) PROVE MemoryInv'
  BY <1>6, ExitInv
<1>7. ASSUME NEW p \in Procs, NEW v \in Pages, NEW x \in Values, UserWrite(p, v, x)
      PROVE  MemoryInv'
  BY <1>7, UserWriteInv, ZenonT(30)
<1>8. ASSUME NEW p \in Procs, NEW v \in CopyOutPages, NEW x \in Values, KernelWrite(p, v, x)
      PROVE  MemoryInv'
  <2>1. content' \in [Frames -> Values] /\ halted' \in BOOLEAN
    BY <1>8, Zenon DEF MemoryInv, TypeOK, KernelWrite
  <2>. QED
    BY <1>8, <2>1, QuietInv DEF KernelWrite
<1>9. CASE UNCHANGED vars
  <2>1. content' \in [Frames -> Values] /\ halted' \in BOOLEAN
    BY <1>9 DEF MemoryInv, TypeOK, vars
  <2>. QED
    BY <1>9, <2>1, QuietInv DEF vars
<1>. QED
  BY <1>1, <1>2, <1>3, <1>4, <1>5, <1>6, <1>7, <1>8, <1>9 DEF Next

\* It holds when frames_init() and cow_init() are done.
LEMMA MemoryStart ==
  ASSUME Usual, Init
  PROVE  MemoryInv
<1>1. /\ \A p \in Procs, v \in Pages : pt[p][v] = NONE
      /\ \A f \in Frames : cow[f] = 0
      /\ ShmFrames = {}
      /\ Tracked = {}
  <2>1. \A f \in Frames : cow[f] = 0
    BY DEF Init
  <2>2. Tracked = {}
    BY <2>1 DEF Tracked
  <2>. QED
    BY <2>1, <2>2 DEF Init, NoPages, ShmFrames
<1>2. TypeOK
  <2>1. Cardinality({f \in Frames : cow[f] > 0}) <= COW_SLOTS
    BY <1>1, FS_EmptySet, MemoryAssumption DEF Tracked, MemoryAssumption
  <2>. QED
    BY <2>1, MemoryAssumption, Zenon DEF Init, TypeOK, NoPages, MemoryAssumption
<1>3. DeadMapNothing /\ FreeUnused
  BY <1>1, ZenonT(30) DEF Init, DeadMapNothing, FreeUnused
<1>4. RegionEntries /\ PrivateEntries /\ Alone
  <2>1. Regions \subseteq Pages
    BY DEF Pages
  <2>. QED
    BY <1>1, <2>1 DEF RegionEntries, PrivateEntries, Alone
<1>5. RegionsApart
  BY DEF Init, RegionsApart
<1>6. RefcountExact /\ NothingLeaks
  BY <1>1 DEF Init, RefcountExact, NothingLeaks
<1>. QED
  BY <1>2, <1>3, <1>4, <1>5, <1>6 DEF MemoryInv

\* What the invariant says of frames and of copy-on-write.
LEMMA MemoryInvImplies ==
  ASSUME MemoryInv
  PROVE  FramesKept /\ CowExact
<1>1. NoDanglingMapping
  <2> SUFFICES ASSUME NEW f \in free, NEW m \in Mappings(f) PROVE FALSE
    BY DEF NoDanglingMapping
  <2>1. /\ m[1] \in Procs /\ m[2] \in Pages
        /\ pt[m[1]][m[2]] # NONE /\ pt[m[1]][m[2]].frame = f
    BY DEF Mappings
  <2>. QED
    BY <2>1 DEF MemoryInv, FreeUnused
<1>2. RegionsKeepFrames
  BY DEF MemoryInv, FreeUnused, RegionsKeepFrames
<1>3. ReadOnlyIsTracked
  <2> SUFFICES ASSUME NEW p \in Procs, NEW v \in Pages, pt[p][v] # NONE, ~pt[p][v].w
               PROVE  pt[p][v].frame \in Tracked
    BY DEF ReadOnlyIsTracked
  <2>1. v \notin Regions
    BY DEF MemoryInv, RegionEntries
  <2>2. cow[pt[p][v].frame] > 0
    BY <2>1 DEF MemoryInv, PrivateEntries
  <2>3. pt[p][v].frame \in Frames
    BY DEF MemoryInv, TypeOK, Entries
  <2>. QED
    BY <2>2, <2>3 DEF Tracked
<1>. QED
  BY <1>1, <1>2, <1>3 DEF FramesKept, CowExact, MemoryInv

\* While g_cow_frames has room for every fork, the invariant holds throughout.
THEOREM MemorySafety ==
  ASSUME Usual
  PROVE  Spec /\ []RoomToTrack => []MemoryInv
<1>1. Init => MemoryInv
  BY MemoryStart
<1>2. MemoryInv /\ RoomToTrack /\ [Next]_vars => MemoryInv'
  BY MemoryStep
<1>. QED
  BY <1>1, <1>2, PTL DEF Spec

\* Frames are kept exactly as long as needed (frames.c, cow.c, paging.c,
\* shared_memory.c), for any number of processes, pages and frames: however
\* spawns, forks, repairs, mappings and exits follow each other, no mapping
\* names a free frame, regions keep theirs, and what nobody uses is given
\* back.  For programs that fork with nothing but image and stack mapped, and
\* as long as g_cow_frames has a slot for each page a fork shares.
THEOREM FramesAreKept ==
  ASSUME Usual
  PROVE  Spec /\ []RoomToTrack => []FramesKept
<1>1. MemoryInv => FramesKept
  BY MemoryInvImplies
<1>. QED
  BY <1>1, MemorySafety, PTL

\* The reference counts of g_cow_frames are exact and a read-only page can
\* always be repaired (cow.c, the page-fault branch of isr.c), for any number of
\* processes, pages and frames, under the same conditions.
THEOREM CowIsExact ==
  ASSUME Usual
  PROVE  Spec /\ []RoomToTrack => []CowExact
<1>1. MemoryInv => CowExact
  BY MemoryInvImplies
<1>. QED
  BY <1>1, MemorySafety, PTL

\* A table with a slot per frame always has room.
LEMMA RoomWithASlotPerFrame ==
  ASSUME Usual, MemoryInv, NFrames <= COW_SLOTS
  PROVE  RoomToTrack
<1> SUFFICES ASSUME NEW p \in Procs, NEW v \in Pages,
                    Mapped(p) \subseteq ForkPages, Overflows(p, v)
             PROVE  FALSE
  BY DEF RoomToTrack
<1> DEFINE U == {w \in Mapped(p) : pt[p][w].frame \notin Tracked}
           T == Frames \ Tracked
           G == [w \in U |-> pt[p][w].frame]
<1>t. TypeOK
  BY DEF MemoryInv
<1>1. v \in U /\ Below(U, v) >= COW_SLOTS - Cardinality(Tracked)
  BY ZenonT(30) DEF Overflows
<1>2. U \in SUBSET Pages /\ U \subseteq Nat /\ IsFiniteSet(U) /\ Cardinality(U) \in Nat
  <2>1. U \in SUBSET Pages
    BY ZenonT(30) DEF Mapped
  <2>2. IsFiniteSet(U)
    BY <2>1, FS_Subset DEF Usual
  <2>3. U \subseteq Nat
    BY <2>1, MemoryAssumption, Zenon DEF MemoryAssumption
  <2>. QED
    BY <2>1, <2>2, <2>3, FS_CardinalityType
<1>3. \A w \in U : /\ w \in Pages \ Regions /\ pt[p][w] # NONE
                   /\ pt[p][w].frame \in T
  <2> TAKE w \in U
  <2>1. w \in Pages /\ pt[p][w] # NONE /\ w \in ForkPages /\ pt[p][w].frame \notin Tracked
    BY DEF Mapped
  <2>. QED
    BY <2>1, <1>t DEF Usual, TypeOK, Entries
<1>4. \A u, w \in U : pt[p][u].frame = pt[p][w].frame => u = w
  BY <1>3 DEF MemoryInv, Alone
<1>5. Tracked \in SUBSET Frames /\ IsFiniteSet(Tracked) /\ Cardinality(Tracked) \in Nat
  BY FrameFacts DEF Tracked
<1>6. /\ IsFiniteSet(T) /\ Cardinality(T) = NFrames - Cardinality(Tracked)
      /\ Cardinality(T) \in Nat
  <2>1. Cardinality(Frames) = NFrames /\ IsFiniteSet(Frames)
    BY MemoryAssumption, FS_Interval DEF MemoryAssumption, Frames
  <2>2. Frames \cap Tracked = Tracked
    BY <1>5
  <2>3. IsFiniteSet(T) /\ Cardinality(T) = Cardinality(Frames) - Cardinality(Frames \cap Tracked)
    BY <2>1, FS_Difference
  <2>. QED
    BY <2>1, <2>2, <2>3, FS_CardinalityType, Zenon
<1>7. Cardinality(U) <= Cardinality(T)
  <2> HIDE DEF U, T
  <2>1. G \in [U -> T] /\ \A u, w \in U : G[u] = G[w] => u = w
    BY <1>3, <1>4
  <2> HIDE DEF G
  <2>2. G \in Injection(U, T)
    BY <2>1 DEF Injection, IsInjective
  <2>. QED
    BY <2>2, <1>6, FS_Injection
<1>8. Below(U, v) \in Nat /\ Below(U, v) < Cardinality(U)
  <2> HIDE DEF U
  <2>1. v \in Nat
    BY <1>1, <1>2
  <2>. QED
    BY <2>1, <1>1, <1>2, BelowType, Zenon
<1> HIDE DEF U, T
<1>. QED
  BY <1>1, <1>2, <1>5, <1>6, <1>7, <1>8, MemoryAssumption DEF MemoryAssumption

\* With a slot in g_cow_frames for every frame of the machine both hold without
\* any condition on how much is shared.
THEOREM FramesAndCountsWithASlotPerFrame ==
  ASSUME Usual, NFrames <= COW_SLOTS
  PROVE  Spec => [](FramesKept /\ CowExact)
<1>1. Init => MemoryInv
  BY MemoryStart
<1>2. MemoryInv /\ [Next]_vars => MemoryInv'
  BY MemoryStep, RoomWithASlotPerFrame
<1>3. MemoryInv => FramesKept /\ CowExact
  BY MemoryInvImplies
<1>. QED
  BY <1>1, <1>2, <1>3, PTL DEF Spec
=============================================================================
