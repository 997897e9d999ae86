------------------------------- MODULE Fat32 -------------------------------
(***************************************************************************)
(* The FAT32 driver (kernel/fs/fat32/fat32.c), one sector write a step: a  *)
(* cluster is claimed in the table, zeroed, linked and filled before the   *)
(* directory entry names it, and an entry is erased before its clusters    *)
(* are freed.  One operation is under way at a time; it may be cut short   *)
(* between any two writes by a stop of the machine.  Lookups write nothing *)
(* and belong to the step that uses them.                                  *)
(*                                                                         *)
(* A cluster is one sector here, file contents are the number of the write *)
(* and the index of the cluster, and Short is name_to_83().                *)
(***************************************************************************)
EXTENDS Naturals, Sequences, FiniteSets

CONSTANTS
  FatPaths,      \* paths, as sequences of names
  Short,         \* the 8.3 form of each name
  Clusters,      \* data clusters, 2 .. total_clusters + 1
  DirSlots,      \* directory entries of a cluster
  FatSizes,      \* file sizes, in clusters
  MaxFatOps, MaxFatStops

root_cluster == 2
FREE == 0
EOC == 1

VARIABLES
  initialized,   \* g_fat32.initialized
  fat,           \* the table: FREE, EOC or the next cluster
  area,          \* the clusters: directory entries and file data
  job,           \* the operation under way
  fatops, fatstops,
  dropped        \* history: a directory with entries was deleted

vars == <<initialized, fat, area, job, fatops, fatstops, dropped>>

\* name[0]: 0x00 ends the directory, 0xE5 is deleted.
End == [mark |-> "end", name |-> "", first |-> 0, size |-> 0,
        is_dir |-> FALSE, id |-> 0]
Zeroed == [slots |-> [e \in 1 .. DirSlots |-> End], data |-> <<0, 0>>]
NoJob == [pc |-> "idle"]

Init ==
  /\ initialized = FALSE
  /\ fat = [c \in Clusters |-> IF c = root_cluster THEN EOC ELSE FREE]
  /\ area = [c \in Clusters |-> Zeroed]
  /\ job = NoJob
  /\ fatops = 0 /\ fatstops = 0 /\ dropped = FALSE

\* Table entries are clusters or marks; first clusters are 0 or in the table.
TypeOK ==
  /\ fat \in [Clusters -> Clusters \cup {FREE, EOC}]
  /\ \A c \in Clusters : \A e \in 1 .. DirSlots :
       /\ area[c].slots[e].mark \in {"end", "used", "deleted"}
       /\ area[c].slots[e].first \in Clusters \cup {0}
  /\ job.pc \in {"idle", "grab", "zero", "link", "fill", "enter", "release"}

-----------------------------------------------------------------------------
\* The clusters of a chain in order; the bound only matters to a cycle.
Chain(first) ==
  LET next[n \in 0 .. Cardinality(Clusters)] ==
        IF n = 0 THEN (IF first \in Clusters THEN <<first>> ELSE <<>>)
        ELSE LET s == next[n - 1] IN
             IF s # <<>> /\ fat[s[Len(s)]] \in Clusters
             THEN Append(s, fat[s[Len(s)]]) ELSE s
  IN next[Cardinality(Clusters)]

Last(first) == Chain(first)[Len(Chain(first))]

\* The entries of a directory, in order of the scan.
Places(dir) ==
  [k \in 1 .. Len(Chain(dir)) * DirSlots |->
     <<Chain(dir)[1 + ((k - 1) \div DirSlots)], 1 + ((k - 1) % DirSlots)>>]
At(p) == area[p[1]].slots[p[2]]

\* find_entry_in_dir(): the scan ends at the first 0x00.
find_entry_in_dir(dir, name83) ==
  {k \in 1 .. Len(Places(dir)) :
     /\ At(Places(dir)[k]).mark = "used"
     /\ At(Places(dir)[k]).name = name83
     /\ \A i \in 1 .. k - 1 : At(Places(dir)[i]).mark # "end"}

First(S) == CHOOSE k \in S : \A i \in S : k <= i

\* The cluster of the parent directory, 0 when a component is missing.
resolve_parent_dir(path) ==
  IF Len(path) = 1 THEN root_cluster
  ELSE LET hits == find_entry_in_dir(root_cluster, Short[path[1]])
           e == At(Places(root_cluster)[First(hits)])
       IN IF hits = {} \/ ~e.is_dir THEN 0 ELSE e.first

\* Never-used or deleted entries.
OpenPlaces(dir) ==
  {k \in 1 .. Len(Places(dir)) : At(Places(dir)[k]).mark # "used"}

\* alloc_cluster() takes the first free cluster.
FreeClusters == {c \in Clusters : fat[c] = FREE}

-----------------------------------------------------------------------------
\* fat32_init() at boot, with a volume that passes its tests.
fat32_init ==
  /\ ~initialized
  /\ initialized' = TRUE
  /\ UNCHANGED <<fat, area, job, fatops, fatstops, dropped>>

\* find_free_dir_slot(), or its way through growing the directory.
ToSlot(j) ==
  LET open == OpenPlaces(j.parent) IN
  IF open # {} THEN [j EXCEPT !.pc = "enter",
                              !.place = Places(j.parent)[First(open)]]
  ELSE [j EXCEPT !.pc = "grab", !.growing = TRUE]

\* fat32_write_file() and fat32_create_dir(), up to the first write.
fat32_create(path, is_dir, size) ==
  LET parent == resolve_parent_dir(path)
      name83 == Short[path[Len(path)]]
      j == [pc |-> "grab", parent |-> parent, name |-> name83,
            is_dir |-> is_dir, size |-> size, first |-> 0, prev |-> 0,
            c |-> 0, done |-> 0, place |-> <<0, 0>>, growing |-> FALSE,
            id |-> fatops + 1]
  IN
  /\ initialized /\ job.pc = "idle" /\ fatops < MaxFatOps
  /\ parent # 0
  /\ find_entry_in_dir(parent, name83) = {}
  /\ fatops' = fatops + 1
  /\ job' = IF size = 0 THEN ToSlot(j) ELSE j
  /\ UNCHANGED <<initialized, fat, area, fatstops, dropped>>

\* (Mutant.) A full disk ends the operation on the spot.
grab_forgetful ==
  /\ job.pc = "grab"
  /\ IF FreeClusters = {}
     THEN /\ job' = NoJob
          /\ UNCHANGED fat
     ELSE /\ fat' = [fat EXCEPT ![First(FreeClusters)] = EOC]
          /\ job' = [job EXCEPT !.pc = "zero", !.c = First(FreeClusters)]
  /\ UNCHANGED <<initialized, area, fatops, fatstops, dropped>>

\* alloc_cluster() claims a cluster; when there is none, what the operation
\* has allocated is freed and it returns false.
grab ==
  /\ job.pc = "grab"
  /\ IF FreeClusters = {}
     THEN /\ job' = IF job.first = 0 THEN NoJob
                    ELSE [pc |-> "release", c |-> job.first]
          /\ UNCHANGED fat
     ELSE /\ fat' = [fat EXCEPT ![First(FreeClusters)] = EOC]
          /\ job' = [job EXCEPT !.pc = "zero", !.c = First(FreeClusters)]
  /\ UNCHANGED <<initialized, area, fatops, fatstops, dropped>>

\* ... and zeroes it.
zero ==
  /\ job.pc = "zero"
  /\ area' = [area EXCEPT ![job.c] = Zeroed]
  /\ job' = IF job.growing \/ job.prev # 0 THEN [job EXCEPT !.pc = "link"]
            ELSE [job EXCEPT !.pc = "fill", !.first = job.c]
  /\ UNCHANGED <<initialized, fat, fatops, fatstops, dropped>>

\* set_fat_entry(): the end of the file, or of the directory, names the new
\* cluster.
link ==
  /\ job.pc = "link"
  /\ fat' = [fat EXCEPT ![IF job.growing THEN Last(job.parent) ELSE job.prev]
                          = job.c]
  /\ job' = IF job.growing
            THEN [job EXCEPT !.pc = "enter", !.place = <<job.c, 1>>]
            ELSE [job EXCEPT !.pc = "fill"]
  /\ UNCHANGED <<initialized, area, fatops, fatstops, dropped>>

\* The data of the cluster; the cluster of a new directory stays zeroed.
fill ==
  LET j == [job EXCEPT !.done = @ + 1, !.prev = job.c] IN
  /\ job.pc = "fill"
  /\ area' = IF job.is_dir THEN area
             ELSE [area EXCEPT ![job.c].data = <<job.id, job.done>>]
  /\ job' = IF j.done < job.size THEN [j EXCEPT !.pc = "grab"] ELSE ToSlot(j)
  /\ UNCHANGED <<initialized, fat, fatops, fatstops, dropped>>

\* write_entry_at(): from here on the file can be found.
enter ==
  /\ job.pc = "enter"
  /\ area' = [area EXCEPT ![job.place[1]].slots[job.place[2]] =
       [mark |-> "used", name |-> job.name, first |-> job.first,
        size |-> IF job.is_dir THEN 0 ELSE job.size, is_dir |-> job.is_dir,
        id |-> job.id]]
  /\ job' = NoJob
  /\ UNCHANGED <<initialized, fat, fatops, fatstops, dropped>>

HasEntries(dir) ==
  \E k \in 1 .. Len(Places(dir)) : At(Places(dir)[k]).mark = "used"

\* fat32_delete_file() erases the entry, of a file or a directory.
fat32_delete(path) ==
  LET parent == resolve_parent_dir(path)
      hits == find_entry_in_dir(parent, Short[path[Len(path)]])
      place == Places(parent)[First(hits)]
      e == At(place)
  IN
  /\ initialized /\ job.pc = "idle" /\ fatops < MaxFatOps
  /\ parent # 0 /\ hits # {}
  /\ fatops' = fatops + 1
  /\ area' = [area EXCEPT ![place[1]].slots[place[2]].mark = "deleted"]
  /\ dropped' = (dropped \/ (e.is_dir /\ HasEntries(e.first)))
  /\ job' = IF e.first = 0 THEN NoJob ELSE [pc |-> "release", c |-> e.first]
  /\ UNCHANGED <<initialized, fat, fatstops>>

\* free_cluster_chain(), one cluster.
release ==
  /\ job.pc = "release"
  /\ fat' = [fat EXCEPT ![job.c] = FREE]
  /\ job' = IF fat[job.c] \in Clusters THEN [job EXCEPT !.c = fat[job.c]]
            ELSE NoJob
  /\ UNCHANGED <<initialized, area, fatops, fatstops, dropped>>

\* The machine stops; fat32_init() runs at the next boot.
fat_stop ==
  /\ job.pc # "idle" /\ fatstops < MaxFatStops
  /\ fatstops' = fatstops + 1
  /\ job' = NoJob
  /\ initialized' = FALSE
  /\ UNCHANGED <<fat, area, fatops, dropped>>

Next ==
  \/ fat32_init \/ grab \/ zero \/ link \/ fill \/ enter \/ release \/ fat_stop
  \/ \E path \in FatPaths :
       \/ \E z \in FatSizes : fat32_create(path, FALSE, z)
       \/ fat32_create(path, TRUE, 1)
       \/ fat32_delete(path)

Spec == Init /\ [][Next]_vars

-----------------------------------------------------------------------------
\* Entries in use that a lookup can reach, the root's own included.
EntriesOf(dir) == {At(Places(dir)[k]) : k \in
  {i \in 1 .. Len(Places(dir)) : At(Places(dir)[i]).mark = "used"}}
TopEntries == EntriesOf(root_cluster)
Reach == TopEntries \cup
         UNION {EntriesOf(e.first) : e \in {f \in TopEntries : f.is_dir}}
Held == {root_cluster} \cup {e.first : e \in Reach}

ChainSet(first) == {Chain(first)[i] : i \in 1 .. Len(Chain(first))}

\* Wherever an operation stops, what can be found is sound: every chain ends,
\* has no free cluster, shares none with another, and is as long and holds
\* what the write that made the file stored.
ChainsSound ==
  /\ \A f \in Held \ {0} :
       /\ Cardinality(ChainSet(f)) = Len(Chain(f))
       /\ fat[Last(f)] = EOC
  /\ \A f, g \in Held \ {0} : f # g => ChainSet(f) \cap ChainSet(g) = {}
  /\ \A e \in Reach : ~e.is_dir =>
       /\ Len(Chain(e.first)) = e.size
       /\ \A i \in 1 .. e.size :
            area[Chain(e.first)[i]].data = <<e.id, i - 1>>

\* Entries of one directory have different 8.3 names, whatever the paths they
\* were made with: the create-only test uses the converted name.
NamesDistinct ==
  \A i, j \in 1 .. Len(Places(root_cluster)) :
    i # j /\ At(Places(root_cluster)[i]).mark = "used"
          /\ At(Places(root_cluster)[j]).mark = "used"
    => At(Places(root_cluster)[i]).name # At(Places(root_cluster)[j]).name

\* With no stop and no deletion of a directory that still had entries, every
\* allocated cluster belongs to something that can be found: failed writes on
\* a full volume give back what they took.
NoClusterLost ==
  job.pc = "idle" /\ fatstops = 0 /\ ~dropped =>
    \A c \in Clusters : fat[c] # FREE => \E f \in Held : c \in ChainSet(f)

=============================================================================
