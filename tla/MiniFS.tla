------------------------------- MODULE MiniFS -------------------------------
(***************************************************************************)
(* MiniFS (kernel/fs/minifs/minifs.c) above the block device, one sector   *)
(* operation a step.  Kernel tasks (the shell, the I/O worker) run with    *)
(* interrupts on and are preempted between any two sectors; a system call  *)
(* runs its operation with interrupts off, so once it has begun nobody     *)
(* else moves.  A sector operation may fail, and the machine may stop:     *)
(* either way the operation ends there and the disk stays as it is.        *)
(*                                                                         *)
(* The bytes of a file are abstracted to the number of the write that      *)
(* stored them and the index of the sector; a name to a member of Names.   *)
(***************************************************************************)
EXTENDS Naturals, Sequences, FiniteSets

CONSTANTS
  KernelTasks, SystemCalls,  \* callers, preemptible and not
  Names, Paths, Sizes,       \* file names, paths, file sizes in sectors
  MAX_FILES,                 \* entries of a directory sector
  MAX_PATH_DEPTH,
  LastLba,                   \* the last sector of the disk
  CountModulus,              \* 2^32: file_count is a u32
  WritesOverlap,             \* whether two writing operations, or mkfs and a
                             \* read, may be under way at the same time
  MaxOps, MaxStops           \* bounds: operations begun, operations cut short

Callers == KernelTasks \cup SystemCalls
ROOT_LBA == 1
DATA_START_LBA == 2
\* next_free_lba is never compared with the end of the disk.
Lbas == ROOT_LBA .. LastLba + MaxOps * 2

VARIABLES
  sb,           \* the superblock: file_count and next_free_lba
  dirs,         \* the directory entries of a directory sector
  blocks,       \* the contents of a data sector: <<write, index>>
  fsop,         \* what each caller is doing
  begun, stops, \* operations begun, operations cut short
  torn          \* history: mkfs() was cut short between its two writes

vars == <<sb, dirs, blocks, fsop, begun, stops, torn>>

Free == [used |-> FALSE, name |-> "", lba |-> 0, size |-> 0, is_dir |-> FALSE,
         id |-> 0]
Empty == [e \in 1 .. MAX_FILES |-> Free]
Entries == [used : BOOLEAN, name : Names \cup {""}, lba : Nat, size : Nat,
            is_dir : BOOLEAN, id : 0 .. MaxOps]
Zero == <<0, 0>>
Idle == [pc |-> "idle"]

Init ==
  /\ sb = [file_count |-> 0, next_free_lba |-> DATA_START_LBA]
  /\ dirs = [l \in Lbas |-> Empty]
  /\ blocks = [l \in Lbas |-> Zero]
  /\ fsop = [c \in Callers |-> Idle]
  /\ begun = 0 /\ stops = 0 /\ torn = FALSE

Pcs == {"idle", "walk", "alloc", "claim", "store", "commit", "count",
        "recount", "load", "mkfs", "format"}

\* Entries point into the pool, positions are known, counts have their width.
TypeOK ==
  /\ sb.file_count \in 0 .. CountModulus - 1
  /\ sb.next_free_lba \in DATA_START_LBA .. LastLba + MaxOps * 2
  /\ \A l \in Lbas : \A e \in 1 .. MAX_FILES : dirs[l][e] \in Entries
  /\ \A l \in Lbas : blocks[l] \in (0 .. MaxOps) \X Nat
  /\ \A c \in Callers : fsop[c].pc \in Pcs

-----------------------------------------------------------------------------
(***************************************************************************)
(* Lookup.                                                                 *)
(***************************************************************************)
find_entry(entries, name) ==
  {e \in 1 .. MAX_FILES : entries[e].used /\ entries[e].name = name}

FreeSlots(entries) == {e \in 1 .. MAX_FILES : ~entries[e].used}
First(S) == CHOOSE e \in S : \A f \in S : e <= f

\* Components past MAX_PATH_DEPTH are dropped.
split_path(path) == SubSeq(path, 1, IF Len(path) < MAX_PATH_DEPTH
                                    THEN Len(path) ELSE MAX_PATH_DEPTH)

Writing == {"write", "mkdir", "delete", "attr"}

\* Nobody but c moves while a system call is under way.
MayRun(c) == \A d \in SystemCalls \ {c} : fsop[d].pc = "idle"

Busy(c, whats) == fsop[c].pc # "idle" /\ fsop[c].what \in whats

MayBegin(c, what) ==
  \/ WritesOverlap
  \/ what = "read" /\ \A d \in Callers : ~Busy(d, {"mkfs"})
  \/ what \in Writing /\ \A d \in Callers : ~Busy(d, Writing \cup {"mkfs"})
  \/ what = "mkfs" /\ \A d \in Callers : fsop[d].pc = "idle"

\* fs_write_file(), fs_create_dir(), fs_delete_file(), fs_read_file(),
\* fs_set_owner(), fs_set_mode(), fs_stat_file() and fs_get_owner_mode() all
\* start at the root directory.
Begin(c, what, path, size) ==
  /\ MayRun(c) /\ fsop[c].pc = "idle" /\ begun < MaxOps
  /\ MayBegin(c, what)
  /\ begun' = begun + 1
  /\ fsop' = [fsop EXCEPT ![c] =
       [pc |-> IF what = "mkfs" THEN "mkfs" ELSE "walk", what |-> what,
        path |-> IF what = "mkfs" THEN <<>> ELSE split_path(path),
        lba |-> ROOT_LBA, buf |-> Empty, slot |-> 0,
        size |-> CASE what = "write" -> size [] what = "mkdir" -> 1 [] OTHER -> 0,
        start |-> 0, s |-> 0, sb |-> [file_count |-> 0, next_free_lba |-> 0], got |-> <<>>, id |-> begun + 1]]
  /\ UNCHANGED <<sb, dirs, blocks, stops, torn>>

Return(c) == fsop' = [fsop EXCEPT ![c] = Idle]

\* What an operation does with the entries of the parent directory: the
\* position it goes on to and the slot it uses, "idle" when it returns.
Decide(op, entries) ==
  LET hits == find_entry(entries, op.path[1])
      free == FreeSlots(entries)
  IN CASE op.what \in {"write", "mkdir"} ->
            IF hits # {} \/ free = {} THEN <<"idle", 0>>
            ELSE <<"alloc", First(free)>>
       [] op.what \in {"delete", "attr"} ->
            IF hits = {} THEN <<"idle", 0>> ELSE <<"commit", First(hits)>>
       [] OTHER ->
            IF hits = {} \/ entries[First(hits)].is_dir
               \/ entries[First(hits)].size = 0
            THEN <<"idle", 0>> ELSE <<"load", First(hits)>>

\* resolve_parent_dir(), a directory sector a step, and the read of the
\* parent directory into dir_buf.
Walk(c) ==
  LET op == fsop[c]
      entries == dirs[op.lba]
      hits == find_entry(entries, op.path[1])
      next == Decide(op, entries)
  IN
  /\ MayRun(c) /\ op.pc = "walk"
  /\ IF Len(op.path) > 1
     THEN IF hits = {} \/ ~entries[First(hits)].is_dir
          THEN Return(c)
          ELSE fsop' = [fsop EXCEPT ![c].path = Tail(op.path),
                                    ![c].lba = entries[First(hits)].lba]
     ELSE IF next[1] = "idle"
          THEN Return(c)
          ELSE fsop' = [fsop EXCEPT ![c].pc = next[1], ![c].slot = next[2],
                                    ![c].buf = entries]
  /\ UNCHANGED <<sb, dirs, blocks, begun, stops, torn>>

-----------------------------------------------------------------------------
(***************************************************************************)
(* Creation: alloc_lba(), the data or the empty directory, the entry, the  *)
(* count.                                                                  *)
(***************************************************************************)
\* alloc_lba() and bump_file_count() read the superblock ...
ReadSuperblock(c) ==
  /\ MayRun(c) /\ fsop[c].pc \in {"alloc", "count"}
  /\ fsop' = [fsop EXCEPT ![c].sb = sb,
       ![c].pc = IF fsop[c].pc = "alloc" THEN "claim" ELSE "recount"]
  /\ UNCHANGED <<sb, dirs, blocks, begun, stops, torn>>

\* (Mutant.) Every allocation takes one sector.
ClaimOne(c) ==
  LET op == fsop[c] IN
  /\ MayRun(c) /\ op.pc = "claim"
  /\ sb' = [op.sb EXCEPT !.next_free_lba = @ + 1]
  /\ fsop' = [fsop EXCEPT ![c].start = op.sb.next_free_lba,
                          ![c].pc = IF op.size = 0 THEN "commit" ELSE "store"]
  /\ UNCHANGED <<dirs, blocks, begun, stops, torn>>

\* ... and alloc_lba() writes it back, past the claimed sectors.
Claim(c) ==
  LET op == fsop[c] IN
  /\ MayRun(c) /\ op.pc = "claim"
  /\ sb' = [op.sb EXCEPT !.next_free_lba = @ + op.size]
  /\ fsop' = [fsop EXCEPT ![c].start = op.sb.next_free_lba,
                          ![c].pc = IF op.size = 0 THEN "commit" ELSE "store"]
  /\ UNCHANGED <<dirs, blocks, begun, stops, torn>>

\* One data sector, or the zeroed sector of a new directory.
Store(c) ==
  LET op == fsop[c]
      l == op.start + op.s
  IN
  /\ MayRun(c) /\ op.pc = "store"
  /\ l <= LastLba
  /\ dirs' = [dirs EXCEPT ![l] = Empty]
  /\ blocks' = [blocks EXCEPT ![l] =
                  IF op.what = "mkdir" THEN Zero ELSE <<op.id, op.s>>]
  /\ fsop' = [fsop EXCEPT ![c].s = @ + 1,
                          ![c].pc = IF op.s + 1 < op.size THEN @ ELSE "commit"]
  /\ UNCHANGED <<sb, begun, stops, torn>>

\* The directory sector goes back with the entry set, cleared or relabelled;
\* everything else in it is as it was when it was read.
Commit(c) ==
  LET op == fsop[c]
      entry == [used |-> TRUE, name |-> op.path[1], lba |-> op.start,
                size |-> IF op.what = "mkdir" THEN 0 ELSE op.size,
                is_dir |-> op.what = "mkdir", id |-> op.id]
      buf == CASE op.what \in {"write", "mkdir"} ->
                    [op.buf EXCEPT ![op.slot] = entry]
               [] op.what = "delete" -> [op.buf EXCEPT ![op.slot].used = FALSE]
               [] OTHER -> op.buf
  IN
  /\ MayRun(c) /\ op.pc = "commit"
  /\ dirs' = [dirs EXCEPT ![op.lba] = buf]
  /\ blocks' = [blocks EXCEPT ![op.lba] = Zero]
  /\ IF op.what = "attr" THEN Return(c)
     ELSE fsop' = [fsop EXCEPT ![c].pc = "count"]
  /\ UNCHANGED <<sb, begun, stops, torn>>

\* bump_file_count(1) or (-1), modulo 2^32.
Recount(c) ==
  LET op == fsop[c]
      delta == IF op.what = "delete" THEN CountModulus - 1 ELSE 1
  IN
  /\ MayRun(c) /\ op.pc = "recount"
  /\ sb' = [op.sb EXCEPT !.file_count = (@ + delta) % CountModulus]
  /\ Return(c)
  /\ UNCHANGED <<dirs, blocks, begun, stops, torn>>

-----------------------------------------------------------------------------
\* The next sector of fs_read_file(), at the extent found in dir_buf.
Load(c) ==
  LET op == fsop[c]
      entry == op.buf[op.slot]
      got == Append(op.got, blocks[entry.lba + op.s])
  IN
  /\ MayRun(c) /\ op.pc = "load"
  /\ IF op.s < entry.size
     THEN fsop' = [fsop EXCEPT ![c].s = @ + 1, ![c].got = got]
     ELSE Return(c)
  /\ UNCHANGED <<sb, dirs, blocks, begun, stops, torn>>

\* mkfs(): the superblock first, then the root directory.
FormatSuperblock(c) ==
  /\ MayRun(c) /\ fsop[c].pc = "mkfs"
  /\ sb' = [file_count |-> 0, next_free_lba |-> DATA_START_LBA]
  /\ fsop' = [fsop EXCEPT ![c].pc = "format"]
  /\ UNCHANGED <<dirs, blocks, begun, stops, torn>>

FormatRoot(c) ==
  /\ MayRun(c) /\ fsop[c].pc = "format"
  /\ dirs' = [dirs EXCEPT ![ROOT_LBA] = Empty]
  /\ Return(c)
  /\ UNCHANGED <<sb, blocks, begun, stops, torn>>

\* A sector operation returns false, as every one past the end of the disk
\* does, and the caller with it; or the machine stops.
Stop(c) ==
  /\ MayRun(c) /\ fsop[c].pc # "idle"
  /\ \/ fsop[c].pc = "store" /\ fsop[c].start + fsop[c].s > LastLba
     \/ stops < MaxStops
  /\ fsop' = [fsop EXCEPT ![c] = Idle]
  /\ stops' = stops + 1
  /\ torn' = (torn \/ fsop[c].pc = "format")
  /\ UNCHANGED <<sb, dirs, blocks, begun>>

Next ==
  \E c \in Callers :
    \/ \E what \in Writing \cup {"read", "mkfs"}, path \in Paths, z \in Sizes :
         Begin(c, what, path, z)
    \/ Walk(c) \/ ReadSuperblock(c) \/ Claim(c) \/ Store(c) \/ Commit(c)
    \/ Recount(c) \/ Load(c) \/ FormatSuperblock(c) \/ FormatRoot(c)
    \/ Stop(c)

Spec == Init /\ [][Next]_vars

-----------------------------------------------------------------------------
\* Directories reachable from the root (Paths go two levels deep).
Subdirs(D) == {dirs[x[1]][x[2]].lba :
                x \in {y \in D \X (1 .. MAX_FILES) :
                         dirs[y[1]][y[2]].used /\ dirs[y[1]][y[2]].is_dir}}
Reachable == LET one == {ROOT_LBA} \cup Subdirs({ROOT_LBA})
             IN one \cup Subdirs(one)

Files == {x \in Reachable \X (1 .. MAX_FILES) :
            dirs[x[1]][x[2]].used /\ ~dirs[x[1]][x[2]].is_dir}
Extent(x) == LET e == dirs[x[1]][x[2]] IN e.lba .. e.lba + e.size - 1

\* Whatever operation was cut short, and wherever, every file that can be
\* found in a directory is whole: its sectors hold the data of the write that
\* made it, in order, and belong to no other file and to no directory.  Space
\* may be lost, never shared.  (Not so after an mkfs() that was cut short
\* between superblock and root: it frees the sectors of files still listed.)
FilesWhole ==
  ~torn =>
  /\ \A x \in Files : \A l \in Extent(x) :
       blocks[l] = <<dirs[x[1]][x[2]].id, l - dirs[x[1]][x[2]].lba>>
  /\ \A x \in Files : Extent(x) \cap Reachable = {}
  /\ \A x, y \in Files : x # y => Extent(x) \cap Extent(y) = {}

\* fs_read_file() in a kernel task takes the extent from the directory and
\* then reads sector by sector, with the file deleted and written anew in
\* between: because space is never reclaimed it still returns the data of one
\* write, whole.
ReadsAreWhole ==
  ~torn => \A c \in Callers : Busy(c, {"read"}) /\ fsop[c].pc = "load" =>
    \A i \in 1 .. Len(fsop[c].got) :
      fsop[c].got[i] = <<fsop[c].buf[fsop[c].slot].id, i - 1>>

Used == {x \in (ROOT_LBA .. sb.next_free_lba - 1) \X (1 .. MAX_FILES) : dirs[x[1]][x[2]].used}

\* As long as no operation is cut short, file_count is the number of entries
\* in use whenever no operation is under way, those of deleted directories
\* included: fs_delete_file() of a directory takes one off, not its children.
CountExact ==
  stops = 0 /\ (\A c \in Callers : fsop[c].pc = "idle") =>
    sb.file_count % CountModulus = Cardinality(Used) % CountModulus

=============================================================================
