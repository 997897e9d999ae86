-------------------------------- MODULE Files --------------------------------
(***************************************************************************)
(* Everything above the volumes: the VFS (kernel/fs/vfs), /temp (tmpfs),   *)
(* file and directory objects (proc/ipc/file, proc/ipc/directory), the     *)
(* system calls on them (handlers/file.c, vfs.c, directory.c) and the      *)
(* shell's cp and mv.  A system call runs with interrupts off and is one   *)
(* step; cp and mv run in the shell, preempted between their VFS calls.    *)
(*                                                                         *)
(* A volume is its array of directory slots, because listing goes by slot. *)
(* File contents are short sequences of bytes.                             *)
(***************************************************************************)
EXTENDS Naturals, Integers, Sequences, FiniteSets

CONSTANTS
  Procs, Uid,       \* processes and their uids; 0 is root
  Paths,            \* paths
  Backend, FileOf,  \* the volume a path is routed to, and the file there
  InSystem,         \* whether a path starts with "/system"
  Cap,              \* directory slots of each volume
  Bytes, FILE_MAX_SIZE, FILE_OBJECT_SLOTS, DIRECTORY_SLOTS,
  MinifsWrites,     \* files MiniFS has sectors for
  RawData,          \* contents that processes write in one call
  Modes,            \* modes that call 51 sets
  Moves,            \* pairs of paths given to cp and mv
  MaxCalls          \* bound: calls made

Volumes == {"minifs", "tmpfs", "fat32"}
RDONLY == 0
WRONLY == 1
RDWR == 2
OWNER_ONLY_READ == 1
OWNER_ONLY_WRITE == 2

VARIABLES
  volume,      \* the slots of each volume
  g_open_files,
  handles,     \* the file slot behind each process's handle, 0 for none
  dircur,      \* each process's directory object: volume, cursor, seen, ended
  shelljob,    \* cp or mv under way
  sectors,     \* writes MiniFS still has sectors for
  calls,
  lost,        \* history: file slots no handle names any more
  lostdirs,    \* open_directory slots left by processes that exited
  acked        \* history: what was last reported stored in a file

disk == <<volume, sectors, acked>>
objects == <<g_open_files, handles, lost>>
dirs == <<dircur, lostdirs>>
vars == <<volume, g_open_files, handles, dircur, shelljob, sectors, calls,
          lost, lostdirs, acked>>

Unused == [used |-> FALSE, file |-> "", data |-> <<>>, owner |-> 0,
           mode |-> 0]
Closed == [used |-> FALSE, access |-> RDONLY, path |-> "", buffer |-> <<>>,
           cursor |-> 0, owner_uid |-> 0]
NoDir == [open |-> FALSE, volume |-> "minifs", cursor |-> 1, seen |-> {},
          ended |-> FALSE]
NoJob == [pc |-> "idle"]
FileNames == {FileOf[p] : p \in Paths}
Keys == Volumes \X FileNames
NotAcked == <<"none">>

Init ==
  /\ volume = [v \in Volumes |-> [s \in 1 .. Cap[v] |-> Unused]]
  /\ g_open_files = [f \in 1 .. FILE_OBJECT_SLOTS |-> Closed]
  /\ handles = [p \in Procs |-> 0]
  /\ dircur = [p \in Procs |-> NoDir]
  /\ shelljob = NoJob
  /\ sectors = MinifsWrites /\ calls = 0 /\ lost = {} /\ lostdirs = 0
  /\ acked = [k \in Keys |-> NotAcked]

\* Cursors, lengths and handles stay in range.
TypeOK ==
  /\ \A v \in Volumes : \A s \in 1 .. Cap[v] :
       volume[v][s].file \in FileNames \cup {""}
  /\ \A f \in 1 .. FILE_OBJECT_SLOTS :
       /\ g_open_files[f].access \in {RDONLY, WRONLY, RDWR}
       /\ Len(g_open_files[f].buffer) <= FILE_MAX_SIZE
  /\ handles \in [Procs -> 0 .. FILE_OBJECT_SLOTS]
  /\ shelljob.pc \in {"idle", "delete", "write", "remove"}

-----------------------------------------------------------------------------
(***************************************************************************)
(* The VFS on one volume, as functions of its slots.                       *)
(***************************************************************************)
First(S) == CHOOSE s \in S : \A t \in S : s <= t
Slots(v, file) == {s \in DOMAIN v : v[s].used /\ v[s].file = file}
Holes(v) == {s \in DOMAIN v : ~v[s].used}

Blocked(e, bit, uid) ==
  e.mode \in {bit, OWNER_ONLY_READ + OWNER_ONLY_WRITE} /\ uid # e.owner /\ uid # 0

\* vfs_read(): -1 and -2 are results without data.
NotFound == [ok |-> FALSE, data |-> <<>>]
vfs_read(path, max_len, uid) ==
  LET v == volume[Backend[path]]
      s == Slots(v, FileOf[path])
      e == v[First(s)]
      fails == \/ s = {}
               \/ Len(e.data) > max_len
               \/ Backend[path] = "minifs" /\ Blocked(e, OWNER_ONLY_READ, uid)
  IN IF fails THEN NotFound ELSE [ok |-> TRUE, data |-> e.data]

\* Whether vfs_write() succeeds, and the volume after it: MiniFS and FAT32
\* refuse an existing name, tmpfs overwrites it but takes no more than its
\* buffer holds, and MiniFS runs out of sectors, which it never reclaims.
CanWrite(v, path, data) ==
  LET s == Slots(v, FileOf[path]) IN
  CASE Backend[path] = "tmpfs" -> /\ Len(data) <= FILE_MAX_SIZE
                                  /\ s # {} \/ Holes(v) # {}
    [] Backend[path] = "minifs" -> s = {} /\ Holes(v) # {} /\ sectors > 0
    [] OTHER -> s = {} /\ Holes(v) # {}
Written(v, path, data, uid) ==
  LET s == Slots(v, FileOf[path])
      at == IF s = {} THEN First(Holes(v)) ELSE First(s)
  IN [v EXCEPT ![at] = [used |-> TRUE, file |-> FileOf[path], data |-> data,
                        owner |-> uid, mode |-> 0]]

CanDelete(v, path, uid) ==
  LET s == Slots(v, FileOf[path]) IN
  /\ s # {}
  /\ ~(Backend[path] = "minifs" /\ Blocked(v[First(s)], OWNER_ONLY_WRITE, uid))
Deleted(v, path) ==
  LET s == Slots(v, FileOf[path]) IN
  IF s = {} THEN v ELSE [v EXCEPT ![First(s)].used = FALSE]

Key(path) == <<Backend[path], FileOf[path]>>
Ack(path, data) == acked' = [acked EXCEPT ![Key(path)] = data]
Forget(path) == acked' = [acked EXCEPT ![Key(path)] = NotAcked]
Spend(path) == sectors' = IF Backend[path] = "minifs" THEN sectors - 1
                           ELSE sectors
Call == calls < MaxCalls /\ calls' = calls + 1

-----------------------------------------------------------------------------
(***************************************************************************)
(* System calls on paths.                                                  *)
(***************************************************************************)
\* Call 5.
WriteCall(path, data) ==
  LET v == volume[Backend[path]] IN
  /\ Call
  /\ CanWrite(v, path, data)
  /\ volume' = [volume EXCEPT ![Backend[path]] = Written(v, path, data, 0)]
  /\ Spend(path)
  /\ Ack(path, data)
  /\ UNCHANGED <<objects, dirs, shelljob>>

\* Call 98, and call 38 on MiniFS, which asks nobody.
DeleteCall(p, path) ==
  LET v == volume[Backend[path]] IN
  /\ Call
  /\ CanDelete(v, path, Uid[p]) \/ Backend[path] = "minifs"
  /\ volume' = [volume EXCEPT ![Backend[path]] = Deleted(v, path)]
  /\ Forget(path)
  /\ UNCHANGED <<sectors, objects, dirs, shelljob>>

\* Call 51: MiniFS only, by the owner or root.
SetMode(p, path, mode) ==
  LET v == volume["minifs"]
      s == Slots(v, FileOf[path])
  IN
  /\ Call
  /\ Backend[path] = "minifs" /\ s # {}
  /\ Uid[p] \in {0, v[First(s)].owner}
  /\ volume' = [volume EXCEPT !["minifs"][First(s)].mode = mode]
  /\ UNCHANGED <<sectors, acked, objects, dirs, shelljob>>

\* Call 50: given away by root or the owner.
SetOwner(p, path, uid) ==
  LET v == volume["minifs"]
      s == Slots(v, FileOf[path])
  IN
  /\ Call
  /\ Backend[path] = "minifs" /\ s # {}
  /\ Uid[p] \in {0, v[First(s)].owner}
  /\ volume' = [volume EXCEPT !["minifs"][First(s)].owner = uid]
  /\ UNCHANGED <<sectors, acked, objects, dirs, shelljob>>

-----------------------------------------------------------------------------
(***************************************************************************)
(* File objects.                                                           *)
(***************************************************************************)
FreeFiles == {f \in 1 .. FILE_OBJECT_SLOTS : ~g_open_files[f].used}

\* The permission test of file_object_open(), for paths under /system.
MayOpen(path, access, uid) ==
  LET s == Slots(volume["minifs"], FileOf[path])
      e == volume["minifs"][First(s)]
  IN InSystem[path] /\ s # {} =>
       /\ access # WRONLY => ~Blocked(e, OWNER_ONLY_READ, uid)
       /\ access # RDONLY => ~Blocked(e, OWNER_ONLY_WRITE, uid)

\* file_object_close() of an open file: what it stores, and where.  Under
\* /system the file is deleted first and given to the opener afterwards;
\* elsewhere the write alone decides.
Cleared(o) == LET v == volume[Backend[o.path]] IN
              IF InSystem[o.path] THEN Deleted(v, o.path) ELSE v
Commits(o) == o.access # RDONLY /\ CanWrite(Cleared(o), o.path, o.buffer)
Commit(o) ==
  /\ volume' = [volume EXCEPT ![Backend[o.path]] =
       CASE o.access = RDONLY -> @
         [] Commits(o) -> Written(Cleared(o), o.path, o.buffer,
                                  IF InSystem[o.path] THEN o.owner_uid ELSE 0)
         [] OTHER -> Cleared(o)]
  /\ IF Commits(o) THEN Spend(o.path) ELSE UNCHANGED sectors

\* Call 44.  The slot is claimed before the file is read; a read-only open
\* of what cannot be read returns without giving it back.  Without a free
\* handle the new object is closed again, which stores its buffer.
Open(p, path, access) ==
  LET f == First(FreeFiles)
      r == vfs_read(path, FILE_MAX_SIZE, Uid[p])
      o == [used |-> TRUE, access |-> access, path |-> path,
            buffer |-> IF access = WRONLY THEN <<>> ELSE r.data,
            cursor |-> 0, owner_uid |-> Uid[p]]
  IN
  /\ Call
  /\ MayOpen(path, access, Uid[p])
  /\ FreeFiles # {}
  /\ \/ /\ access = RDONLY /\ ~r.ok
        /\ g_open_files' = [g_open_files EXCEPT ![f] = o]
        /\ lost' = lost \cup {f}
        /\ UNCHANGED <<disk, handles>>
     \/ /\ access # RDONLY \/ r.ok
        /\ handles[p] = 0
        /\ g_open_files' = [g_open_files EXCEPT ![f] = o]
        /\ handles' = [handles EXCEPT ![p] = f]
        /\ UNCHANGED <<disk, lost>>
     \/ /\ access # RDONLY \/ r.ok
        /\ handles[p] # 0
        /\ Commit(o)
        /\ IF volume' = volume THEN UNCHANGED acked ELSE Forget(path)
        /\ UNCHANGED objects
  /\ UNCHANGED <<dirs, shelljob>>

\* Call 45, n bytes at most; the handle carries the read right.
Read(p, n) ==
  LET f == handles[p]
      o == g_open_files[f]
      remaining == Len(o.buffer) - o.cursor
  IN
  /\ Call
  /\ f # 0 /\ o.access # WRONLY
  /\ g_open_files' = [g_open_files EXCEPT ![f].cursor =
                        @ + (IF n < remaining THEN n ELSE remaining)]
  /\ UNCHANGED <<disk, handles, lost, dirs, shelljob>>

\* (Mutant.) The end of the buffer is not looked at.
WriteUnbounded(p, b) ==
  LET f == handles[p]
      o == g_open_files[f]
  IN
  /\ Call
  /\ f # 0 /\ o.access # RDONLY
  /\ g_open_files' = [g_open_files EXCEPT ![f].cursor = @ + 1,
       ![f].buffer = IF o.cursor < Len(@) THEN [@ EXCEPT ![o.cursor + 1] = b]
                     ELSE Append(@, b)]
  /\ UNCHANGED <<disk, handles, lost, dirs, shelljob>>

\* Call 46: from the cursor on, as far as the buffer goes.
Write(p, b) ==
  LET f == handles[p]
      o == g_open_files[f]
  IN
  /\ Call
  /\ f # 0 /\ o.access # RDONLY
  /\ o.cursor < FILE_MAX_SIZE
  /\ g_open_files' = [g_open_files EXCEPT ![f].cursor = @ + 1,
       ![f].buffer = IF o.cursor < Len(@) THEN [@ EXCEPT ![o.cursor + 1] = b]
                     ELSE Append(@, b)]
  /\ UNCHANGED <<disk, handles, lost, dirs, shelljob>>

\* (Mutant.) A seek may go past the end, up to the buffer's size.
SeekAnywhere(p, pos) ==
  LET f == handles[p] IN
  /\ Call
  /\ f # 0 /\ g_open_files[f].access # WRONLY
  /\ pos \in 0 .. FILE_MAX_SIZE
  /\ g_open_files' = [g_open_files EXCEPT ![f].cursor = pos]
  /\ UNCHANGED <<disk, handles, lost, dirs, shelljob>>

\* Call 47; pos is base plus offset.
Seek(p, pos) ==
  LET f == handles[p] IN
  /\ Call
  /\ f # 0 /\ g_open_files[f].access # WRONLY
  /\ pos \in 0 .. Len(g_open_files[f].buffer)
  /\ g_open_files' = [g_open_files EXCEPT ![f].cursor = pos]
  /\ UNCHANGED <<disk, handles, lost, dirs, shelljob>>

\* (Mutant.) A close that cannot store its buffer keeps the slot.
CloseKeeping(p) ==
  LET f == handles[p]
      o == g_open_files[f]
  IN
  /\ Call
  /\ f # 0
  /\ Commit(o)
  /\ acked' = [acked EXCEPT ![Key(o.path)] =
       IF Commits(o) THEN o.buffer
       ELSE IF volume' = volume THEN @ ELSE NotAcked]
  /\ g_open_files' = IF o.access = RDONLY \/ Commits(o)
                     THEN [g_open_files EXCEPT ![f] = Closed] ELSE g_open_files
  /\ handles' = [handles EXCEPT ![p] = 0]
  /\ UNCHANGED <<lost, dirs, shelljob>>

\* Call 48: the buffer is stored and the slot freed, stored or not.
Close(p) ==
  LET f == handles[p]
      o == g_open_files[f]
  IN
  /\ Call
  /\ f # 0
  /\ Commit(o)
  /\ acked' = [acked EXCEPT ![Key(o.path)] =
       IF Commits(o) THEN o.buffer
       ELSE IF volume' = volume THEN @ ELSE NotAcked]
  /\ g_open_files' = [g_open_files EXCEPT ![f] = Closed]
  /\ handles' = [handles EXCEPT ![p] = 0]
  /\ UNCHANGED <<lost, dirs, shelljob>>

\* Call 13 frees the handle and the object of a file, not its slot.
HandleClose(p) ==
  /\ Call
  /\ handles[p] # 0
  /\ lost' = lost \cup {handles[p]}
  /\ handles' = [handles EXCEPT ![p] = 0]
  /\ UNCHANGED <<disk, g_open_files, dirs, shelljob>>

\* Exit clears the handle table and closes no file and no directory.
Exit(p) ==
  /\ Call
  /\ handles[p] # 0 \/ dircur[p].open
  /\ lost' = lost \cup ({handles[p]} \ {0})
  /\ handles' = [handles EXCEPT ![p] = 0]
  /\ dircur' = [dircur EXCEPT ![p] = NoDir]
  /\ lostdirs' = lostdirs + (IF dircur[p].open THEN 1 ELSE 0)
  /\ UNCHANGED <<disk, g_open_files, shelljob>>

-----------------------------------------------------------------------------
(***************************************************************************)
(* Directory objects.                                                      *)
(***************************************************************************)
\* What vfs_list_entry() returns for an index: MiniFS and tmpfs by slot, FAT32
\* by position among the entries in use; "" is false.
vfs_list_entry(b, i) ==
  LET v == volume[b]
      used == {s \in DOMAIN v : v[s].used}
      nth == {s \in used : Cardinality({t \in used : t <= s}) = i}
  IN IF b = "fat32"
     THEN IF nth = {} THEN "" ELSE v[First(nth)].file
     ELSE IF i \in DOMAIN v /\ v[i].used THEN v[i].file ELSE ""

\* Call 87.
DirOpen(p, b) ==
  /\ Call
  /\ ~dircur[p].open
  /\ Cardinality({q \in Procs : dircur[q].open}) + lostdirs < DIRECTORY_SLOTS
  /\ dircur' = [dircur EXCEPT ![p] = [NoDir EXCEPT !.open = TRUE, !.volume = b]]
  /\ UNCHANGED <<disk, objects, lostdirs, shelljob>>

\* Call 88: the cursor only moves when there was an entry.
DirRead(p) ==
  LET d == dircur[p]
      name == vfs_list_entry(d.volume, d.cursor)
  IN
  /\ Call
  /\ d.open
  /\ dircur' = [dircur EXCEPT ![p] =
       IF name = "" THEN [d EXCEPT !.ended = TRUE]
       ELSE [d EXCEPT !.cursor = @ + 1, !.seen = @ \cup {name}]]
  /\ UNCHANGED <<disk, objects, lostdirs, shelljob>>

\* Call 89.
DirClose(p) ==
  /\ Call
  /\ dircur[p].open
  /\ dircur' = [dircur EXCEPT ![p] = NoDir]
  /\ UNCHANGED <<disk, objects, lostdirs, shelljob>>

-----------------------------------------------------------------------------
(***************************************************************************)
(* cmd_cp() and cmd_mv(): read, delete the destination, write it, and for  *)
(* mv delete the source.  The shell acts as root.                          *)
(***************************************************************************)
ShellRead(kind, src, dst) ==
  LET r == vfs_read(src, FILE_MAX_SIZE, 0) IN
  /\ Call
  /\ shelljob.pc = "idle" /\ r.ok
  /\ shelljob' = [pc |-> "delete", kind |-> kind, src |-> src, dst |-> dst,
                  data |-> r.data]
  /\ UNCHANGED <<disk, objects, dirs>>

ShellDelete ==
  LET b == Backend[shelljob.dst] IN
  /\ shelljob.pc = "delete"
  /\ volume' = [volume EXCEPT ![b] = Deleted(@, shelljob.dst)]
  /\ Forget(shelljob.dst)
  /\ shelljob' = [shelljob EXCEPT !.pc = "write"]
  /\ UNCHANGED <<sectors, calls, objects, dirs>>

\* (Mutant.) The result of vfs_write() is not looked at.
ShellWriteBlind ==
  LET b == Backend[shelljob.dst]
      ok == CanWrite(volume[b], shelljob.dst, shelljob.data)
  IN
  /\ shelljob.pc = "write"
  /\ volume' = [volume EXCEPT ![b] =
       IF ok THEN Written(@, shelljob.dst, shelljob.data, 0) ELSE @]
  /\ IF ok THEN Spend(shelljob.dst) ELSE UNCHANGED sectors
  /\ Ack(shelljob.dst, shelljob.data)
  /\ shelljob' = IF shelljob.kind = "mv"
                 THEN [shelljob EXCEPT !.pc = "remove"] ELSE NoJob
  /\ UNCHANGED <<calls, objects, dirs>>

ShellWrite ==
  LET b == Backend[shelljob.dst]
      ok == CanWrite(volume[b], shelljob.dst, shelljob.data)
  IN
  /\ shelljob.pc = "write"
  /\ volume' = [volume EXCEPT ![b] =
       IF ok THEN Written(@, shelljob.dst, shelljob.data, 0) ELSE @]
  /\ IF ok THEN Spend(shelljob.dst) /\ Ack(shelljob.dst, shelljob.data)
     ELSE UNCHANGED <<sectors, acked>>
  /\ shelljob' = IF ok /\ shelljob.kind = "mv"
                 THEN [shelljob EXCEPT !.pc = "remove"] ELSE NoJob
  /\ UNCHANGED <<calls, objects, dirs>>

\* Deleting the source takes back what was acknowledged for it, unless it is
\* the destination, which is about to be reported as "moved".
ShellRemove ==
  LET b == Backend[shelljob.src] IN
  /\ shelljob.pc = "remove"
  /\ volume' = [volume EXCEPT ![b] = Deleted(@, shelljob.src)]
  /\ IF Key(shelljob.src) = Key(shelljob.dst) THEN UNCHANGED acked
     ELSE Forget(shelljob.src)
  /\ shelljob' = NoJob
  /\ UNCHANGED <<sectors, calls, objects, dirs>>

Next ==
  \/ \E path \in Paths, d \in RawData : WriteCall(path, d)
  \/ \E p \in Procs :
       \/ \E path \in Paths :
            \/ DeleteCall(p, path)
            \/ \E m \in Modes : SetMode(p, path, m)
            \/ \E q \in Procs : SetOwner(p, path, Uid[q])
            \/ \E a \in {RDONLY, WRONLY, RDWR} : Open(p, path, a)
       \/ \E n \in 1 .. 2 : Read(p, n)
       \/ \E b \in Bytes : Write(p, b)
       \/ \E pos \in 0 .. FILE_MAX_SIZE : Seek(p, pos)
       \/ Close(p) \/ HandleClose(p) \/ Exit(p)
       \/ \E b \in Volumes : DirOpen(p, b)
       \/ DirRead(p) \/ DirClose(p)
  \/ \E kind \in {"cp", "mv"}, m \in Moves : ShellRead(kind, m[1], m[2])
  \/ ShellDelete \/ ShellWrite \/ ShellRemove

Spec == Init /\ [][Next]_vars

-----------------------------------------------------------------------------
\* What was last reported stored in a file, by a write call, a close, cp or
\* mv, and not deleted since, is what the file holds, whatever other opens,
\* closes and copies were under way: a success is never reported for data
\* that another writer replaced or that never arrived.
AckedIsStored ==
  \A k \in Keys :
    acked[k] # NotAcked =>
      \E s \in DOMAIN volume[k[1]] :
        volume[k[1]][s].used /\ volume[k[1]][s].file = k[2]
        /\ volume[k[1]][s].data = acked[k]

\* The unsigned length - cursor of file_object_read() cannot wrap, whatever
\* reads, writes and seeks came before.
CursorInside ==
  \A f \in 1 .. FILE_OBJECT_SLOTS :
    g_open_files[f].cursor <= Len(g_open_files[f].buffer)

\* Every slot of the open-file table in use is behind the handle of exactly
\* one process, except those lost to failed read-only opens, to call 13 and to
\* exits, which nothing ever gives back.
FileSlotsAccounted ==
  /\ \A f \in 1 .. FILE_OBJECT_SLOTS :
       g_open_files[f].used =
         (f \in lost \/ \E p \in Procs : handles[p] = f)
  /\ \A p \in Procs : handles[p] \notin lost
  /\ \A p, q \in Procs : handles[p] = handles[q] => p = q \/ handles[p] = 0

\* directory_object_read_next() "Returns false at the real end of the
\* listing": a read that returns false leaves no entry of the directory
\* unread, when every entry read before is still there.
EndIsTheEnd ==
  [][\A p \in Procs : DirRead(p) /\ dircur'[p].ended /\ ~dircur[p].ended =>
       LET v == volume[dircur[p].volume] IN
       Cardinality({s \in DOMAIN v : v[s].used}) <= Cardinality(dircur[p].seen)
    ]_vars

=============================================================================
