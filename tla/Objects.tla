------------------------------ MODULE Objects ------------------------------
(***************************************************************************)
(* Kernel objects and per-process handle tables (proc/ipc/object/object.c) *)
(* and the system calls that create, open, close and grant handles.        *)
(*                                                                         *)
(* An object slot carries no reference count and a handle is only the      *)
(* slot's index, so nothing in the tables says whether the object a handle *)
(* was given for is still the one in the slot; history field "stale" does. *)
(* Every operation runs with interrupts disabled.  Rights are left out:    *)
(* they are copied with the handle and never change.                       *)
(***************************************************************************)
EXTENDS Integers, FiniteSets

CONSTANTS
  Procs,                 \* process slots
  OBJECT_SLOTS,
  HANDLES_PER_PROCESS,
  Resource,              \* an object that is no process: file, pipe, thread...
  Unused,                \* a handle that is not used
  Grants,                \* whether processes grant handles (83, 84)
  MaxDrift,              \* bound: how far below 0 g_object_count may drift
  FullTableOpens         \* whether processes with a full table open or create

ObjectSlots == 0 .. OBJECT_SLOTS - 1
Handles == 0 .. HANDLES_PER_PROCESS - 1

\* What alloc_object() returns when every slot is used.
NoObject == -1

VARIABLES
  tables,    \* g_objects, g_object_count and g_handle_tables
  alive,     \* g_processes[p].used
  named      \* process slots some task's process_index still names

vars == <<tables, alive, named>>

\* The tables hold slots, kinds, and handles on slots or on no slot at all.
TypeOK ==
  /\ tables.used \subseteq ObjectSlots
  /\ tables.g_object_count \in Int
  /\ tables.data \in [ObjectSlots -> Procs \cup {Resource}]
  /\ tables.object_index \in
       [Procs -> [Handles -> ObjectSlots \cup {NoObject, Unused}]]
  /\ tables.stale \in [Procs -> [Handles -> BOOLEAN]]
  /\ alive \subseteq Procs
  /\ named \subseteq Procs

Init ==
  /\ tables = [used |-> {},
               g_object_count |-> 0,
               data |-> [o \in ObjectSlots |-> Resource],
               object_index |-> [p \in Procs |-> [h \in Handles |-> Unused]],
               stale |-> [p \in Procs |-> [h \in Handles |-> FALSE]]]
  /\ alive = {}
  /\ named = {}

-----------------------------------------------------------------------------
Least(S) == CHOOSE x \in S : \A y \in S : x <= y

FreeObjects(k) == ObjectSlots \ k.used
FreeHandles(k, p) == {h \in Handles : k.object_index[p][h] = Unused}

\* alloc_object(): the index it returns, and the tables it leaves.
NewObject(k) == IF FreeObjects(k) = {} THEN NoObject ELSE Least(FreeObjects(k))

AllocObject(k, kind) ==
  IF FreeObjects(k) = {} THEN k
  ELSE LET o == NewObject(k) IN
       [k EXCEPT !.used = @ \cup {o},
                 !.data[o] = kind,
                 !.g_object_count = @ + 1]

AllocHandleLast(k, p, o) ==
  IF FreeHandles(k, p) = {} THEN k
  ELSE LET h == CHOOSE x \in FreeHandles(k, p) :
                  \A y \in FreeHandles(k, p) : x >= y IN
       [k EXCEPT !.object_index[p][h] = o, !.stale[p][h] = FALSE]

\* alloc_handle(): the first unused entry, none when the table is full.
AllocHandle(k, p, o) ==
  IF FreeHandles(k, p) = {} THEN k
  ELSE LET h == Least(FreeHandles(k, p)) IN
       [k EXCEPT !.object_index[p][h] = o, !.stale[p][h] = FALSE]

CloseUncounted(k, p, H) ==
  LET objs == {k.object_index[p][h] : h \in H} IN
  [k EXCEPT !.used = @ \ objs,
            !.object_index[p] =
               [h \in Handles |-> IF h \in H THEN Unused ELSE @[h]]]

CloseHandlesOnly(k, p, H) ==
  [k EXCEPT !.g_object_count = @ - Cardinality(H),
            !.object_index[p] =
               [h \in Handles |-> IF h \in H THEN Unused ELSE @[h]]]

CloseObjectsOnly(k, p, H) ==
  [k EXCEPT !.used = @ \ {k.object_index[p][h] : h \in H},
            !.g_object_count = @ - Cardinality(H)]

(***************************************************************************)
(* free_object() and free_handle() for the entries H of p's table; every   *)
(* other handle that names one of the slots goes stale.                    *)
(***************************************************************************)
Close(k, p, H) ==
  LET objs == {k.object_index[p][h] : h \in H} IN
  [k EXCEPT !.used = @ \ objs,
            !.g_object_count = @ - Cardinality(H),
            !.object_index[p] =
               [h \in Handles |-> IF h \in H THEN Unused ELSE @[h]],
            !.stale = [q \in Procs |-> [h \in Handles |->
               /\ ~(q = p /\ h \in H)
               /\ k.stale[q][h] \/ k.object_index[q][h] \in objs]]]

UsedHandles(p) == {h \in Handles : tables.object_index[p][h] # Unused}

-----------------------------------------------------------------------------
(***************************************************************************)
(* The end of spawn_process() and of fork: handle 0 is the new process,    *)
(* and a sandboxed one also gets its policy.  The result of alloc_object() *)
(* for handle 0 is not tested.                                             *)
(***************************************************************************)
Spawn(p, sandboxed) ==
  LET self == AllocHandle(AllocObject(tables, p), p, NewObject(tables)) IN
  /\ p \notin alive
  /\ tables' = IF sandboxed /\ FreeObjects(self) # {}
               THEN AllocHandle(AllocObject(self, Resource), p, NewObject(self))
               ELSE self
  /\ alive' = alive \cup {p}
  /\ named' = named \cup {p}

\* process_exit: the handle table is emptied from entry 0 up.
ProcessExit(p) ==
  /\ p \in alive
  /\ tables.g_object_count - Cardinality(UsedHandles(p)) >= -MaxDrift
  /\ tables' = Close(tables, p, UsedHandles(p))
  /\ alive' = alive \ {p}
  /\ UNCHANGED named

(***************************************************************************)
(* Opening or creating a file, pipe, thread, request...: an object and a   *)
(* handle on it; the object is given back if there is no handle for it.    *)
(***************************************************************************)
Create(p) ==
  /\ p \in alive
  /\ FreeObjects(tables) # {}
  /\ FreeHandles(tables, p) # {}
  /\ tables' = AllocHandle(AllocObject(tables, Resource), p, NewObject(tables))
  /\ UNCHANGED <<alive, named>>

\* event_create, mutex_create, timer_create: the object stays allocated if
\* there is no handle for it.
SyncCreate(p) ==
  /\ p \in alive
  /\ FreeObjects(tables) # {}
  /\ FreeHandles(tables, p) # {} \/ FullTableOpens
  /\ tables' = AllocHandle(AllocObject(tables, Resource), p, NewObject(tables))
  /\ UNCHANGED <<alive, named>>

\* process_open: the object stays allocated if there is no handle for it.
ProcessOpen(p, q) ==
  /\ p \in alive
  /\ q \in named
  /\ FreeObjects(tables) # {}
  /\ FreeHandles(tables, p) # {} \/ FullTableOpens
  /\ tables' = AllocHandle(AllocObject(tables, q), p, NewObject(tables))
  /\ UNCHANGED <<alive, named>>

HandleClose(p, h) ==
  /\ p \in alive
  /\ tables.object_index[p][h] # Unused
  /\ tables.g_object_count > -MaxDrift
  /\ tables' = Close(tables, p, {h})
  /\ UNCHANGED <<alive, named>>

(***************************************************************************)
(* handle_grant: the target is a task; its process_index is used whether   *)
(* or not that process still runs.                                         *)
(***************************************************************************)
HandleGrant(p, h, q) ==
  /\ Grants
  /\ p \in alive
  /\ tables.object_index[p][h] # Unused
  /\ q \in named
  /\ tables' = AllocHandle(tables, q, tables.object_index[p][h])
  /\ UNCHANGED <<alive, named>>

\* handle_grant3: three grants, cut short when the target's table is full.
HandleGrant3(p, a, b, c, q) ==
  LET index(h) == tables.object_index[p][h]
      one == AllocHandle(tables, q, index(a))
      two == AllocHandle(one, q, one.object_index[p][b])
  IN
  /\ Grants
  /\ p \in alive
  /\ \A h \in {a, b, c} : index(h) # Unused
  /\ q \in named
  /\ tables' = AllocHandle(two, q, two.object_index[p][c])
  /\ UNCHANGED <<alive, named>>

Next ==
  \/ \E p \in Procs, sandboxed \in BOOLEAN : Spawn(p, sandboxed)
  \/ \E p \in Procs : ProcessExit(p)
  \/ \E p \in Procs : Create(p)
  \/ \E p \in Procs : SyncCreate(p)
  \/ \E p, q \in Procs : ProcessOpen(p, q)
  \/ \E p \in Procs, h \in Handles : HandleClose(p, h)
  \/ \E p, q \in Procs, h \in Handles : HandleGrant(p, h, q)
  \/ \E p, q \in Procs, a, b, c \in Handles : HandleGrant3(p, a, b, c, q)

Spec == Init /\ [][Next]_vars

-----------------------------------------------------------------------------
(***************************************************************************)
(* A used handle names the object it was given for: the slot is still in   *)
(* use and has not been freed and allocated again in between.              *)
(***************************************************************************)
HandlesNameTheirObject ==
  \A p \in Procs : \A h \in UsedHandles(p) :
    /\ tables.object_index[p][h] \in tables.used
    /\ ~tables.stale[p][h]

(***************************************************************************)
(* g_object_count is the number of used object slots after any sequence of *)
(* creations, closes and exits.                                            *)
(***************************************************************************)
ObjectCountExact == tables.g_object_count = Cardinality(tables.used)

(***************************************************************************)
(* Grants make free_object() run twice on one object, but the error has    *)
(* one direction: g_object_count never exceeds the number of used slots.   *)
(***************************************************************************)
ObjectCountNeverAbove == tables.g_object_count <= Cardinality(tables.used)

(***************************************************************************)
(* No object leaks: an object slot in use is named by some handle, so that *)
(* closing handles and exiting gets every slot back.                       *)
(***************************************************************************)
ObjectsHeld ==
  \A o \in tables.used :
    \E p \in Procs : \E h \in UsedHandles(p) : tables.object_index[p][h] = o

(***************************************************************************)
(* "A reused slot's handle table is already clean": a process slot that is *)
(* not in use has no used handle.                                          *)
(***************************************************************************)
FreeSlotsHaveCleanTables == \A p \in Procs \ alive : UsedHandles(p) = {}

(***************************************************************************)
(* "handle 0 = myself, free for every process": a process starts with      *)
(* handle 0 on an object that names the process itself.                    *)
(***************************************************************************)
StartsWithSelfHandle ==
  [][\A p \in alive' \ alive :
       LET o == tables'.object_index[p][0] IN
       o \in tables'.used /\ tables'.data[o] = p]_vars

(***************************************************************************)
(* handle_grant3: "a waiting child either sees all three handles or none,  *)
(* never a partial set".                                                   *)
(***************************************************************************)
GrantsAllOrNone ==
  [][\A p, q \in Procs, a, b, c \in Handles :
       HandleGrant3(p, a, b, c, q) =>
         \/ Cardinality(FreeHandles(tables, q)) >= 3
         \/ UNCHANGED tables]_vars
=============================================================================
