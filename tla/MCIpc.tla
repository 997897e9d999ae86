------------------------------- MODULE MCIpc -------------------------------
(***************************************************************************)
(* Interprocess communication for TLC: mutexes, pipes, the request tables, *)
(* and the handle tables in a system without grants and in one with them.  *)
(* The models share no state and are explored one at a time: `part' says   *)
(* which one a behaviour is about.                                         *)
(***************************************************************************)
EXTENDS Mutex, Pipe, Requests

CONSTANTS p1, p2, resource, unused

VARIABLES
  part,
  tables, alive, named,                                    \* Objects
  gtables, galive, gnamed                                  \* with grants

\* Of Requests: processes of one thread each.
OneThreadEach == [t \in Threads |-> t]

O == INSTANCE Objects WITH
  OBJECT_SLOTS <- 4, HANDLES_PER_PROCESS <- 2,
  Resource <- resource, Unused <- unused, MaxDrift <- 2,
  Grants <- FALSE, FullTableOpens <- FALSE

G == INSTANCE Objects WITH
  OBJECT_SLOTS <- 2, HANDLES_PER_PROCESS <- 2,
  Resource <- resource, Unused <- unused, MaxDrift <- 0,
  Grants <- TRUE, FullTableOpens <- FALSE,
  tables <- gtables, alive <- galive, named <- gnamed

objects == <<tables, alive, named>>
grants == <<gtables, galive, gnamed>>
mcvars == <<part, vars, pipe_vars, request_vars, objects, grants>>

MCInit ==
  /\ part \in {"mutex", "pipe", "requests", "objects", "grants"}
  /\ Init /\ PipeInit /\ RequestsInit /\ O!Init /\ G!Init
  /\ part # "pipe" => buffer = [q \in Positions |-> CHOOSE b \in Bytes : TRUE]

MCNext ==
  /\ UNCHANGED part
  /\ \/ part = "mutex" /\ Next
        /\ UNCHANGED <<pipe_vars, request_vars, objects, grants>>
     \/ part = "pipe" /\ PipeNext
        /\ UNCHANGED <<vars, request_vars, objects, grants>>
     \/ part = "requests" /\ RequestsNext
        /\ UNCHANGED <<vars, pipe_vars, objects, grants>>
     \/ part = "objects" /\ O!Next
        /\ UNCHANGED <<vars, pipe_vars, request_vars, grants>>
     \/ part = "grants" /\ G!Next
        /\ UNCHANGED <<vars, pipe_vars, request_vars, objects>>

MCSpec == MCInit /\ [][MCNext]_mcvars

-----------------------------------------------------------------------------
\* Positions, counts, slots and handles stay inside the arrays of mutexes,
\* pipes, requests, objects and handles.
TypesOK == TypeOK /\ PipeTypeOK /\ RequestsTypeOK /\ O!TypeOK /\ G!TypeOK

\* As long as no handle is granted: every used handle names the object it was
\* given for, in use and not freed and allocated again in between; each object
\* slot in use is named by some handle; g_object_count is the number of used
\* slots after any sequence of creations, closes and exits; and handle 0 of a
\* new process is the process itself while tables have room.  With grants
\* free_object() may run twice on one object, but the count errs in one
\* direction: it never exceeds the number of used slots.
ObjectsSound ==
  /\ [](O!HandlesNameTheirObject /\ O!ObjectsHeld /\ O!ObjectCountExact)
  /\ O!StartsWithSelfHandle
  /\ []G!ObjectCountNeverAbove
=============================================================================
