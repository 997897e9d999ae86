------------------------------ MODULE Services ------------------------------
(***************************************************************************)
(* The service manager (kernel/services/service_manager.c): a table of     *)
(* named services, start, stop and restart, and the worker task that       *)
(* brings back a service whose process has exited.                         *)
(*                                                                         *)
(* A service knows its process only by the process slot.  The worker and   *)
(* the shell run with interrupts enabled, so they may be preempted between *)
(* the look at the table, the spawn and the record of the new slot; the    *)
(* same calls made through system calls 65-67 are one step.  Spawning      *)
(* itself is atomic here; module Processes opens it up.                    *)
(***************************************************************************)
EXTENDS Naturals

CONSTANTS
  Names,          \* registered services, in table order
  Slots,          \* process slots, a set of numbers
  Callers,        \* kernel tasks that call service_start(): the shell
  Others,         \* whether processes that are no service come and go
  Worker, NONE

VARIABLES
  used,           \* g_processes[p].used
  program,        \* history: the service whose image runs in slot p
  running, auto_restart, process_index,     \* fields of g_services
  pc, target, proc_index                    \* locals of worker and callers

table == <<running, auto_restart, process_index>>
locals == <<pc, target, proc_index>>
vars == <<used, program, table, locals>>

Tasks == {Worker} \cup Callers

\* Each field holds a slot or -1 (NONE), each task is at one of three places.
TypeOK ==
  /\ used \in [Slots -> BOOLEAN]
  /\ program \in [Slots -> Names \cup {NONE}]
  /\ running \in [Names -> BOOLEAN]
  /\ auto_restart \in [Names -> BOOLEAN]
  /\ process_index \in [Names -> Slots \cup {NONE}]
  /\ pc \in [Tasks -> {"idle", "spawn", "record"}]
  /\ target \in [Tasks -> Names \cup {NONE}]
  /\ proc_index \in [Tasks -> Slots \cup {NONE}]

Init ==
  /\ used = [p \in Slots |-> FALSE]
  /\ program = [p \in Slots |-> NONE]
  /\ running = [n \in Names |-> FALSE]
  /\ auto_restart = [n \in Names |-> TRUE]   \* as kmain() registers them
  /\ process_index = [n \in Names |-> NONE]
  /\ pc = [k \in Tasks |-> "idle"]
  /\ target = [k \in Tasks |-> NONE]
  /\ proc_index = [k \in Tasks |-> NONE]

-----------------------------------------------------------------------------
FreeSlots == {p \in Slots : ~used[p]}

\* spawn_process() reuses the first exited slot.
FirstFree == CHOOSE p \in FreeSlots : \A q \in FreeSlots : p <= q

Occupy(p, prog) ==
  /\ used' = [used EXCEPT ![p] = TRUE]
  /\ program' = [program EXCEPT ![p] = prog]

\* process_exit of whatever runs in slot p.
ProcessExit(p) ==
  /\ used[p]
  /\ used' = [used EXCEPT ![p] = FALSE]
  /\ program' = [program EXCEPT ![p] = NONE]
  /\ UNCHANGED <<table, locals>>

\* A process that is no service starts.
SpawnOther ==
  /\ Others
  /\ FreeSlots # {}
  /\ Occupy(FirstFree, NONE)
  /\ UNCHANGED <<table, locals>>

StartsAlways(n) == TRUE

\* service_start() goes on to spawn unless the table says running.
MustSpawn(n) == ~running[n]

\* The tail of service_start().
MarkStarted(n, p) ==
  /\ process_index' = [process_index EXCEPT ![n] = p]
  /\ running' = [running EXCEPT ![n] = TRUE]

\* service_start() as system call 65; with no free slot it fails.
SyscallStart(n) ==
  /\ MustSpawn(n)
  /\ FreeSlots # {}
  /\ Occupy(FirstFree, n)
  /\ MarkStarted(n, FirstFree)
  /\ UNCHANGED <<auto_restart, locals>>

\* service_restart() as system call 67.
SyscallRestart(n) ==
  /\ auto_restart' = [auto_restart EXCEPT ![n] = TRUE]
  /\ IF MustSpawn(n) /\ FreeSlots # {}
     THEN Occupy(FirstFree, n) /\ MarkStarted(n, FirstFree)
     ELSE UNCHANGED <<used, program, running, process_index>>
  /\ UNCHANGED locals

\* service_stop(), one store.
Stop(n) ==
  /\ auto_restart' = [auto_restart EXCEPT ![n] = FALSE]
  /\ UNCHANGED <<used, program, running, process_index, locals>>

Goes(k, n) ==
  /\ pc' = [pc EXCEPT ![k] = "spawn"]
  /\ target' = [target EXCEPT ![k] = n]
  /\ UNCHANGED <<used, program, running, process_index, proc_index>>

\* A kernel task enters service_start(), directly or from service_restart().
CallerStart(k, n) ==
  /\ pc[k] = "idle"
  /\ MustSpawn(n)
  /\ Goes(k, n)
  /\ \/ UNCHANGED auto_restart
     \/ auto_restart' = [auto_restart EXCEPT ![n] = TRUE]

LooksDeadInverted(n) == used[process_index[n]]

\* The process slot of a service is free.
LooksDead(n) == ~used[process_index[n]]

RespawnEvenStopped(n) == running[n] /\ LooksDead(n)

\* The worker's test for a service to bring back.
NeedsRespawn(n) == running[n] /\ auto_restart[n] /\ LooksDead(n)

WorkerLook(n) ==
  /\ pc[Worker] = "idle"
  /\ NeedsRespawn(n)
  /\ Goes(Worker, n)
  /\ UNCHANGED auto_restart

SpawnForTarget(k) ==
  /\ pc[k] = "spawn"
  /\ FreeSlots # {}
  /\ Occupy(FirstFree, target[k])
  /\ proc_index' = [proc_index EXCEPT ![k] = FirstFree]
  /\ pc' = [pc EXCEPT ![k] = "record"]
  /\ UNCHANGED <<table, target>>

Done(k) ==
  /\ pc' = [pc EXCEPT ![k] = "idle"]
  /\ target' = [target EXCEPT ![k] = NONE]
  /\ proc_index' = [proc_index EXCEPT ![k] = NONE]

\* Out of process slots: service_start() returns false, the worker clears
\* the running flag.
SpawnFails(k) ==
  /\ pc[k] = "spawn"
  /\ FreeSlots = {}
  /\ running' = IF k = Worker THEN [running EXCEPT ![target[k]] = FALSE]
                ELSE running
  /\ Done(k)
  /\ UNCHANGED <<used, program, auto_restart, process_index>>

RecordForgotten(k) == process_index

\* The slot a service's new process is recorded under.
Recorded(k) == [process_index EXCEPT ![target[k]] = proc_index[k]]

Record(k) ==
  /\ pc[k] = "record"
  /\ process_index' = Recorded(k)
  /\ running' = IF k = Worker THEN running
                ELSE [running EXCEPT ![target[k]] = TRUE]
  /\ Done(k)
  /\ UNCHANGED <<used, program, auto_restart>>

WorkerStep ==
  \/ \E n \in Names : WorkerLook(n)
  \/ SpawnForTarget(Worker)
  \/ SpawnFails(Worker)
  \/ Record(Worker)

CallerStep(k) ==
  \/ \E n \in Names : CallerStart(k, n)
  \/ SpawnForTarget(k)
  \/ SpawnFails(k)
  \/ Record(k)

Next ==
  \/ \E p \in Slots : ProcessExit(p)
  \/ SpawnOther
  \/ \E n \in Names : SyscallStart(n)
  \/ \E n \in Names : SyscallRestart(n)
  \/ \E n \in Names : Stop(n)
  \/ WorkerStep
  \/ \E k \in Callers : CallerStep(k)

Spec == Init /\ [][Next]_vars

(***************************************************************************)
(* The worker is a task that yields at the end of each pass over the table *)
(* and is scheduled again (RunnableRuns of module Scheduler).              *)
(***************************************************************************)
FairSpec == Spec /\ WF_vars(WorkerStep)

-----------------------------------------------------------------------------
Instances(n) == {p \in Slots : used[p] /\ program[p] = n}

(***************************************************************************)
(* "already running - starting again is a no-op success": service_start()  *)
(* and the worker together never have two processes of one service alive.  *)
(***************************************************************************)
OneInstance ==
  \A n \in Names : \A p, q \in Instances(n) : p = q

(***************************************************************************)
(* process_index is "valid only while running": the live process the table *)
(* shows for a running service (what service_get_status() reports) is a    *)
(* process of that service.                                                *)
(***************************************************************************)
StatusNamesService ==
  \A n \in Names :
    running[n] /\ used[process_index[n]] => program[process_index[n]] = n

(***************************************************************************)
(* A live process of a service is never lost: some row of the table, or a  *)
(* task about to write that row, names its slot.                           *)
(***************************************************************************)
NoLostInstance ==
  \A n \in Names : \A p \in Instances(n) :
    \/ running[n] /\ process_index[n] = p
    \/ \E k \in Tasks : pc[k] = "record" /\ target[k] = n /\ proc_index[k] = p

(***************************************************************************)
(* The worker "loops forever, respawning any used&&running&&auto_restart   *)
(* service whose process has genuinely exited".                            *)
(***************************************************************************)
RespawnHappens ==
  \A n \in Names :
    running[n] /\ auto_restart[n] /\ Instances(n) = {}
      ~> Instances(n) # {} \/ ~auto_restart[n]

(***************************************************************************)
(* "out of process slots - stop trying this tick": a service that is to be *)
(* restarted comes back at a later tick, provided slots keep becoming free.*)
(***************************************************************************)
RespawnRetried == []<>(FreeSlots # {}) => RespawnHappens

Targeted(n) == \E k \in Tasks : target[k] = n

(***************************************************************************)
(* A stopped service stays down: stop means "don't respawn the next time   *)
(* this exits".  Once it is down with no start or respawn under way, it    *)
(* comes back only after auto_restart was set again (service_restart()).   *)
(***************************************************************************)
StoppedStaysDown ==
  [][\A n \in Names :
       running[n] /\ ~auto_restart[n] /\ Instances(n) = {} /\ ~Targeted(n)
         => \/ Instances(n)' = {} /\ ~Targeted(n)'
            \/ auto_restart'[n]]_vars

(***************************************************************************)
(* A start that reports success without spawning finds the service alive,  *)
(* or due to be brought back by the worker: "already running - starting    *)
(* again is a no-op success".                                              *)
(***************************************************************************)
NoOpMeansRunning ==
  \A n \in Names :
    ~MustSpawn(n) => Instances(n) # {} \/ auto_restart[n]
=============================================================================
