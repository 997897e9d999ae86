----------------------------- MODULE Processes -----------------------------
(***************************************************************************)
(* The process table: spawn_process() (proc/process.c), fork (syscall 95), *)
(* process_exit (12) and process_wait (96), and the links between process  *)
(* slots and the main tasks that run them.                                 *)
(*                                                                         *)
(* spawn_process() looks for a free slot first, then builds the address    *)
(* space, and registers the process in a section with interrupts disabled. *)
(* From a system call or the keyboard ISR interrupts are off all along and *)
(* the whole is one step; in a kernel task (the shell, the service         *)
(* manager's worker) other tasks may run between search and registration.  *)
(***************************************************************************)
EXTENDS Integers, FiniteSets

CONSTANTS
  MAX_PROCESSES,
  UserTasks,       \* task slots for main tasks of processes
  KernelSpawners,  \* kernel tasks that call spawn_process()
  SpawnsOverlap,   \* whether a system call may create a process while a
                   \* kernel task is between its scan and its registration
  NONE

ASSUME ProcessesAssumption ==
  /\ MAX_PROCESSES \in Nat
  /\ SpawnsOverlap \in BOOLEAN
  /\ NONE \notin Int
  /\ NONE \notin UserTasks

\* Slots from MAX_PROCESSES on are the memory behind g_processes.
Slots == 0 .. MAX_PROCESSES + Cardinality(KernelSpawners)

VARIABLES
  g_process_count,
  pused, task_index,       \* fields of g_processes[p]; task_index names the
                           \* address space too, each main task has its own
  tused, process_index,    \* fields of g_tasks[t]
  choice,                  \* proc_index found by a kernel spawner's scan
  waits_for,               \* the process slot task t waits for in process_wait
  awaited_gone             \* history: the process t waits for has exited

vars == <<g_process_count, pused, task_index, tused, process_index, choice,
          waits_for, awaited_gone>>

\* proc_index after a scan that found no exited slot.
NewSlot == -1

\* Each field holds a slot, a task or its null value, and spawn_process()
\* "appends (bounded by ...)": the table never grows past its array.
TypeOK ==
  /\ g_process_count \in 0 .. MAX_PROCESSES
  /\ pused \in [Slots -> BOOLEAN]
  /\ task_index \in [Slots -> UserTasks \cup {NONE}]
  /\ tused \in [UserTasks -> BOOLEAN]
  /\ process_index \in [UserTasks -> Slots \cup {NONE}]
  /\ choice \in [KernelSpawners -> Slots \cup {NewSlot, NONE}]
  /\ waits_for \in [UserTasks -> Slots \cup {NONE}]
  /\ awaited_gone \in [UserTasks -> BOOLEAN]

Init ==
  /\ g_process_count = 0
  /\ pused = [p \in Slots |-> FALSE]
  /\ task_index = [p \in Slots |-> NONE]
  /\ tused = [t \in UserTasks |-> FALSE]
  /\ process_index = [t \in UserTasks |-> NONE]
  /\ choice = [s \in KernelSpawners |-> NONE]
  /\ waits_for = [t \in UserTasks |-> NONE]
  /\ awaited_gone = [t \in UserTasks |-> FALSE]

-----------------------------------------------------------------------------
ExitedSlots == {p \in 0 .. g_process_count - 1 : ~pused[p]}

CanSpawnAlways == TRUE

\* The test after the scan: an exited slot, or room to append one.
CanSpawn == ExitedSlots # {} \/ g_process_count < MAX_PROCESSES

FirstFree ==
  IF ExitedSlots = {} THEN NewSlot
  ELSE CHOOSE p \in ExitedSlots : \A q \in ExitedSlots : p <= q

\* proc_index once an append has been resolved to the end of the table.
SlotOf(found) == IF found = NewSlot THEN g_process_count ELSE found

LinkForgotten(t, p) == process_index

\* The back link from the task to its process slot.
Link(t, p) == [process_index EXCEPT ![t] = p]

(***************************************************************************)
(* The critical section of spawn_process() and fork: a task, the process   *)
(* record, the back link.  With no task slot left nothing is registered;   *)
(* kernel tasks and threads use the slots too, so that may always happen.  *)
(***************************************************************************)
Register(found) ==
  LET p == SlotOf(found) IN
  \/ /\ \E t \in UserTasks :
          /\ ~tused[t]
          /\ tused' = [tused EXCEPT ![t] = TRUE]
          /\ pused' = [pused EXCEPT ![p] = TRUE]
          /\ task_index' = [task_index EXCEPT ![p] = t]
          /\ process_index' = Link(t, p)
     /\ g_process_count' = IF found = NewSlot THEN g_process_count + 1
                           ELSE g_process_count
     /\ UNCHANGED <<waits_for, awaited_gone>>
  \/ UNCHANGED <<g_process_count, pused, task_index, tused, process_index,
                  waits_for, awaited_gone>>

\* spawn_process() from a system call or an ISR; fork.
SyscallSpawn ==
  /\ SpawnsOverlap \/ \A s \in KernelSpawners : choice[s] = NONE
  /\ CanSpawn
  /\ Register(FirstFree)
  /\ UNCHANGED choice

SpawnScan(s) ==
  /\ choice[s] = NONE
  /\ CanSpawn
  /\ choice' = [choice EXCEPT ![s] = FirstFree]
  /\ UNCHANGED <<g_process_count, pused, task_index, tused, process_index,
                 waits_for, awaited_gone>>

SpawnRegister(s) ==
  /\ choice[s] # NONE
  /\ Register(choice[s])
  /\ choice' = [choice EXCEPT ![s] = NONE]

Running(t) == tused[t] /\ waits_for[t] = NONE

ExitKeepsRecord(p) == pused

\* The process record process_exit gives back.
Release(p) == [pused EXCEPT ![p] = FALSE]

(***************************************************************************)
(* process_exit by the main task t: the record of process_index, whosever  *)
(* it is by now, is released, the address space it names freed, and the    *)
(* task ends.                                                              *)
(***************************************************************************)
Exit(t) ==
  LET p == process_index[t] IN
  /\ Running(t)
  /\ pused' = Release(p)
  /\ tused' = [tused EXCEPT ![t] = FALSE]
  /\ awaited_gone' = [w \in UserTasks |-> awaited_gone[w] \/ waits_for[w] = p]
  /\ UNCHANGED <<g_process_count, task_index, process_index, choice, waits_for>>

\* process_wait on a handle to the process in slot p, t's own included: then
\* it never returns.
ProcessWait(t, p) ==
  /\ Running(t)
  /\ pused[p]
  /\ waits_for' = [waits_for EXCEPT ![t] = p]
  /\ awaited_gone' = [awaited_gone EXCEPT ![t] = FALSE]
  /\ UNCHANGED <<g_process_count, pused, task_index, tused, process_index,
                 choice>>

WaitSeesExitAtOnce(p) == TRUE

\* The condition that ends the busy loop of process_wait.
WaitSeesExit(p) == ~pused[p]

WaitReturns(t) ==
  /\ waits_for[t] # NONE
  /\ WaitSeesExit(waits_for[t])
  /\ waits_for' = [waits_for EXCEPT ![t] = NONE]
  /\ UNCHANGED <<g_process_count, pused, task_index, tused, process_index,
                 choice, awaited_gone>>

Next ==
  \/ SyscallSpawn
  \/ \E s \in KernelSpawners : SpawnScan(s)
  \/ \E s \in KernelSpawners : SpawnRegister(s)
  \/ \E t \in UserTasks : Exit(t)
  \/ \E t \in UserTasks, p \in Slots : ProcessWait(t, p)
  \/ \E t \in UserTasks : WaitReturns(t)

Spec == Init /\ [][Next]_vars

-----------------------------------------------------------------------------
(***************************************************************************)
(* Every live main task owns the record its process_index names, so that   *)
(* process_exit frees its own address space and not that of a process that *)
(* took the slot over.                                                     *)
(***************************************************************************)
TaskOwnsItsRecord ==
  \A t \in UserTasks :
    tused[t] => /\ process_index[t] # NONE
                /\ pused[process_index[t]]
                /\ task_index[process_index[t]] = t

(***************************************************************************)
(* No orphans: a process record in use belongs to a live task that will    *)
(* release it when it exits (the "stuck respawn" of process.c's comment).  *)
(***************************************************************************)
NoOrphanRecord ==
  \A p \in Slots :
    pused[p] => /\ task_index[p] # NONE
                /\ tused[task_index[p]]
                /\ process_index[task_index[p]] = p

\* With one spawn at a time, a live task's process record is in use and names
\* the task, and a record in use names a live task (process_spawn(),
\* process_exit() and process_kill() in any order).
RecordsPaired == TaskOwnsItsRecord /\ NoOrphanRecord

(***************************************************************************)
(* process_wait returns only after the process it was called for exited,   *)
(* whatever has become of its slot since.                                  *)
(***************************************************************************)
WaitIsNotEarly ==
  [][\A t \in UserTasks :
       waits_for[t] # NONE /\ waits_for'[t] = NONE => awaited_gone[t]]_vars
=============================================================================
