----------------------------- MODULE Scheduler -----------------------------
(***************************************************************************)
(* The task table and the round-robin scheduler of kernel/sched/task.c,    *)
(* with the two ways a task loses the CPU: a call of yield() of its own    *)
(* and the timer interrupt, which calls yield() from inside the ISR.       *)
(*                                                                         *)
(* The machine has one CPU, so exactly one task, g_current_task, takes     *)
(* steps.  What interleaves is decided by the interrupt flag: every IDT    *)
(* gate is an interrupt gate, so a system call runs with IF clear until a  *)
(* yield() really switches away; switch_context() executes sti, so what    *)
(* follows that yield() runs with IF set and can be preempted anywhere.    *)
(* Kernel tasks run with IF set throughout.  int_on[t] is that flag, pc[t] *)
(* the place in the kernel at which task t stands.                         *)
(***************************************************************************)
EXTENDS Integers

CONSTANTS
  MAX_TASKS,   \* size of g_tasks
  BootTasks,   \* how many tasks kmain() has created when it executes sti
  Spinners,    \* boot tasks whose entry function never blocks nor returns
  Events,      \* the words a task may wait on (g_events[i].signaled)
  NULL,        \* a null waiting_on pointer
  MaxTick      \* bound: g_tick_count saturates here, deadlines stay below

(***************************************************************************)
(* kmain() creates task1_entry, task2_entry and task3_entry, which loop    *)
(* without ever blocking, before it enables interrupts.                    *)
(***************************************************************************)
ASSUME SchedulerAssumption ==
  /\ MAX_TASKS \in Nat \ {0}
  /\ BootTasks \in 1 .. MAX_TASKS
  /\ Spinners \subseteq 1 .. BootTasks - 1
  /\ Spinners # {}
  /\ NULL \notin Events
  /\ MaxTick \in Nat

Tasks == 0 .. MAX_TASKS - 1

Boot == 0 .. BootTasks - 1

VARIABLES
  used, blocked, waiting_on, wake_tick,   \* fields of g_tasks[i]
  g_task_count, g_current_task, g_tick_count,
  signaled,    \* the word behind each waiting_on pointer
  pc,          \* where each task stands
  event,       \* the index event_wait() was called with
  target,      \* the target_task_index thread_join() was called with
  int_on,      \* the interrupt flag task t runs (or will resume) with
  ring3,       \* ring3_entry_vaddr # 0: the task runs user code
  tss_rsp0,    \* whose kernel stack TSS.RSP0 points at (0: the boot stack)
  missed       \* history: the task t is joining has exited since the call

vars == <<used, blocked, waiting_on, wake_tick, g_task_count, g_current_task,
          g_tick_count, signaled, pc, event, target, int_on, ring3,
          tss_rsp0, missed>>

(***************************************************************************)
(* pc values.  "run": outside the scheduler.  "test": at the head of the   *)
(* while loop of event_wait().  "park": blocked and waiting_on written,    *)
(* yield() not yet called.  "doze": the same in sleep_ticks() and          *)
(* timer_wait().  "slept": the yield() of those two has returned.  "join": *)
(* in the loop of thread_join().  "gone": after the yield() of an exit.    *)
(***************************************************************************)
PCs == {"run", "test", "park", "doze", "slept", "join", "gone"}

\* The types the C declarations give; the counts index the task table.
TypeOK ==
  /\ used \in [Tasks -> BOOLEAN]
  /\ blocked \in [Tasks -> BOOLEAN]
  /\ waiting_on \in [Tasks -> Events \cup {NULL}]
  /\ wake_tick \in [Tasks -> Nat]
  /\ g_task_count \in BootTasks .. MAX_TASKS
  /\ g_current_task \in 0 .. g_task_count - 1
  /\ g_tick_count \in Nat
  /\ signaled \in [Events -> BOOLEAN]
  /\ pc \in [Tasks -> PCs]
  /\ event \in [Tasks -> Events \cup {NULL}]
  /\ target \in [Tasks -> Tasks]
  /\ int_on \in [Tasks -> BOOLEAN]
  /\ ring3 \in [Tasks -> BOOLEAN]
  /\ tss_rsp0 \in Tasks
  /\ missed \in [Tasks -> BOOLEAN]

Init ==
  /\ used = [t \in Tasks |-> t \in Boot]
  /\ blocked = [t \in Tasks |-> FALSE]
  /\ waiting_on = [t \in Tasks |-> NULL]
  /\ wake_tick = [t \in Tasks |-> 0]
  /\ g_task_count = BootTasks
  /\ g_current_task = 0
  /\ g_tick_count = 0
  /\ signaled = [e \in Events |-> FALSE]
  /\ pc = [t \in Tasks |-> "run"]
  /\ event = [t \in Tasks |-> NULL]
  /\ target = [t \in Tasks |-> 0]
  /\ int_on = [t \in Tasks |-> TRUE]
  /\ ring3 = [t \in Tasks |-> FALSE]
  /\ tss_rsp0 = 0
  /\ missed = [t \in Tasks |-> FALSE]

-----------------------------------------------------------------------------
(***************************************************************************)
(* yield().  The scan visits the tasks after prev in index order, prev     *)
(* itself last, and stops at the first one that is used and not blocked,   *)
(* or blocked on a condition that holds by now.  u and now are the used    *)
(* flags and the tick count at the time of the call.                       *)
(***************************************************************************)
WakeTickEarly(t, now) ==
  IF waiting_on[t] # NULL THEN signaled[waiting_on[t]]
  ELSE now + 1 >= wake_tick[t]

WakeIgnoresTicks(t, now) == waiting_on[t] # NULL /\ signaled[waiting_on[t]]

Wake(t, now) ==
  IF waiting_on[t] # NULL THEN signaled[waiting_on[t]] ELSE now >= wake_tick[t]

RunnableThoughExited(t, u, now) == blocked[t] => Wake(t, now)

Runnable(t, u, now) == u[t] /\ (blocked[t] => Wake(t, now))

Candidates(u, now) == {t \in 0 .. g_task_count - 1 : Runnable(t, u, now)}

DistanceFromZero(prev, t) == t

\* How many candidates the scan has looked at when it reaches t.
Distance(prev, t) == IF t > prev THEN t - prev ELSE t + g_task_count - prev

Pick(prev, u, now) ==
  CHOOSE t \in Candidates(u, now) :
    \A s \in Candidates(u, now) : Distance(prev, t) <= Distance(prev, s)

(***************************************************************************)
(* When no candidate is found yield() returns and prev keeps running, even *)
(* if prev is blocked or has exited.  A candidate that was blocked is      *)
(* woken; the ones passed over stay as they are.  A switch leaves prev to  *)
(* resume, one day, with interrupts enabled.                               *)
(***************************************************************************)
YieldKeepsPointer(prev, u, now) ==
  LET next == Pick(prev, u, now) IN
  /\ g_current_task' = next
  /\ blocked' = [blocked EXCEPT ![next] = FALSE]
  /\ int_on' = [int_on EXCEPT ![prev] = TRUE]
  /\ tss_rsp0' = IF next # prev /\ ring3[next] THEN next ELSE tss_rsp0
  /\ UNCHANGED waiting_on

Yield(prev, u, now) ==
  IF Candidates(u, now) = {}
  THEN UNCHANGED <<g_current_task, blocked, waiting_on, int_on, tss_rsp0>>
  ELSE LET next == Pick(prev, u, now) IN
       /\ g_current_task' = next
       /\ blocked' = [blocked EXCEPT ![next] = FALSE]
       /\ waiting_on' = IF blocked[next]
                        THEN [waiting_on EXCEPT ![next] = NULL]
                        ELSE waiting_on
       /\ int_on' = IF next = prev THEN int_on
                    ELSE [int_on EXCEPT ![prev] = TRUE]
       /\ tss_rsp0' = IF next # prev /\ ring3[next] THEN next ELSE tss_rsp0

(***************************************************************************)
(* The timer interrupt: the tick is counted and the interrupted task, at   *)
(* whatever pc it stands, is suspended inside the ISR's yield().           *)
(***************************************************************************)
TimerInterrupt ==
  /\ int_on[g_current_task]
  /\ g_tick_count' = IF g_tick_count < MaxTick THEN g_tick_count + 1
                     ELSE g_tick_count
  /\ Yield(g_current_task, used, g_tick_count')
  /\ UNCHANGED <<used, wake_tick, g_task_count, signaled, pc, event, target,
                 missed, ring3>>

-----------------------------------------------------------------------------
(***************************************************************************)
(* Calls made by the running task.  Kernel tasks keep interrupts enabled;  *)
(* every other task enters by int 0x80, which disables them.               *)
(***************************************************************************)
Self == g_current_task

Calls(to) ==
  /\ pc[Self] = "run"
  /\ Self \notin Spinners
  /\ pc' = [pc EXCEPT ![Self] = to]
  /\ int_on' = [int_on EXCEPT ![Self] = Self \in Boot]

Returns ==
  /\ pc' = [pc EXCEPT ![Self] = "run"]
  /\ int_on' = [int_on EXCEPT ![Self] = TRUE]

\* task1_entry, task2_entry, the worker loops: yield() with nothing pending.
Cooperate ==
  /\ pc[Self] = "run"
  /\ Self \in Boot
  /\ Yield(Self, used, g_tick_count)
  /\ UNCHANGED <<used, wake_tick, g_task_count, g_tick_count, signaled, pc,
                 event, target, missed, ring3>>

EventSignal(e) ==
  /\ pc[Self] = "run"
  /\ Self \notin Spinners
  /\ signaled' = [signaled EXCEPT ![e] = TRUE]
  /\ UNCHANGED <<used, blocked, waiting_on, wake_tick, g_task_count,
                 g_current_task, g_tick_count, pc, event, target, int_on,
                 missed, ring3, tss_rsp0>>

EventReset(e) ==
  /\ pc[Self] = "run"
  /\ Self \notin Spinners
  /\ signaled' = [signaled EXCEPT ![e] = FALSE]
  /\ UNCHANGED <<used, blocked, waiting_on, wake_tick, g_task_count,
                 g_current_task, g_tick_count, pc, event, target, int_on,
                 missed, ring3, tss_rsp0>>

EventWait(e) ==
  /\ Self # 0
  /\ Calls("test")
  /\ event' = [event EXCEPT ![Self] = e]
  /\ UNCHANGED <<used, blocked, waiting_on, wake_tick, g_task_count,
                 g_current_task, g_tick_count, signaled, target, missed,
                 ring3, tss_rsp0>>

\* while (!signaled) { cli; blocked = true; waiting_on = &signaled; restore;
EventTest ==
  /\ pc[Self] = "test"
  /\ IF signaled[event[Self]]
     THEN /\ Returns
          /\ event' = [event EXCEPT ![Self] = NULL]
          /\ UNCHANGED <<blocked, waiting_on>>
     ELSE /\ blocked' = [blocked EXCEPT ![Self] = TRUE]
          /\ waiting_on' = [waiting_on EXCEPT ![Self] = event[Self]]
          /\ pc' = [pc EXCEPT ![Self] = "park"]
          /\ UNCHANGED <<event, int_on>>
  /\ UNCHANGED <<used, wake_tick, g_task_count, g_current_task, g_tick_count,
                 signaled, target, missed, ring3, tss_rsp0>>

\* ... yield(); }
EventPark ==
  /\ pc[Self] = "park"
  /\ pc' = [pc EXCEPT ![Self] = "test"]
  /\ Yield(Self, used, g_tick_count)
  /\ UNCHANGED <<used, wake_tick, g_task_count, g_tick_count, signaled, event,
                 target, missed, ring3>>

\* sleep_ticks() up to restore_interrupts(); it does not write waiting_on.
SleepTicks(ticks) ==
  /\ Calls("doze")
  /\ g_tick_count + ticks <= MaxTick
  /\ blocked' = [blocked EXCEPT ![Self] = TRUE]
  /\ wake_tick' = [wake_tick EXCEPT ![Self] = g_tick_count + ticks]
  /\ UNCHANGED <<used, waiting_on, g_task_count, g_current_task, g_tick_count,
                 signaled, event, target, missed, ring3, tss_rsp0>>

\* timer_wait() on a timer object whose stored deadline, past or future, is w.
TimerWait(w) ==
  /\ Self \notin Boot
  /\ Calls("doze")
  /\ blocked' = [blocked EXCEPT ![Self] = TRUE]
  /\ waiting_on' = [waiting_on EXCEPT ![Self] = NULL]
  /\ wake_tick' = [wake_tick EXCEPT ![Self] = w]
  /\ UNCHANGED <<used, g_task_count, g_current_task, g_tick_count, signaled,
                 event, target, missed, ring3, tss_rsp0>>

\* The yield() at the end of sleep_ticks() and timer_wait().
Doze ==
  /\ pc[Self] = "doze"
  /\ pc' = [pc EXCEPT ![Self] = "slept"]
  /\ Yield(Self, used, g_tick_count)
  /\ UNCHANGED <<used, wake_tick, g_task_count, g_tick_count, signaled, event,
                 target, missed, ring3>>

SleepReturns ==
  /\ pc[Self] = "slept"
  /\ Returns
  /\ UNCHANGED <<used, blocked, waiting_on, wake_tick, g_task_count,
                 g_current_task, g_tick_count, signaled, event, target, missed,
                 ring3, tss_rsp0>>

\* thread_join(): a busy loop of yield() while the target slot is used.
ThreadJoin(t) ==
  /\ Self \notin Boot
  /\ Calls("join")
  /\ target' = [target EXCEPT ![Self] = t]
  /\ UNCHANGED <<used, blocked, waiting_on, wake_tick, g_task_count,
                 g_current_task, g_tick_count, signaled, event, missed, ring3,
                 tss_rsp0>>

JoinStep ==
  /\ pc[Self] = "join"
  /\ IF used[target[Self]]
     THEN /\ Yield(Self, used, g_tick_count)
          /\ UNCHANGED <<pc, target, missed>>
     ELSE /\ Returns
          /\ target' = [target EXCEPT ![Self] = 0]
          /\ missed' = [missed EXCEPT ![Self] = FALSE]
          /\ UNCHANGED <<g_current_task, blocked, waiting_on, tss_rsp0>>
  /\ UNCHANGED <<used, wake_tick, g_task_count, g_tick_count, signaled, event,
                 ring3>>

(***************************************************************************)
(* process_exit and thread_exit: used is cleared and yield() called, all   *)
(* within one system call with interrupts disabled.                        *)
(***************************************************************************)
Exit ==
  LET gone == [used EXCEPT ![Self] = FALSE] IN
  /\ pc[Self] = "run"
  /\ Self \notin Boot
  /\ used' = gone
  /\ pc' = [pc EXCEPT ![Self] = "gone"]
  /\ missed' = [t \in Tasks |->
                  missed[t] \/ (pc[t] = "join" /\ target[t] = Self)]
  /\ Yield(Self, gone, g_tick_count)
  /\ UNCHANGED <<wake_tick, g_task_count, g_tick_count, signaled, event, target,
                 ring3>>

(***************************************************************************)
(* create_task_with_cr3(): the first exited slot, else a fresh one.  Every *)
(* caller holds interrupts disabled around it.  The history of the slot's  *)
(* former task goes with it.                                               *)
(***************************************************************************)
FreeSlots == {t \in 0 .. g_task_count - 1 : ~used[t]}

NewSlot == IF FreeSlots = {} THEN g_task_count
           ELSE CHOOSE t \in FreeSlots : \A s \in FreeSlots : t <= s

HasRoomOffByOne == NewSlot <= MAX_TASKS

HasRoom == NewSlot < MAX_TASKS

EntryVaddrForgotten == [ring3 EXCEPT ![NewSlot] = FALSE]

\* Written by spawn_process(), thread_create and fork before they let go of
\* the interrupt flag.
EntryVaddrSet == [ring3 EXCEPT ![NewSlot] = TRUE]

CreateTask ==
  /\ pc[Self] = "run"
  /\ Self \notin Spinners
  /\ HasRoom
  /\ g_task_count' = IF FreeSlots = {} THEN g_task_count + 1 ELSE g_task_count
  /\ used' = [used EXCEPT ![NewSlot] = TRUE]
  /\ blocked' = [blocked EXCEPT ![NewSlot] = FALSE]
  /\ waiting_on' = [waiting_on EXCEPT ![NewSlot] = NULL]
  /\ wake_tick' = [wake_tick EXCEPT ![NewSlot] = 0]
  /\ pc' = [pc EXCEPT ![NewSlot] = "run"]
  /\ int_on' = [int_on EXCEPT ![NewSlot] = TRUE]
  /\ ring3' = EntryVaddrSet
  /\ missed' = [missed EXCEPT ![NewSlot] = FALSE]
  /\ UNCHANGED <<g_current_task, g_tick_count, signaled, event, target,
                 tss_rsp0>>

Next ==
  \/ TimerInterrupt
  \/ Cooperate
  \/ \E e \in Events : EventSignal(e)
  \/ \E e \in Events : EventReset(e)
  \/ \E e \in Events : EventWait(e)
  \/ EventTest
  \/ EventPark
  \/ \E n \in 0 .. MaxTick : SleepTicks(n)
  \/ \E w \in 0 .. MaxTick : TimerWait(w)
  \/ Doze
  \/ SleepReturns
  \/ \E t \in Tasks \ Boot : ThreadJoin(t)
  \/ JoinStep
  \/ Exit
  \/ CreateTask

Spec == Init /\ [][Next]_vars

(***************************************************************************)
(* A task given the CPU executes the few instructions of its next step     *)
(* within a time slice, now and again at least; the timer's request is     *)
(* latched by the PIC while interrupts are disabled and delivered once the *)
(* flag is set.  What a task does outside the scheduler is not assumed to  *)
(* make progress.                                                          *)
(***************************************************************************)
KernelStep ==
  EventTest \/ EventPark \/ Doze \/ SleepReturns \/ JoinStep

FairSpec ==
  /\ Spec
  /\ SF_vars(TimerInterrupt)
  /\ \A t \in Tasks : SF_vars(Self = t /\ KernelStep)

-----------------------------------------------------------------------------
(***************************************************************************)
(* A task that is not blocked waits on nothing.  sleep_ticks() relies on   *)
(* it: it blocks without writing waiting_on, so a pointer left over from   *)
(* an earlier wait would let yield() wake the sleeper for that event.      *)
(***************************************************************************)
UnblockedWaitsForNothing ==
  \A t \in Tasks : ~blocked[t] => waiting_on[t] = NULL

(***************************************************************************)
(* The task on the CPU has not exited: the yield() at the end of           *)
(* process_exit, called on a task whose address space and slot have just   *)
(* been given back, never returns to it.                                   *)
(***************************************************************************)
ExitedNeverRuns == used[g_current_task] /\ pc[g_current_task] # "gone"

(***************************************************************************)
(* sleep_ticks() and timer_wait() do not loop on their condition, yet when *)
(* they return the deadline has passed.                                    *)
(***************************************************************************)
NoEarlyWake ==
  pc[g_current_task] = "slept" => g_tick_count >= wake_tick[g_current_task]

(***************************************************************************)
(* A task outside a blocking call is never marked blocked: yield() would   *)
(* otherwise take the CPU from it for an event it no longer waits for.     *)
(***************************************************************************)
BlockedOnlyInWait ==
  \A t \in Tasks : blocked[t] => pc[t] \in {"test", "park", "doze", "slept"}

(***************************************************************************)
(* The next interrupt or system call taken in user mode lands on the       *)
(* stack TSS.RSP0 points at.  yield() writes it only for a task whose      *)
(* ring3_entry_vaddr is set, and kernel tasks leave it as it is: still,    *)
(* whenever a task kmain() did not create, and so one that runs user code, *)
(* is on the CPU, it is that task's own kernel stack.                      *)
(***************************************************************************)
Rsp0IsOwnStack == g_current_task \notin Boot => tss_rsp0 = g_current_task

\* "Task 0 never blocks itself" (comment in yield()).
Task0NeverBlocks == ~blocked[0]

(***************************************************************************)
(* Round robin: a task that is used and not blocked gets the CPU, whatever *)
(* the others do, a tight loop without any yield() included.               *)
(***************************************************************************)
RunnableRuns ==
  \A t \in Tasks : used[t] /\ ~blocked[t] ~> g_current_task = t

(***************************************************************************)
(* A sleeper is woken: once its deadline is set the task runs again.       *)
(***************************************************************************)
SleeperWakes ==
  \A t \in Tasks : pc[t] = "doze" ~> pc[t] = "run"

(***************************************************************************)
(* thread_join() "Returns once the target task has exited" (its comment).  *)
(***************************************************************************)
JoinReturns ==
  \A t \in Tasks : missed[t] ~> pc[t] # "join"

=============================================================================
