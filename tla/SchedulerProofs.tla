-------------------------- MODULE SchedulerProofs --------------------------
(***************************************************************************)
(* Safety of the scheduler for every number of tasks, events and ticks.    *)
(***************************************************************************)
EXTENDS Scheduler, WellFoundedInduction, NaturalsInduction, TLAPS

(***************************************************************************)
(* The inductive invariant.  Spinners never block and never exit, so every *)
(* scan of yield() finds somebody: a task that blocked itself, or exited,  *)
(* is always switched away from, and runs again only after a scan has      *)
(* found its condition true.                                               *)
(***************************************************************************)
SpinnersSpin ==
  \A s \in Spinners : used[s] /\ ~blocked[s] /\ pc[s] = "run"

BootStays == \A t \in Boot : used[t]

GoneIsUnused == \A t \in Tasks : pc[t] = "gone" => ~used[t]

UserTasksMarked == \A t \in Tasks \ Boot : used[t] => ring3[t]

CurrentAwake ==
  blocked[g_current_task] => pc[g_current_task] \in {"park", "doze"}

SleepsUntilDeadline ==
  \A t \in Tasks :
    pc[t] \in {"doze", "slept"} =>
      IF blocked[t] THEN waiting_on[t] = NULL ELSE g_tick_count >= wake_tick[t]

IInv ==
  /\ TypeOK
  /\ SpinnersSpin
  /\ BootStays
  /\ GoneIsUnused
  /\ UserTasksMarked
  /\ used[g_current_task]
  /\ CurrentAwake
  /\ SleepsUntilDeadline
  /\ UnblockedWaitsForNothing
  /\ BlockedOnlyInWait
  /\ Rsp0IsOwnStack

(***************************************************************************)
(* A non-empty set of naturals has a least element.                        *)
(***************************************************************************)
LEMMA LeastNatural ==
  ASSUME NEW S \in SUBSET Nat, S # {}
  PROVE  \E m \in S : \A n \in S : m <= n
<1>1. PICK m \in S : \A n \in S : ~(<<n, m>> \in OpToRel(<, Nat))
  BY NatLessThanWellFounded, WFMin
<1>2. \A n \in S : ~(n < m)
  BY <1>1, ZenonT(30) DEF OpToRel
<1>3. \A n \in S : m <= n
  <2>1. TAKE n \in S
  <2>2. n \in Nat /\ m \in Nat
    OBVIOUS
  <2>3. QED
    BY <1>2, <2>2
<1>4. QED
  BY <1>3

(***************************************************************************)
(* yield() picks one of the candidates whenever there is one.              *)
(***************************************************************************)
LEMMA PickIsCandidate ==
  ASSUME TypeOK, NEW prev \in 0 .. g_task_count - 1, NEW u, NEW now,
         Candidates(u, now) # {}
  PROVE  Pick(prev, u, now) \in Candidates(u, now)
<1> DEFINE C == Candidates(u, now)
           D == {Distance(prev, t) : t \in C}
<1>1. C \subseteq 0 .. g_task_count - 1 /\ C # {}
  BY DEF Candidates
<1>2. g_task_count \in Nat
  BY SchedulerAssumption DEF TypeOK
<1>3. \A t \in C : Distance(prev, t) \in Nat
  BY <1>1, <1>2 DEF Distance
<1>4. D \in SUBSET Nat /\ D # {}
  BY <1>1, <1>3
<1> HIDE DEF D
<1>5. PICK m \in D : \A n \in D : m <= n
  BY <1>4, LeastNatural
<1>6. \E t \in C : \A s \in C : Distance(prev, t) <= Distance(prev, s)
  BY <1>5 DEF D
<1>7. QED
  BY <1>6 DEF Pick

(***************************************************************************)
(* What a call of yield() does to the table while the spinners spin: it    *)
(* always finds a candidate n and leaves n running and awake.              *)
(***************************************************************************)
LEMMA YieldFindsRunnable ==
  ASSUME TypeOK, SpinnersSpin, Rsp0IsOwnStack,
         NEW u \in [Tasks -> BOOLEAN], \A s \in Spinners : u[s],
         \A t \in Tasks \ Boot : u[t] => ring3[t],
         NEW now \in Nat,
         Yield(g_current_task, u, now)
  PROVE  \E n \in 0 .. g_task_count - 1 :
           /\ Runnable(n, u, now)
           /\ g_current_task' = n
           /\ blocked' = [blocked EXCEPT ![n] = FALSE]
           /\ waiting_on' = IF blocked[n]
                            THEN [waiting_on EXCEPT ![n] = NULL] ELSE waiting_on
           /\ int_on' \in [Tasks -> BOOLEAN]
           /\ tss_rsp0' \in Tasks
           /\ n \notin Boot => tss_rsp0' = n
<1>1. PICK s : s \in Spinners
  BY SchedulerAssumption
<1>2. s \in 0 .. g_task_count - 1
  BY <1>1, SchedulerAssumption DEF TypeOK
<1>3. s \in Candidates(u, now)
  BY <1>1, <1>2 DEF Candidates, Runnable, SpinnersSpin
<1> DEFINE n == Pick(g_current_task, u, now)
<1>4. n \in Candidates(u, now)
  BY <1>3, PickIsCandidate DEF TypeOK
<1>5. n \in 0 .. g_task_count - 1 /\ Runnable(n, u, now)
  BY <1>4 DEF Candidates
<1>6. /\ g_current_task' = n
      /\ blocked' = [blocked EXCEPT ![n] = FALSE]
      /\ waiting_on' = IF blocked[n]
                       THEN [waiting_on EXCEPT ![n] = NULL] ELSE waiting_on
      /\ int_on' = IF n = g_current_task THEN int_on
                   ELSE [int_on EXCEPT ![g_current_task] = TRUE]
      /\ tss_rsp0' = IF n # g_current_task /\ ring3[n] THEN n ELSE tss_rsp0
  BY <1>3 DEF Yield
<1>7. int_on' \in [Tasks -> BOOLEAN]
  BY <1>6, ZenonT(30) DEF TypeOK
<1> HIDE DEF n
<1>8. tss_rsp0' \in Tasks /\ (n \notin Boot => tss_rsp0' = n)
  <2>1. n \in Tasks /\ tss_rsp0 \in Tasks
    BY <1>5, SchedulerAssumption DEF TypeOK, Tasks
  <2>2. n \notin Boot => ring3[n]
    BY <1>5, <2>1 DEF Runnable
  <2>3. QED
    BY <1>6, <2>1, <2>2 DEF Rsp0IsOwnStack
<1>9. QED
  BY <1>5, <1>6, <1>7, <1>8

\* The slot create_task_with_cr3() takes is not that of a live task.
LEMMA NewSlotIsFree ==
  ASSUME TypeOK, NewSlot < MAX_TASKS
  PROVE  /\ NewSlot \in Tasks
         /\ \/ NewSlot \in FreeSlots
            \/ NewSlot = g_task_count /\ FreeSlots = {}
<1>1. g_task_count \in Nat /\ MAX_TASKS \in Nat /\ g_task_count <= MAX_TASKS
  BY SchedulerAssumption DEF TypeOK
<1>2. CASE FreeSlots = {}
  BY <1>1, <1>2 DEF NewSlot, Tasks
<1>3. CASE FreeSlots # {}
  <2>1. FreeSlots \in SUBSET Nat /\ FreeSlots \subseteq Tasks
    BY <1>1 DEF FreeSlots, Tasks
  <2>2. \E m \in FreeSlots : \A n \in FreeSlots : m <= n
    BY <1>3, <2>1, LeastNatural
  <2>3. NewSlot \in FreeSlots
    BY <1>3, <2>2 DEF NewSlot
  <2>4. QED
    BY <2>1, <2>3
<1>4. QED
  BY <1>2, <1>3

-----------------------------------------------------------------------------
\* The invariant holds when kmain() enables interrupts.
LEMMA InitIInv == Init => IInv
<1> SUFFICES ASSUME Init PROVE IInv
  OBVIOUS
<1>1. /\ MAX_TASKS \in Nat /\ BootTasks \in Nat /\ 1 <= BootTasks
      /\ BootTasks <= MAX_TASKS
  BY SchedulerAssumption
<1>2. Boot \subseteq Tasks /\ Spinners \subseteq Boot /\ 0 \in Boot
  BY <1>1, SchedulerAssumption DEF Boot, Tasks
<1>3. TypeOK
  BY <1>1, <1>2 DEF Init, TypeOK, PCs
<1>4. QED
  BY <1>2, <1>3, ZenonT(30) DEF Init, IInv, SpinnersSpin, BootStays, GoneIsUnused,
     UserTasksMarked, CurrentAwake, SleepsUntilDeadline,
     UnblockedWaitsForNothing, BlockedOnlyInWait, Rsp0IsOwnStack

\* The slots yield() scans, that of the running task included, lie within
\* g_tasks.
LEMMA SlotsInUse ==
  ASSUME TypeOK
  PROVE  g_current_task \in Tasks /\ 0 .. g_task_count - 1 \subseteq Tasks
<1>1. MAX_TASKS \in Nat /\ BootTasks \in Nat
  BY SchedulerAssumption
<1>2. /\ g_task_count \in BootTasks .. MAX_TASKS
      /\ g_current_task \in 0 .. g_task_count - 1
  BY DEF TypeOK
<1>3. 0 .. g_task_count - 1 \subseteq Tasks
  BY <1>1, <1>2 DEF Tasks
<1>4. QED
  BY <1>2, <1>3

(***************************************************************************)
(* The steps that end in yield(), taken together: the caller may have      *)
(* cleared its own used flag (an exit), moved its pc to what follows the   *)
(* call, and, in the ISR, advanced the tick count.                         *)
(***************************************************************************)
LEMMA YieldStep ==
  ASSUME IInv,
         NEW u \in [Tasks -> BOOLEAN], \A t \in Boot : u[t],
         \A t \in Tasks : t # g_current_task => u[t] = used[t],
         NEW p \in PCs, NEW now \in Nat, now >= g_tick_count,
         p = "gone" => ~u[g_current_task],
         p # "gone" => u[g_current_task],
         p \in {"doze", "slept"} =>
           pc[g_current_task] = "doze" \/ p = pc[g_current_task],
         p = "run" => ~blocked[g_current_task],
         p \in {"join", "gone"} => ~blocked[g_current_task],
         g_current_task \in Spinners => p = "run",
         Yield(g_current_task, u, now),
         used' = u, pc' = [pc EXCEPT ![g_current_task] = p],
         g_tick_count' = now,
         UNCHANGED <<wake_tick, g_task_count, signaled, event, target, ring3>>,
         missed' \in [Tasks -> BOOLEAN]
  PROVE  IInv'
<1> DEFINE c == g_current_task
<1>1. TypeOK /\ SpinnersSpin /\ Rsp0IsOwnStack
  BY DEF IInv
<1>2. c \in Tasks /\ 0 .. g_task_count - 1 \subseteq Tasks
  BY <1>1, SlotsInUse
<1>3. Spinners \subseteq Boot /\ Boot \subseteq Tasks
  BY SchedulerAssumption DEF Boot, Tasks
<1>4. PICK n \in 0 .. g_task_count - 1 :
        /\ Runnable(n, u, now)
        /\ g_current_task' = n
        /\ blocked' = [blocked EXCEPT ![n] = FALSE]
        /\ waiting_on' = IF blocked[n]
                         THEN [waiting_on EXCEPT ![n] = NULL] ELSE waiting_on
        /\ int_on' \in [Tasks -> BOOLEAN]
        /\ tss_rsp0' \in Tasks
        /\ n \notin Boot => tss_rsp0' = n
  <2>1. \A t \in Tasks \ Boot : u[t] => ring3[t]
    BY DEF IInv, UserTasksMarked
  <2>2. QED
    BY <1>1, <1>3, <2>1, YieldFindsRunnable
<1>5. n \in Tasks /\ u[n] /\ (blocked[n] => Wake(n, now))
  BY <1>2, <1>4 DEF Runnable
<1>6. TypeOK'
  BY <1>1, <1>2, <1>4, <1>5 DEF TypeOK
<1>7. SpinnersSpin'
  BY <1>1, <1>2, <1>3, <1>4, <1>5 DEF SpinnersSpin, TypeOK
<1>8. BootStays'
  BY DEF BootStays
<1>9. GoneIsUnused' /\ UserTasksMarked'
  BY <1>1, <1>2 DEF GoneIsUnused, UserTasksMarked, IInv, TypeOK
<1>10. (used[g_current_task])' /\ CurrentAwake'
  BY <1>1, <1>4, <1>5 DEF CurrentAwake, TypeOK
<1>11. SleepsUntilDeadline'
  <2> SUFFICES ASSUME NEW t \in Tasks, pc'[t] \in {"doze", "slept"}
               PROVE  IF blocked'[t] THEN waiting_on'[t] = NULL
                      ELSE g_tick_count' >= wake_tick'[t]
    BY DEF SleepsUntilDeadline
  <2>1. pc[t] \in {"doze", "slept"}
    BY <1>1, <1>2 DEF TypeOK
  <2>2. IF blocked[t] THEN waiting_on[t] = NULL ELSE g_tick_count >= wake_tick[t]
    BY <2>1 DEF IInv, SleepsUntilDeadline
  <2>3. wake_tick[t] \in Nat /\ g_tick_count \in Nat
    BY <1>1 DEF TypeOK
  <2>4. CASE t = n
    BY <1>1, <1>4, <1>5, <2>2, <2>3, <2>4 DEF Wake, TypeOK
  <2>5. CASE t # n
    BY <1>1, <1>4, <1>5, <2>2, <2>3, <2>5 DEF TypeOK
  <2>6. QED
    BY <2>4, <2>5
<1>12. UnblockedWaitsForNothing'
  BY <1>1, <1>4, <1>5 DEF IInv, UnblockedWaitsForNothing, TypeOK
<1>13. BlockedOnlyInWait'
  <2> SUFFICES ASSUME NEW t \in Tasks, blocked'[t]
               PROVE  pc'[t] \in {"test", "park", "doze", "slept"}
    BY DEF BlockedOnlyInWait
  <2>1. blocked[t]
    BY <1>1, <1>4, <1>5 DEF TypeOK
  <2>2. pc[t] \in {"test", "park", "doze", "slept"}
    BY <2>1 DEF IInv, BlockedOnlyInWait
  <2>3. QED
    BY <1>1, <1>2, <2>1, <2>2 DEF TypeOK, PCs
<1>14. Rsp0IsOwnStack'
  BY <1>4 DEF Rsp0IsOwnStack
<1>15. QED
  BY <1>6, <1>7, <1>8, <1>9, <1>10, <1>11, <1>12, <1>13, <1>14 DEF IInv

(***************************************************************************)
(* The steps with which a scheduler function returns to its caller.        *)
(***************************************************************************)
LEMMA ReturnStep ==
  ASSUME IInv, Returns, ~blocked[g_current_task],
         pc[g_current_task] # "gone",
         UNCHANGED <<used, blocked, waiting_on, wake_tick, g_task_count,
                     g_current_task, g_tick_count, signaled, ring3, tss_rsp0>>,
         event' \in [Tasks -> Events \cup {NULL}],
         target' = [target EXCEPT ![g_current_task] = 0] \/ target' = target,
         missed' \in [Tasks -> BOOLEAN]
  PROVE  IInv'
<1>1. TypeOK
  BY DEF IInv
<1>2. g_current_task \in Tasks /\ 0 \in Tasks
  BY <1>1, SchedulerAssumption DEF TypeOK, Tasks
<1>3. TypeOK'
  BY <1>1, <1>2 DEF TypeOK, Returns, Self, PCs
<1>4. /\ SpinnersSpin' /\ BootStays' /\ GoneIsUnused' /\ UserTasksMarked'
      /\ (used[g_current_task])' /\ CurrentAwake'
  BY <1>1, <1>2 DEF IInv, Returns, Self, SpinnersSpin, BootStays, GoneIsUnused,
     UserTasksMarked, CurrentAwake, TypeOK
<1>5. /\ SleepsUntilDeadline' /\ UnblockedWaitsForNothing'
      /\ BlockedOnlyInWait' /\ Rsp0IsOwnStack'
  BY <1>1, <1>2 DEF IInv, Returns, Self, SleepsUntilDeadline,
     UnblockedWaitsForNothing, BlockedOnlyInWait, Rsp0IsOwnStack, TypeOK
<1>6. QED
  BY <1>3, <1>4, <1>5 DEF IInv

\* Every step, of whichever task or of the timer, preserves the invariant.
LEMMA NextIInv == IInv /\ [Next]_vars => IInv'
<1> SUFFICES ASSUME IInv, [Next]_vars PROVE IInv'
  OBVIOUS
<1> DEFINE c == g_current_task
<1>1. TypeOK
  BY DEF IInv
<1>2. /\ c \in Tasks /\ Spinners \subseteq Boot /\ Boot \subseteq Tasks
      /\ g_tick_count \in Nat /\ pc[c] # "gone" /\ pc[c] \in PCs
      /\ used \in [Tasks -> BOOLEAN] /\ used[c]
  <2>1. c \in Tasks
    BY <1>1, SlotsInUse
  <2>2. Spinners \subseteq Boot /\ Boot \subseteq Tasks
    BY SchedulerAssumption DEF Tasks, Boot
  <2>3. used[c] /\ pc[c] # "gone"
    BY <2>1 DEF IInv, GoneIsUnused
  <2>4. QED
    BY <1>1, <2>1, <2>2, <2>3 DEF TypeOK
<1>3. pc = [pc EXCEPT ![c] = pc[c]]
  BY <1>1, <1>2 DEF TypeOK
<1>4. blocked[c] => pc[c] \in {"park", "doze"}
  BY DEF IInv, CurrentAwake
<1>5. c \in Spinners => pc[c] = "run"
  BY DEF IInv, SpinnersSpin
<1>6. \A t \in Boot : used[t]
  BY DEF IInv, BootStays
<1>7. missed \in [Tasks -> BOOLEAN]
  BY <1>1 DEF TypeOK
<1>a. CASE TimerInterrupt
  <2>1. g_tick_count' \in Nat /\ g_tick_count' >= g_tick_count
    BY <1>2, <1>a, SchedulerAssumption DEF TimerInterrupt
  <2>2. QED
    BY <1>a, <1>2, <1>3, <1>4, <1>5, <1>6, <1>7, <2>1, YieldStep
       DEF TimerInterrupt
<1>b. CASE Cooperate
  BY <1>b, <1>2, <1>3, <1>4, <1>5, <1>6, <1>7, YieldStep
     DEF Cooperate, Self
<1>c. CASE EventPark
  BY <1>c, <1>2, <1>4, <1>5, <1>6, <1>7, YieldStep DEF EventPark, Self, PCs
<1>d. CASE Doze
  BY <1>d, <1>2, <1>4, <1>5, <1>6, <1>7, YieldStep DEF Doze, Self, PCs
<1>e. CASE JoinStep
  <2>1. CASE used[target[c]]
    BY <1>e, <2>1, <1>2, <1>3, <1>4, <1>5, <1>6, <1>7, YieldStep
     , SMTT(30) DEF JoinStep, Self
  <2>2. CASE ~used[target[c]]
    <3>1. /\ Returns /\ target' = [target EXCEPT ![c] = 0]
          /\ missed' = [missed EXCEPT ![c] = FALSE]
          /\ UNCHANGED <<used, blocked, waiting_on, wake_tick, g_task_count,
                         g_current_task, g_tick_count, signaled, event, ring3,
                         tss_rsp0>>
          /\ pc[c] = "join"
      BY <1>e, <2>2 DEF JoinStep, Self
    <3>2. /\ event' \in [Tasks -> Events \cup {NULL}]
          /\ missed' \in [Tasks -> BOOLEAN]
      BY <1>1, <3>1, ZenonT(30) DEF TypeOK
    <3>3. QED
      BY <3>1, <3>2, <1>4, ReturnStep, SMTT(30)
  <2>3. QED
    BY <2>1, <2>2
<1>f. CASE Exit
  <2> DEFINE u == [used EXCEPT ![c] = FALSE]
  <2>1. u \in [Tasks -> BOOLEAN] /\ ~u[c] /\ c \notin Boot
    BY <1>f, <1>2 DEF Exit, Self
  <2>2. (\A t \in Boot : u[t]) /\ (\A t \in Tasks : t # c => u[t] = used[t])
    BY <1>2, <1>6, <2>1
  <2>3. missed' \in [Tasks -> BOOLEAN]
    BY <1>f, <1>1 DEF Exit, TypeOK
  <2>4. "gone" \in PCs /\ c \notin Spinners /\ ~blocked[c]
    BY <1>f, <1>2, <1>4, <2>1 DEF PCs, Exit, Self
  <2>5. /\ Yield(c, u, g_tick_count) /\ used' = u
        /\ pc' = [pc EXCEPT ![c] = "gone"] /\ g_tick_count' = g_tick_count
        /\ UNCHANGED <<wake_tick, g_task_count, signaled, event, target, ring3>>
    BY <1>f DEF Exit, Self
  <2>6. g_tick_count >= g_tick_count
    BY <1>2
  <2> HIDE DEF u
  <2>7. QED
    BY <1>2, <2>1, <2>2, <2>3, <2>4, <2>5, <2>6, YieldStep, Zenon
<1>g. CASE \E e \in Events : EventSignal(e) \/ EventReset(e)
  <2>1. /\ signaled' \in [Events -> BOOLEAN]
        /\ UNCHANGED <<used, blocked, waiting_on, wake_tick, g_task_count,
                       g_current_task, g_tick_count, pc, event, target, int_on,
                       missed, ring3, tss_rsp0>>
    BY <1>g, <1>1, ZenonT(30) DEF EventSignal, EventReset, TypeOK
  <2>2. QED
    BY <2>1 DEF IInv, TypeOK, SpinnersSpin, BootStays, GoneIsUnused,
       UserTasksMarked, CurrentAwake, SleepsUntilDeadline,
       UnblockedWaitsForNothing, BlockedOnlyInWait, Rsp0IsOwnStack
<1>h. CASE \E e \in Events : EventWait(e)
  <2>1. PICK e \in Events : EventWait(e)
    BY <1>h
  <2>2. TypeOK'
    BY <2>1, <1>1, <1>2 DEF EventWait, Calls, Self, TypeOK, PCs
  <2>3. QED
    BY <2>1, <2>2, <1>1, <1>2, <1>4
     , SMTT(30) DEF EventWait, Calls, Self, IInv, TypeOK, SpinnersSpin, BootStays,
           GoneIsUnused, UserTasksMarked, CurrentAwake, SleepsUntilDeadline,
           UnblockedWaitsForNothing, BlockedOnlyInWait, Rsp0IsOwnStack
<1>i. CASE EventTest
  <2>1. CASE signaled[event[c]]
    <3>1. /\ Returns /\ event' = [event EXCEPT ![c] = NULL] /\ pc[c] = "test"
          /\ UNCHANGED <<used, blocked, waiting_on, wake_tick, g_task_count,
                         g_current_task, g_tick_count, signaled, target, missed,
                         ring3, tss_rsp0>>
      BY <1>i, <2>1 DEF EventTest, Self
    <3>2. event' \in [Tasks -> Events \cup {NULL}]
      BY <1>1, <3>1, ZenonT(30) DEF TypeOK
    <3>3. QED
      BY <3>1, <3>2, <1>4, <1>7, ReturnStep
  <2>2. CASE ~signaled[event[c]]
    <3>1. /\ pc[c] = "test"
          /\ blocked' = [blocked EXCEPT ![c] = TRUE]
          /\ waiting_on' = [waiting_on EXCEPT ![c] = event[c]]
          /\ pc' = [pc EXCEPT ![c] = "park"]
          /\ UNCHANGED <<used, wake_tick, g_task_count, g_current_task,
                         g_tick_count, signaled, event, target, int_on, missed,
                         ring3, tss_rsp0>>
      BY <1>i, <2>2 DEF EventTest, Self
    <3>2. TypeOK'
      BY <3>1, <1>1, <1>2 DEF TypeOK, PCs
    <3>3. QED
      BY <3>1, <3>2, <1>1, <1>2, <1>5
       , SMTT(30) DEF IInv, TypeOK, SpinnersSpin, BootStays, GoneIsUnused,
             UserTasksMarked, CurrentAwake, SleepsUntilDeadline,
             UnblockedWaitsForNothing, BlockedOnlyInWait, Rsp0IsOwnStack
  <2>3. QED
    BY <2>1, <2>2
<1>j. CASE \E n \in 0 .. MaxTick : SleepTicks(n)
  BY <1>j, <1>1, <1>2, <1>4, SchedulerAssumption
     DEF SleepTicks, Calls, Self, IInv, TypeOK, SpinnersSpin, BootStays,
         GoneIsUnused, UserTasksMarked, CurrentAwake, SleepsUntilDeadline,
         UnblockedWaitsForNothing, BlockedOnlyInWait, Rsp0IsOwnStack, PCs
<1>k. CASE \E w \in 0 .. MaxTick : TimerWait(w)
  BY <1>k, <1>1, <1>2, <1>4, SchedulerAssumption
     DEF TimerWait, Calls, Self, IInv, TypeOK, SpinnersSpin, BootStays,
         GoneIsUnused, UserTasksMarked, CurrentAwake, SleepsUntilDeadline,
         UnblockedWaitsForNothing, BlockedOnlyInWait, Rsp0IsOwnStack, PCs
<1>l. CASE SleepReturns
  BY <1>l, <1>1, <1>2, <1>4, <1>5
   , SMTT(30) DEF SleepReturns, Returns, Self, IInv, TypeOK, SpinnersSpin, BootStays,
         GoneIsUnused, UserTasksMarked, CurrentAwake, SleepsUntilDeadline,
         UnblockedWaitsForNothing, BlockedOnlyInWait, Rsp0IsOwnStack, PCs
<1>m. CASE \E t \in Tasks \ Boot : ThreadJoin(t)
  BY <1>m, <1>1, <1>2, <1>4
   , SMTT(30) DEF ThreadJoin, Calls, Self, IInv, TypeOK, SpinnersSpin, BootStays,
         GoneIsUnused, UserTasksMarked, CurrentAwake, SleepsUntilDeadline,
         UnblockedWaitsForNothing, BlockedOnlyInWait, Rsp0IsOwnStack, PCs
<1>n. CASE CreateTask
  <2>1. PICK n \in Tasks : n = NewSlot
    BY <1>n, <1>1, NewSlotIsFree DEF CreateTask, HasRoom
  <2>2. n \in FreeSlots \/ (n = g_task_count /\ FreeSlots = {})
    BY <1>n, <1>1, <2>1, NewSlotIsFree DEF CreateTask, HasRoom
  <2>3. /\ g_task_count \in Nat /\ BootTasks \in Nat /\ MAX_TASKS \in Nat
        /\ BootTasks <= g_task_count /\ g_task_count <= MAX_TASKS
        /\ c \in Nat /\ c < g_task_count /\ n \in Nat /\ n < MAX_TASKS
    BY <1>1, SchedulerAssumption DEF TypeOK, Tasks
  <2>4. n # c /\ n \notin Boot
    <3>1. CASE n \in FreeSlots
      BY <1>2, <1>6, <3>1 DEF FreeSlots
    <3>2. CASE n = g_task_count
      BY <2>3, <3>2 DEF Boot
    <3>3. QED
      BY <2>2, <3>1, <3>2
  <2>5. /\ g_task_count' = IF FreeSlots = {} THEN g_task_count + 1
                           ELSE g_task_count
        /\ used' = [used EXCEPT ![n] = TRUE]
        /\ blocked' = [blocked EXCEPT ![n] = FALSE]
        /\ waiting_on' = [waiting_on EXCEPT ![n] = NULL]
        /\ wake_tick' = [wake_tick EXCEPT ![n] = 0]
        /\ pc' = [pc EXCEPT ![n] = "run"]
        /\ int_on' = [int_on EXCEPT ![n] = TRUE]
        /\ missed' = [missed EXCEPT ![n] = FALSE]
        /\ ring3' = [ring3 EXCEPT ![n] = TRUE]
        /\ UNCHANGED <<g_current_task, g_tick_count, signaled, event, target,
                       tss_rsp0>>
    BY <1>n, <2>1 DEF CreateTask, EntryVaddrSet
  <2>6. /\ g_task_count' \in BootTasks .. MAX_TASKS
        /\ g_current_task' \in 0 .. g_task_count' - 1
    <3>1. CASE FreeSlots = {}
      <4>1. n = g_task_count
        BY <2>2, <3>1
      <4>2. QED
        BY <2>3, <2>5, <3>1, <4>1
    <3>2. CASE FreeSlots # {}
      BY <2>3, <2>5, <3>2
    <3>3. QED
      BY <3>1, <3>2
  <2>7. TypeOK'
    BY <1>1, <2>5, <2>6, SMTT(30) DEF TypeOK, PCs
  <2>8. QED
    BY <1>1, <1>2, <2>4, <2>5, <2>7
       DEF IInv, TypeOK, SpinnersSpin, BootStays, GoneIsUnused,
           UserTasksMarked, CurrentAwake, SleepsUntilDeadline,
           UnblockedWaitsForNothing, BlockedOnlyInWait, Rsp0IsOwnStack
<1>o. CASE UNCHANGED vars
  BY <1>o DEF vars, IInv, TypeOK, SpinnersSpin, BootStays, GoneIsUnused,
     UserTasksMarked, CurrentAwake, SleepsUntilDeadline,
     UnblockedWaitsForNothing, BlockedOnlyInWait, Rsp0IsOwnStack
<1>p. QED
  BY <1>a, <1>b, <1>c, <1>d, <1>e, <1>f, <1>g, <1>h, <1>i, <1>j, <1>k, <1>l,
     <1>m, <1>n, <1>o DEF Next

(***************************************************************************)
(* The inductive invariant holds of every execution of the scheduler.      *)
(***************************************************************************)
THEOREM Invariance == Spec => []IInv
  BY InitIInv, NextIInv, PTL DEF Spec

(***************************************************************************)
(* The task table always has the type the C declarations give it; in       *)
(* particular g_current_task indexes a slot below g_task_count.            *)
(***************************************************************************)
THEOREM TypeCorrect == Spec => []TypeOK
<1>1. IInv => TypeOK
  BY DEF IInv
<1>2. QED
  BY <1>1, Invariance, PTL

(***************************************************************************)
(* An exited task never gets the CPU back, however many tasks there are:   *)
(* the yield() that ends process_exit does not return.                     *)
(***************************************************************************)
THEOREM ExitIsFinal == Spec => []ExitedNeverRuns
<1>1. IInv => ExitedNeverRuns
  <2> SUFFICES ASSUME IInv PROVE ExitedNeverRuns
    OBVIOUS
  <2>1. g_current_task \in Tasks
    BY SlotsInUse DEF IInv
  <2>2. QED
    BY <2>1 DEF IInv, GoneIsUnused, ExitedNeverRuns
<1>2. QED
  BY <1>1, Invariance, PTL

(***************************************************************************)
(* sleep_ticks() and timer_wait(), which call yield() once and test        *)
(* nothing afterwards, still never return before the deadline.             *)
(***************************************************************************)
THEOREM SleepIsLongEnough == Spec => []NoEarlyWake
<1>1. IInv => NoEarlyWake
  <2> SUFFICES ASSUME IInv, pc[g_current_task] = "slept"
               PROVE  g_tick_count >= wake_tick[g_current_task]
    BY DEF NoEarlyWake
  <2>1. g_current_task \in Tasks
    BY SlotsInUse DEF IInv
  <2>2. ~blocked[g_current_task]
    BY DEF IInv, CurrentAwake
  <2>3. QED
    BY <2>1, <2>2 DEF IInv, SleepsUntilDeadline
<1>2. QED
  BY <1>1, Invariance, PTL

(***************************************************************************)
(* A user task on the CPU always has TSS.RSP0 at its own kernel stack, so   *)
(* no trap it takes overwrites the frames another task left on its own.    *)
(***************************************************************************)
THEOREM TrapsLandOnOwnStack == Spec => []Rsp0IsOwnStack
<1>1. IInv => Rsp0IsOwnStack
  BY DEF IInv
<1>2. QED
  BY <1>1, Invariance, PTL

(***************************************************************************)
(* An unblocked task has no waiting_on pointer left over, and a blocked    *)
(* one is inside a wait.                                                   *)
(***************************************************************************)
THEOREM WaitDiscipline ==
  Spec => [](UnblockedWaitsForNothing /\ BlockedOnlyInWait)
<1>1. IInv => UnblockedWaitsForNothing /\ BlockedOnlyInWait
  BY DEF IInv
<1>2. QED
  BY <1>1, Invariance, PTL

=============================================================================
