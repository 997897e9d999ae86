--------------------------- MODULE ProcessesProofs ---------------------------
(***************************************************************************)
(* Tasks and process records stay paired, and waits do not return early,   *)
(* for tables of any size, any set of tasks, and at most one kernel task   *)
(* that spawns, as long as no system call creates a process between that   *)
(* task's scan and its registration.  Without the last condition they do   *)
(* not (the run of ProcessesRace.cfg).                                     *)
(***************************************************************************)
EXTENDS Processes, FiniteSetTheorems, WellFoundedInduction, TLAPS

OneSpawner == ~SpawnsOverlap /\ \A s, q \in KernelSpawners : s = q

\* A record in use lies inside the table.
UsedInTable == \A p \in Slots : pused[p] => p < g_process_count

\* What a scan found still holds when the process is registered: the slot is
\* free, or there is room for one more.
ChoiceHolds ==
  \A s \in KernelSpawners : choice[s] # NONE =>
    IF choice[s] = NewSlot THEN g_process_count < MAX_PROCESSES
    ELSE choice[s] \in 0 .. g_process_count - 1 /\ ~pused[choice[s]]

\* The record a task waits for is in use until the process has exited.
AwaitedLives ==
  \A t \in UserTasks : waits_for[t] # NONE => pused[waits_for[t]] \/ awaited_gone[t]

Inv == /\ TypeOK /\ UsedInTable /\ ChoiceHolds /\ AwaitedLives
       /\ TaskOwnsItsRecord /\ NoOrphanRecord

-----------------------------------------------------------------------------
\* The slots are an interval that holds the table and one slot behind it.
LEMMA SlotsInterval ==
  ASSUME OneSpawner
  PROVE  \E m \in Nat : m >= MAX_PROCESSES /\ Slots = 0 .. m
<1>1. KernelSpawners = {} \/ \E s \in KernelSpawners : KernelSpawners = {s}
  BY DEF OneSpawner
<1>2. Cardinality(KernelSpawners) \in Nat
  <2>1. CASE KernelSpawners = {}
    <3>1. Cardinality(KernelSpawners) = 0
      BY <2>1, FS_EmptySet
    <3> QED BY <3>1
  <2>2. ASSUME NEW s \in KernelSpawners, KernelSpawners = {s}
        PROVE  Cardinality(KernelSpawners) \in Nat
    <3>1. Cardinality({s}) = 1
      BY FS_Singleton
    <3> QED BY <2>2, <3>1
  <2> QED BY <1>1, <2>1, <2>2
<1>3. MAX_PROCESSES \in Nat
  BY ProcessesAssumption
<1> DEFINE m == MAX_PROCESSES + Cardinality(KernelSpawners)
<1>4. m \in Nat /\ m >= MAX_PROCESSES /\ Slots = 0 .. m
  BY <1>2, <1>3 DEF Slots
<1> QED BY <1>4

\* A set of slots that is not empty has a first one.
LEMMA FirstOfSlots ==
  ASSUME NEW slots, slots \subseteq Nat, slots # {}
  PROVE  \E p \in slots : \A q \in slots : p <= q
<1>1. PICK p \in slots : \A q \in slots : ~(<<q, p>> \in OpToRel(<, Nat))
  BY NatLessThanWellFounded, WFMin
<1>2. \A q \in slots : ~(q < p)
  BY <1>1, ZenonT(30) DEF OpToRel
<1> QED BY <1>2

\* What a scan finds is a free slot of the table or room behind it.
LEMMA ScanFinds ==
  ASSUME TypeOK, CanSpawn
  PROVE  IF FirstFree = NewSlot THEN g_process_count < MAX_PROCESSES
         ELSE FirstFree \in 0 .. g_process_count - 1 /\ ~pused[FirstFree]
<1>1. g_process_count \in Nat
  BY ProcessesAssumption DEF TypeOK
<1>2. CASE ExitedSlots = {}
  BY <1>2 DEF FirstFree, CanSpawn
<1>3. CASE ExitedSlots # {}
  <2>1. ExitedSlots \subseteq Nat
    BY <1>1 DEF ExitedSlots
  <2>2. \E p \in ExitedSlots : \A q \in ExitedSlots : p <= q
    BY <1>3, <2>1, FirstOfSlots
  <2>3. FirstFree \in ExitedSlots
    BY <1>3, <2>2 DEF FirstFree
  <2>4. FirstFree \in 0 .. g_process_count - 1 /\ ~pused[FirstFree]
    BY <2>3 DEF ExitedSlots
  <2>5. FirstFree # NewSlot
    BY <1>1, <2>4 DEF NewSlot
  <2> QED BY <2>4, <2>5
<1> QED BY <1>2, <1>3

\* Registering a process in what a scan found keeps the pairing.
LEMMA RegisterKeeps ==
  ASSUME OneSpawner, Inv, NEW found, Register(found),
         IF found = NewSlot THEN g_process_count < MAX_PROCESSES
         ELSE found \in 0 .. g_process_count - 1 /\ ~pused[found],
         choice' \in [KernelSpawners -> Slots \cup {NewSlot, NONE}],
         \A s \in KernelSpawners : choice'[s] = NONE
  PROVE  Inv'
<1>1. PICK m \in Nat : m >= MAX_PROCESSES /\ Slots = 0 .. m
  BY SlotsInterval
<1>2. g_process_count \in Nat /\ g_process_count <= MAX_PROCESSES /\ MAX_PROCESSES \in Nat
  BY ProcessesAssumption DEF Inv, TypeOK
<1>3. ChoiceHolds'
  BY DEF ChoiceHolds
<1>4. CASE UNCHANGED <<g_process_count, pused, task_index, tused, process_index,
                       waits_for, awaited_gone>>
  BY <1>3, <1>4 DEF Inv, TypeOK, UsedInTable, AwaitedLives, TaskOwnsItsRecord, NoOrphanRecord
<1>5. CASE ~UNCHANGED <<g_process_count, pused, task_index, tused, process_index,
                        waits_for, awaited_gone>>
  <2> DEFINE p == SlotOf(found)
  <2>1. PICK t \in UserTasks :
          /\ ~tused[t]
          /\ tused' = [tused EXCEPT ![t] = TRUE]
          /\ pused' = [pused EXCEPT ![p] = TRUE]
          /\ task_index' = [task_index EXCEPT ![p] = t]
          /\ process_index' = [process_index EXCEPT ![t] = p]
          /\ g_process_count' = IF found = NewSlot THEN g_process_count + 1
                                ELSE g_process_count
          /\ UNCHANGED <<waits_for, awaited_gone>>
    BY <1>5 DEF Register, Link
  <2>2. p \in Slots /\ p < g_process_count' /\ p # NONE
    BY <1>1, <1>2, <2>1, ProcessesAssumption DEF SlotOf, NewSlot
  <2>3. ~pused[p]
    BY <1>1, <1>2, <2>2 DEF SlotOf, Inv, UsedInTable
  <2>4. g_process_count' \in 0 .. MAX_PROCESSES /\ g_process_count' >= g_process_count
    BY <1>2, <2>1
  <2> HIDE DEF p
  <2>5. TypeOK'
    BY <2>1, <2>2, <2>4 DEF Inv, TypeOK
  <2>6. UsedInTable'
    BY <1>1, <1>2, <2>1, <2>2, <2>4 DEF Inv, TypeOK, UsedInTable
  <2>7. AwaitedLives'
    BY <2>1, <2>2, ProcessesAssumption DEF Inv, TypeOK, AwaitedLives
  <2>8. TaskOwnsItsRecord'
    BY <2>1, <2>2, <2>3 DEF Inv, TypeOK, TaskOwnsItsRecord
  <2>9. NoOrphanRecord'
    BY <2>1, <2>2, <2>3, ProcessesAssumption DEF Inv, TypeOK, NoOrphanRecord
  <2> QED BY <1>3, <2>5, <2>6, <2>7, <2>8, <2>9 DEF Inv
<1> QED BY <1>4, <1>5

-----------------------------------------------------------------------------
\* The empty table satisfies the invariant.
LEMMA InitInv == OneSpawner /\ Init => Inv
<1> SUFFICES ASSUME OneSpawner, Init PROVE Inv
  OBVIOUS
<1>1. TypeOK
  BY ProcessesAssumption DEF Init, TypeOK
<1>2. UsedInTable
  BY DEF Init, UsedInTable
<1>3. ChoiceHolds
  BY DEF Init, ChoiceHolds
<1>4. AwaitedLives
  BY DEF Init, AwaitedLives
<1>5. TaskOwnsItsRecord /\ NoOrphanRecord
  BY DEF Init, TaskOwnsItsRecord, NoOrphanRecord
<1> QED BY <1>1, <1>2, <1>3, <1>4, <1>5 DEF Inv

\* process_exit releases the record of the task that calls it and no other.
LEMMA ExitInv ==
  ASSUME OneSpawner, Inv, NEW t \in UserTasks, Exit(t) PROVE Inv'
<1> DEFINE p == process_index[t]
<1>1. tused[t] /\ p \in Slots /\ pused[p] /\ task_index[p] = t
  BY DEF Exit, Running, Inv, TypeOK, TaskOwnsItsRecord
<1>2. /\ pused' = [pused EXCEPT ![p] = FALSE]
      /\ tused' = [tused EXCEPT ![t] = FALSE]
      /\ awaited_gone' = [w \in UserTasks |-> awaited_gone[w] \/ waits_for[w] = p]
      /\ UNCHANGED <<g_process_count, task_index, process_index, choice, waits_for>>
  BY DEF Exit, Release
<1> HIDE DEF p
<1>3. TypeOK'
  BY <1>1, <1>2 DEF Inv, TypeOK
<1>4. UsedInTable'
  BY <1>1, <1>2 DEF Inv, TypeOK, UsedInTable
<1>5. ChoiceHolds'
  BY <1>1, <1>2 DEF Inv, TypeOK, ChoiceHolds
<1>6. AwaitedLives'
  BY <1>1, <1>2 DEF Inv, TypeOK, AwaitedLives
<1>7. TaskOwnsItsRecord'
  BY <1>1, <1>2 DEF Inv, TypeOK, TaskOwnsItsRecord
<1>8. NoOrphanRecord'
  BY <1>1, <1>2 DEF p, Inv, TypeOK, NoOrphanRecord
<1> QED BY <1>3, <1>4, <1>5, <1>6, <1>7, <1>8 DEF Inv

\* Every step keeps the invariant.
LEMMA NextInv == OneSpawner /\ Inv /\ [Next]_vars => Inv'
<1> SUFFICES ASSUME OneSpawner, Inv, [Next]_vars PROVE Inv'
  OBVIOUS
<1>1. CASE SyscallSpawn
  <2>1. choice' = choice /\ \A s \in KernelSpawners : choice[s] = NONE
    BY <1>1 DEF SyscallSpawn, OneSpawner
  <2> QED BY <1>1, <2>1, ScanFinds, RegisterKeeps DEF SyscallSpawn, Inv, TypeOK
<1>2. ASSUME NEW s \in KernelSpawners, SpawnScan(s) PROVE Inv'
  <2>1. choice' = [choice EXCEPT ![s] = FirstFree]
        /\ UNCHANGED <<g_process_count, pused, task_index, tused, process_index,
                       waits_for, awaited_gone>>
    BY <1>2 DEF SpawnScan
  <2>2. IF FirstFree = NewSlot THEN g_process_count < MAX_PROCESSES
        ELSE FirstFree \in 0 .. g_process_count - 1 /\ ~pused[FirstFree]
    BY <1>2, ScanFinds DEF SpawnScan, Inv
  <2>3. FirstFree \in Slots \cup {NewSlot, NONE}
    <3>1. PICK m \in Nat : m >= MAX_PROCESSES /\ Slots = 0 .. m
      BY SlotsInterval
    <3>2. g_process_count \in Nat /\ g_process_count <= MAX_PROCESSES /\ MAX_PROCESSES \in Nat
      BY ProcessesAssumption DEF Inv, TypeOK
    <3> QED BY <2>2, <3>1, <3>2
  <2>4. TypeOK'
    BY <2>1, <2>3 DEF Inv, TypeOK
  <2>5. ChoiceHolds'
    BY <2>1, <2>2 DEF Inv, TypeOK, ChoiceHolds
  <2> QED BY <2>1, <2>4, <2>5 DEF Inv, UsedInTable, AwaitedLives, TaskOwnsItsRecord,
                                   NoOrphanRecord
<1>3. ASSUME NEW s \in KernelSpawners, SpawnRegister(s) PROVE Inv'
  <2>1. choice' = [choice EXCEPT ![s] = NONE] /\ choice[s] # NONE /\ Register(choice[s])
    BY <1>3 DEF SpawnRegister
  <2>2. choice' \in [KernelSpawners -> Slots \cup {NewSlot, NONE}]
        /\ \A q \in KernelSpawners : choice'[q] = NONE
    BY <2>1 DEF Inv, TypeOK, OneSpawner
  <2>3. IF choice[s] = NewSlot THEN g_process_count < MAX_PROCESSES
        ELSE choice[s] \in 0 .. g_process_count - 1 /\ ~pused[choice[s]]
    BY <2>1 DEF Inv, ChoiceHolds
  <2> QED BY <2>1, <2>2, <2>3, RegisterKeeps
<1>4. ASSUME NEW t \in UserTasks, Exit(t) PROVE Inv'
  BY <1>4, ExitInv
<1>5. ASSUME NEW t \in UserTasks, NEW p \in Slots, ProcessWait(t, p) PROVE Inv'
  BY <1>5 DEF ProcessWait, Inv, TypeOK, UsedInTable, ChoiceHolds, AwaitedLives,
              TaskOwnsItsRecord, NoOrphanRecord
<1>6. ASSUME NEW t \in UserTasks, WaitReturns(t) PROVE Inv'
  BY <1>6 DEF WaitReturns, Inv, TypeOK, UsedInTable, ChoiceHolds, AwaitedLives,
              TaskOwnsItsRecord, NoOrphanRecord
<1>7. CASE UNCHANGED vars
  BY <1>7 DEF vars, Inv, TypeOK, UsedInTable, ChoiceHolds, AwaitedLives,
              TaskOwnsItsRecord, NoOrphanRecord
<1> QED BY <1>1, <1>2, <1>3, <1>4, <1>5, <1>6, <1>7 DEF Next

-----------------------------------------------------------------------------
\* spawn_process(), fork and process_exit keep every live main task and its
\* process record paired, and the table inside its array.
THEOREM Pairing ==
  ASSUME OneSpawner
  PROVE  Spec => [](TypeOK /\ RecordsPaired)
<1>1. Inv => TypeOK /\ RecordsPaired
  BY DEF Inv, RecordsPaired
<1>2. Init => Inv
  BY InitInv
<1>3. Inv /\ [Next]_vars => Inv'
  BY NextInv
<1> QED BY <1>1, <1>2, <1>3, PTL DEF Spec

\* process_wait returns only after the process it was called for has exited,
\* even if its slot has been used again since.
THEOREM WaitsAreNotEarly ==
  ASSUME OneSpawner
  PROVE  Spec => WaitIsNotEarly
<1>1. Inv /\ [Next]_vars =>
        [\A t \in UserTasks :
           waits_for[t] # NONE /\ waits_for'[t] = NONE => awaited_gone[t]]_vars
  <2> SUFFICES ASSUME Inv, Next, NEW t \in UserTasks,
                      waits_for[t] # NONE, waits_for'[t] = NONE
               PROVE  awaited_gone[t]
    OBVIOUS
  <2>1. CASE waits_for' = waits_for
    BY <2>1
  <2>2. ASSUME NEW w \in UserTasks, NEW p \in Slots, ProcessWait(w, p) PROVE FALSE
    BY <2>2, ProcessesAssumption DEF ProcessWait, Inv, TypeOK, Slots
  <2>3. ASSUME NEW w \in UserTasks, WaitReturns(w) PROVE awaited_gone[t]
    BY <2>3 DEF WaitReturns, WaitSeesExit, Inv, TypeOK, AwaitedLives
  <2> QED BY <2>1, <2>2, <2>3
          DEF Next, SyscallSpawn, SpawnScan, SpawnRegister, Register, Exit
<1>2. Init => Inv
  BY InitInv
<1>3. Inv /\ [Next]_vars => Inv'
  BY NextInv
<1> QED BY <1>1, <1>2, <1>3, PTL DEF Spec, WaitIsNotEarly
=============================================================================
