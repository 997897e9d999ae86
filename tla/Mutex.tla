-------------------------------- MODULE Mutex --------------------------------
(***************************************************************************)
(* One mutex (proc/ipc/mutex, mutex_lock() and mutex_unlock() of           *)
(* kernel/sched/task.c) and the tasks that use it as a lock: a task calls  *)
(* unlock only after its lock call returned.  The code checks neither that *)
(* nor that a task that exits has released the mutex.                      *)
(***************************************************************************)
CONSTANTS
  Tasks,
  NONE,          \* owner_task = -1
  ExitsHolding   \* whether a task may exit between lock and unlock

ASSUME MutexAssumption ==
  /\ NONE \notin Tasks
  /\ ExitsHolding \in BOOLEAN

VARIABLES
  locked, owner_task,   \* fields of g_mutexes[index]
  pc                    \* where each task is

vars == <<locked, owner_task, pc>>

\* owner_task is -1 (NONE) or a task, and a task is at one of four places.
TypeOK ==
  /\ locked \in BOOLEAN
  /\ owner_task \in Tasks \cup {NONE}
  /\ pc \in [Tasks -> {"out", "waiting", "inside", "gone"}]

\* mutex_create()
Init ==
  /\ locked = FALSE
  /\ owner_task = NONE
  /\ pc = [t \in Tasks |-> "out"]

-----------------------------------------------------------------------------
\* (Mutant.) A waiter that does not test again after its yield().
TestAndSetOnce(t) ==
  /\ locked' = TRUE
  /\ owner_task' = IF locked THEN owner_task ELSE t
  /\ pc' = [pc EXCEPT ![t] = IF locked /\ pc[t] = "out" THEN "waiting"
                            ELSE "inside"]

\* (Mutant.) owner_task is written before the test.
TestAndSetSteals(t) ==
  /\ locked' = TRUE
  /\ owner_task' = t
  /\ pc' = [pc EXCEPT ![t] = IF locked THEN "waiting" ELSE "inside"]

\* One pass of the loop of mutex_lock(), with interrupts off.
TestAndSet(t) ==
  /\ locked' = TRUE
  /\ owner_task' = IF locked THEN owner_task ELSE t
  /\ pc' = [pc EXCEPT ![t] = IF locked THEN "waiting" ELSE "inside"]

\* mutex_lock() up to its return or its first yield().
MutexLock(t) == pc[t] = "out" /\ TestAndSet(t)

\* mutex_lock() from the return of yield() on.
Retry(t) == pc[t] = "waiting" /\ TestAndSet(t)

\* (Mutant.) Only the owner is cleared.
MutexUnlockForgets(t) ==
  /\ pc[t] = "inside"
  /\ UNCHANGED locked
  /\ owner_task' = NONE
  /\ pc' = [pc EXCEPT ![t] = "out"]

MutexUnlock(t) ==
  /\ pc[t] = "inside"
  /\ locked' = FALSE
  /\ owner_task' = NONE
  /\ pc' = [pc EXCEPT ![t] = "out"]

\* thread_exit() or process_exit(); neither looks at the mutexes.
Exit(t) ==
  /\ pc[t] = "out" \/ (ExitsHolding /\ pc[t] = "inside")
  /\ pc' = [pc EXCEPT ![t] = "gone"]
  /\ UNCHANGED <<locked, owner_task>>

Next == \E t \in Tasks : MutexLock(t) \/ Retry(t) \/ MutexUnlock(t) \/ Exit(t)

Spec == Init /\ [][Next]_vars

\* yield() comes back to every runnable task, and critical sections end.
FairSpec ==
  Spec /\ \A t \in Tasks : WF_vars(Retry(t)) /\ WF_vars(MutexUnlock(t))

-----------------------------------------------------------------------------
\* A task between lock and unlock is the recorded owner of a locked mutex;
\* so no other task is there too.
InsideHolds ==
  \A t \in Tasks : pc[t] = "inside" => locked /\ owner_task = t

\* "Real mutual exclusion": no two tasks are past mutex_lock() at once.
MutualExclusion ==
  \A t, u \in Tasks : pc[t] = "inside" /\ pc[u] = "inside" => t = u

\* The two fields and the places of the tasks implement Ownership: the mutex
\* changes hands only through being free, only a task that has not exited
\* gives it back, and what an exited task holds stays taken for good,
\* whatever order lock, unlock and exit come in.
Own == INSTANCE Ownership WITH
       holder   <- IF locked THEN owner_task ELSE NONE,
       orphaned <- locked /\ \E t \in Tasks : owner_task = t /\ pc[t] = "gone"

ImplementsOwnership == Own!Promise

Enters == \E t \in Tasks : pc[t] # "inside" /\ pc'[t] = "inside"

\* While tasks keep waiting in mutex_lock() the mutex keeps being taken: the
\* test-and-yield loop loses no release.  (Which waiter gets it is open.)
ContentionResolves ==
  <>[](\E t \in Tasks : pc[t] = "waiting") => []<><<Enters>>_vars
=============================================================================
