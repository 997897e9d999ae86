------------------------------ MODULE Requests ------------------------------
(***************************************************************************)
(* The asynchronous request tables (proc/ipc/io_request, net_request,      *)
(* net_tcp_request, wifi_request): a system call issues a request into a   *)
(* slot and gets a handle, a worker task serves the slots in turn, another *)
(* system call waits for the slot, copies the result and frees slot,       *)
(* object and handle.  The four tables have the same control; a request is *)
(* abstracted to a ticket, and its result to the ticket it answers.        *)
(*                                                                         *)
(* An issue runs with interrupts off.  So does a wait that finds its       *)
(* request done; one that has slept in yield() resumes with interrupts on, *)
(* and what is left of it is preempted anywhere, as the worker is.         *)
(***************************************************************************)
EXTENDS Naturals, FiniteSets

CONSTANTS
  Procs,       \* processes; each has room for one request handle
  Threads,     \* their threads
  ProcessOf,   \* the process of each thread
  SLOTS,       \* IO_REQUEST_SLOTS, NET_PING_SLOTS, ...
  Kinds,       \* read and write, ping and DNS, scan and connect
  ChecksKind,  \* whether the wait calls compare their kind (wifi does not)
  MaxIssues,   \* bound: requests issued in all
  UNSET

Slots == 0 .. SLOTS - 1
Tickets == 1 .. MaxIssues

VARIABLES
  used, done,    \* fields of the slots
  kind,          \* is_write, is_dns, op
  ask,           \* the inputs: the ticket of the request in the slot
  answer,        \* the outputs, per kind: the ticket they answer
  handle,        \* the slot behind each process's request handle
  issued,        \* history: tickets issued
  ticket,        \* history: the ticket behind each process's handle
  abandoned,     \* history: slots whose handle was closed without a wait
  waits,         \* the threads: pc, slot, kind, and the tickets wanted and got
  worker_i, worker_pc, job   \* the worker: its scan index, position and inputs

slots == <<used, done, kind, ask, answer>>
worker == <<worker_i, worker_pc, job>>
history == <<issued, ticket, abandoned>>
request_vars == <<slots, handle, history, waits, worker>>

Waits == [pc : {"idle", "asleep", "test", "copy", "free", "close"},
          slot : Slots \cup {UNSET}, kind : Kinds \cup {UNSET},
          want : Tickets \cup {UNSET}, got : Tickets \cup {UNSET}]

Idle == [pc |-> "idle", slot |-> UNSET, kind |-> UNSET,
         want |-> UNSET, got |-> UNSET]

\* Slots, tickets and positions are in range; UNSET stands for -1 and unset.
RequestsTypeOK ==
  /\ used \in [Slots -> BOOLEAN]
  /\ done \in [Slots -> BOOLEAN]
  /\ kind \in [Slots -> Kinds \cup {UNSET}]
  /\ ask \in [Slots -> Tickets \cup {UNSET}]
  /\ answer \in [Slots -> [Kinds -> Tickets \cup {UNSET}]]
  /\ handle \in [Procs -> Slots \cup {UNSET}]
  /\ issued \in 0 .. MaxIssues
  /\ ticket \in [Procs -> Tickets \cup {UNSET}]
  /\ abandoned \subseteq Slots
  /\ waits \in [Threads -> Waits]
  /\ worker_i \in Slots
  /\ worker_pc \in {"look", "serve", "finish"}
  /\ job \in Tickets \cup {UNSET}

RequestsInit ==
  /\ used = [s \in Slots |-> FALSE]
  /\ done = [s \in Slots |-> FALSE]
  /\ kind = [s \in Slots |-> UNSET]
  /\ ask = [s \in Slots |-> UNSET]
  /\ answer = [s \in Slots |-> [k \in Kinds |-> UNSET]]
  /\ handle = [p \in Procs |-> UNSET]
  /\ issued = 0
  /\ ticket = [p \in Procs |-> UNSET]
  /\ abandoned = {}
  /\ waits = [t \in Threads |-> Idle]
  /\ worker_i = 0 /\ worker_pc = "look" /\ job = UNSET

-----------------------------------------------------------------------------
(***************************************************************************)
(* System calls.                                                           *)
(***************************************************************************)
\* (Mutant.) The scan also takes a slot whose request is done.
FreeSlotsDone == {s \in Slots : ~used[s] \/ done[s]}

FreeSlots == {s \in Slots : ~used[s]}

\* The first slot of the scan that is not used.
NewSlot == CHOOSE s \in FreeSlots : \A r \in FreeSlots : s <= r

\* Calls 16, 18, 20, 22, 24, 101 and 103.  When the slots, the objects or
\* the handles are used up the call fails and undoes what it did.
Issue(p, k) ==
  /\ handle[p] = UNSET
  /\ FreeSlots # {}
  /\ issued < MaxIssues
  /\ used' = [used EXCEPT ![NewSlot] = TRUE]
  /\ done' = [done EXCEPT ![NewSlot] = FALSE]
  /\ kind' = [kind EXCEPT ![NewSlot] = k]
  /\ ask' = [ask EXCEPT ![NewSlot] = issued + 1]
  /\ handle' = [handle EXCEPT ![p] = NewSlot]
  /\ ticket' = [ticket EXCEPT ![p] = issued + 1]
  /\ issued' = issued + 1
  /\ UNCHANGED <<answer, abandoned, waits, worker>>

\* Calls 17, 19, 21, 23, 25, 102 and 104, up to the return or the first
\* yield().  A call of the wrong kind returns -1, where that is checked.
Wait(t, k) ==
  LET p == ProcessOf[t]
      s == handle[p]
  IN
  /\ waits[t].pc = "idle"
  /\ s # UNSET
  /\ ChecksKind => kind[s] = k
  /\ IF done[s]
     THEN /\ waits' = [waits EXCEPT ![t] =
                         [Idle EXCEPT !.want = ticket[p], !.got = answer[s][k]]]
          /\ used' = [used EXCEPT ![s] = FALSE]
          /\ handle' = [handle EXCEPT ![p] = UNSET]
     ELSE /\ waits' = [waits EXCEPT ![t] =
                         [pc |-> "asleep", slot |-> s, kind |-> k,
                          want |-> ticket[p], got |-> UNSET]]
          /\ UNCHANGED <<used, handle>>
  /\ UNCHANGED <<done, kind, ask, answer, history, worker>>

\* handle_close (13), or process_exit (12) closing the handle: the object and
\* the handle go, the slot behind them stays as it is.
Abandon(p) ==
  /\ handle[p] # UNSET
  /\ \A t \in Threads : ProcessOf[t] = p => waits[t].pc = "idle"
  /\ handle' = [handle EXCEPT ![p] = UNSET]
  /\ abandoned' = abandoned \cup {handle[p]}
  /\ UNCHANGED <<slots, issued, ticket, waits, worker>>

-----------------------------------------------------------------------------
(***************************************************************************)
(* A wait that has slept.                                                  *)
(***************************************************************************)
Moves(t, from, to) ==
  /\ waits[t].pc = from
  /\ waits' = [waits EXCEPT ![t].pc = to]

\* yield() finds *waiting_on true and picks the task again.
Wakes(t) ==
  /\ Moves(t, "asleep", "test")
  /\ done[waits[t].slot]
  /\ UNCHANGED <<slots, handle, history, worker>>

\* while (!done) of the wait function.
Test(t) ==
  /\ Moves(t, "test", IF done[waits[t].slot] THEN "copy" ELSE "asleep")
  /\ UNCHANGED <<slots, handle, history, worker>>

Copy(t) ==
  /\ waits[t].pc = "copy"
  /\ waits' = [waits EXCEPT
                 ![t].pc = "free",
                 ![t].got = answer[waits[t].slot][waits[t].kind]]
  /\ UNCHANGED <<slots, handle, history, worker>>

\* (Mutant.) The slot is not given back.
FreeRequestForgotten(t) ==
  /\ Moves(t, "free", "close")
  /\ UNCHANGED <<used, done, kind, ask, answer, handle, history, worker>>

FreeRequest(t) ==
  /\ Moves(t, "free", "close")
  /\ used' = [used EXCEPT ![waits[t].slot] = FALSE]
  /\ UNCHANGED <<done, kind, ask, answer, handle, history, worker>>

\* free_object() and free_handle(); the result goes to the caller.
CloseHandle(t) ==
  /\ waits[t].pc = "close"
  /\ handle' = [handle EXCEPT ![ProcessOf[t]] = UNSET]
  /\ waits' = [waits EXCEPT ![t] =
                 [Idle EXCEPT !.want = waits[t].want, !.got = waits[t].got]]
  /\ UNCHANGED <<slots, history, worker>>

-----------------------------------------------------------------------------
(***************************************************************************)
(* The worker task.                                                        *)
(***************************************************************************)
\* (Mutant.) The scan never leaves the first slot.
NextIndexStays == 0

\* The end of the table is followed by yield() and the start of the next scan.
NextIndex == (worker_i + 1) % SLOTS

\* (Mutant.) Only used is tested.
PendingThoughDone == used[worker_i]

Pending == used[worker_i] /\ ~done[worker_i]

\* The test at the head of the loop body; the inputs are read from here on.
WorkerLook ==
  /\ worker_pc = "look"
  /\ IF Pending THEN worker_pc' = "serve" /\ job' = ask[worker_i] /\ UNCHANGED worker_i
                ELSE worker_i' = NextIndex /\ UNCHANGED <<worker_pc, job>>
  /\ UNCHANGED <<slots, handle, history, waits>>

\* vfs_read(), vfs_write(), icmp_ping(), dns_resolve_a(), tcp_fetch(),
\* wifi_manager_scan() or wifi_manager_connect() returns; outputs are stored.
WorkerServe ==
  /\ worker_pc = "serve"
  /\ answer' = [answer EXCEPT ![worker_i][kind[worker_i]] = job]
  /\ worker_pc' = "finish"
  /\ UNCHANGED <<used, done, kind, ask, handle, history, waits, worker_i, job>>

\* done is set with interrupts off.
WorkerFinish ==
  /\ worker_pc = "finish"
  /\ done' = [done EXCEPT ![worker_i] = TRUE]
  /\ worker_i' = NextIndex
  /\ worker_pc' = "look"
  /\ job' = UNSET
  /\ UNCHANGED <<used, kind, ask, answer, handle, history, waits>>

-----------------------------------------------------------------------------
Worker == WorkerLook \/ WorkerServe \/ WorkerFinish

WaitStep(t) == Wakes(t) \/ Test(t) \/ Copy(t) \/ FreeRequest(t) \/ CloseHandle(t)

RequestsNext ==
  \/ \E p \in Procs, k \in Kinds : Issue(p, k)
  \/ \E t \in Threads, k \in Kinds : Wait(t, k)
  \/ \E p \in Procs : Abandon(p)
  \/ \E t \in Threads : WaitStep(t)
  \/ Worker

RequestsSpec == RequestsInit /\ [][RequestsNext]_request_vars

\* Round-robin scheduling: the worker and every task that is not waiting run.
RequestsFairSpec ==
  /\ RequestsSpec
  /\ WF_request_vars(Worker)
  /\ \A t \in Threads : WF_request_vars(WaitStep(t))

-----------------------------------------------------------------------------
\* A wait returns the result of the request its handle was issued for, not of
\* an earlier or a later request in the same slot.
ResultIsMine ==
  \A t \in Threads :
    waits[t].pc \in {"idle", "free", "close"} => waits[t].got = waits[t].want

\* "only meaningful once done": the request in the slot is done when a wait
\* that has slept goes on to read its result.
ReadsFinishedRequest ==
  \A t \in Threads : waits[t].pc = "copy" => done[waits[t].slot]

\* The slot the worker is serving keeps the request it was serving: it is not
\* freed, reused or finished by anyone else before done is set.
WorkerServesLiveRequest ==
  worker_pc # "look" => used[worker_i] /\ ~done[worker_i] /\ ask[worker_i] = job

\* A slot is in use only as long as a handle, or a wait that is about to free
\* it, leads to it: nothing but a handle closed without a wait loses a slot.
NoSlotLost ==
  \A s \in Slots : used[s] =>
    \/ s \in abandoned
    \/ \E p \in Procs : handle[p] = s
    \/ \E t \in Threads : waits[t].pc # "idle" /\ waits[t].slot = s

\* A wait for a request returns the result of the request its handle was issued
\* for, not of another one in the same slot; the slot a worker is serving is not
\* freed, reused or finished by anyone else meanwhile; and nothing but a handle
\* closed without a wait loses a slot.
RequestsSound == ResultIsMine /\ WorkerServesLiveRequest /\ NoSlotLost

\* A task asleep on a request is served and returns.
WaiterServed ==
  \A t \in Threads : waits[t].pc = "asleep" ~> waits[t].pc = "idle"
=============================================================================
