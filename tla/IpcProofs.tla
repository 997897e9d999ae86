----------------------------- MODULE IpcProofs ------------------------------
(***************************************************************************)
(* Proofs about the request tables, mutexes and channels.                  *)
(***************************************************************************)
EXTENDS Requests, Mutex, Channel, WellFoundedInduction, TLAPS

-----------------------------------------------------------------------------
(***************************************************************************)
(* A wait returns the result of its own request and no slot is lost, for   *)
(* tables of any size and any number of processes of one thread each,      *)
(* where the wait calls compare the kind of the request.  With two threads *)
(* waiting on one handle, or without that comparison, a wait may return    *)
(* another result than its own.                                            *)
(***************************************************************************)
\* One thread per process, kinds compared, and NONE unlike any slot or ticket.
RequestsUsual ==
  /\ SLOTS \in Nat \ {0} /\ MaxIssues \in Nat
  /\ UNSET \notin Int /\ UNSET \notin Kinds
  /\ ProcessOf \in [Threads -> Procs]
  /\ \A t, u \in Threads : ProcessOf[t] = ProcessOf[u] => t = u
  /\ ChecksKind

(***************************************************************************)
(* The invariant.  A process holds the slot behind its handle until its    *)
(* wait has freed the slot; the handle itself goes later.                  *)
(***************************************************************************)
Holds(p) ==
  handle[p] # UNSET /\ \A t \in Threads : ProcessOf[t] = p => waits[t].pc # "close"

\* The slot a process holds is in use for the request of its handle.
HeldIsLive == \A p \in Procs : Holds(p) => used[handle[p]] /\ ask[handle[p]] = ticket[p]

HoldersDiffer ==
  \A p, q \in Procs : Holds(p) /\ Holds(q) /\ handle[p] = handle[q] => p = q

\* A slot in use is held, or its handle was closed without a wait.
UsedIsHeld ==
  \A s \in Slots : used[s] => s \in abandoned \/ \E p \in Procs : Holds(p) /\ handle[p] = s

UsedHasKind == \A s \in Slots : used[s] => kind[s] \in Kinds

DoneIsAnswered ==
  \A s \in Slots : used[s] /\ done[s] => answer[s][kind[s]] = ask[s]

\* A wait that has not returned is about the slot and the ticket of the handle.
WaitAgrees ==
  \A t \in Threads : waits[t].pc # "idle" =>
    /\ handle[ProcessOf[t]] \in Slots
    /\ waits[t].slot = handle[ProcessOf[t]]
    /\ waits[t].want = ticket[ProcessOf[t]]
    /\ waits[t].pc # "close" => waits[t].kind = kind[waits[t].slot]
    /\ waits[t].pc \in {"copy", "free"} => done[waits[t].slot]

WorkerAgrees ==
  /\ worker_pc # "look" => used[worker_i] /\ ~done[worker_i] /\ ask[worker_i] = job
  /\ worker_pc = "finish" => answer[worker_i][kind[worker_i]] = job

RequestsInv ==
  /\ RequestsTypeOK /\ HeldIsLive /\ HoldersDiffer /\ UsedIsHeld /\ UsedHasKind
  /\ DoneIsAnswered /\ WaitAgrees /\ WorkerAgrees /\ ResultIsMine

-----------------------------------------------------------------------------
\* The scan for a free slot finds one if there is one.
LEMMA ScanFinds == ASSUME FreeSlots # {}, RequestsUsual PROVE NewSlot \in Slots /\ ~used[NewSlot]
<1>1. FreeSlots \subseteq Nat
  BY DEF FreeSlots, Slots, RequestsUsual
<1>2. PICK s \in FreeSlots : \A r \in FreeSlots : ~(<<r, s>> \in OpToRel(<, Nat))
  BY <1>1, NatLessThanWellFounded, WFMin, Zenon
<1>3. \A r \in FreeSlots : ~(r < s)
  BY <1>1, <1>2, Zenon DEF OpToRel
<1>4. \A r \in FreeSlots : s <= r
  BY <1>1, <1>3
<1>5. NewSlot \in FreeSlots
  BY <1>4 DEF NewSlot
<1> QED BY <1>5 DEF FreeSlots

\* The worker's index stays inside the table.
LEMMA IndexInTable == ASSUME RequestsUsual, RequestsTypeOK PROVE NextIndex \in Slots
BY DEF RequestsUsual, RequestsTypeOK, NextIndex, Slots

\* Empty tables satisfy the invariant.
LEMMA RequestsInitInv == RequestsUsual /\ RequestsInit => RequestsInv
<1> SUFFICES ASSUME RequestsUsual, RequestsInit PROVE RequestsInv
  OBVIOUS
<1>1. Idle \in Waits
  BY DEF Idle, Waits
<1>2. RequestsTypeOK
  BY <1>1 DEF RequestsUsual, RequestsInit, RequestsTypeOK, Slots
<1>3. \A t \in Threads : waits[t].pc = "idle" /\ waits[t].got = waits[t].want
  BY DEF RequestsInit, Idle
<1>4. HeldIsLive /\ HoldersDiffer
  BY DEF RequestsInit, HeldIsLive, HoldersDiffer, Holds
<1>5. UsedIsHeld /\ UsedHasKind /\ DoneIsAnswered
  BY DEF RequestsInit, UsedIsHeld, UsedHasKind, DoneIsAnswered
<1>6. WaitAgrees /\ ResultIsMine
  BY <1>3 DEF WaitAgrees, ResultIsMine
<1>7. WorkerAgrees
  BY DEF RequestsInit, WorkerAgrees
<1> QED BY <1>2, <1>4, <1>5, <1>6, <1>7 DEF RequestsInv

-----------------------------------------------------------------------------
\* A request is issued into a slot nobody holds.
LEMMA IssueInv ==
  ASSUME RequestsUsual, RequestsInv, NEW p \in Procs, NEW k \in Kinds, Issue(p, k) PROVE RequestsInv'
<1> DEFINE s == NewSlot
<1>1. s \in Slots /\ ~used[s] /\ s # UNSET
  BY ScanFinds DEF Issue, RequestsUsual, Slots
<1>2. /\ handle[p] = UNSET
      /\ used' = [used EXCEPT ![s] = TRUE]
      /\ done' = [done EXCEPT ![s] = FALSE]
      /\ kind' = [kind EXCEPT ![s] = k]
      /\ ask' = [ask EXCEPT ![s] = issued + 1]
      /\ handle' = [handle EXCEPT ![p] = s]
      /\ ticket' = [ticket EXCEPT ![p] = issued + 1]
      /\ issued' = issued + 1 /\ issued < MaxIssues
      /\ UNCHANGED <<answer, abandoned, waits, worker_i, worker_pc, job>>
  BY DEF Issue, worker
<1> HIDE DEF s
<1>3. \A t \in Threads : ProcessOf[t] = p => waits[t].pc = "idle"
  BY <1>2 DEF RequestsInv, WaitAgrees, RequestsUsual, Slots
<1>4. \A q \in Procs : handle[q] = s => ~Holds(q)
  BY <1>1 DEF RequestsInv, HeldIsLive
<1>5. RequestsTypeOK'
  BY <1>1, <1>2 DEF RequestsInv, RequestsTypeOK, RequestsUsual, Tickets
<1>6. \A q \in Procs : q # p => (Holds(q)' <=> Holds(q))
  BY <1>2 DEF Holds, RequestsInv, RequestsTypeOK
<1>7. Holds(p)'
  BY <1>1, <1>2, <1>3 DEF Holds, RequestsInv, RequestsTypeOK
<1>8. HeldIsLive'
  BY <1>1, <1>2, <1>4, <1>6 DEF RequestsInv, RequestsTypeOK, HeldIsLive, Holds
<1>9. HoldersDiffer'
  BY <1>1, <1>2, <1>4, <1>6 DEF RequestsInv, RequestsTypeOK, HoldersDiffer
<1>10. UsedIsHeld'
  BY <1>1, <1>2, <1>6, <1>7 DEF RequestsInv, RequestsTypeOK, UsedIsHeld, Holds
<1>11. UsedHasKind' /\ DoneIsAnswered'
  BY <1>1, <1>2 DEF RequestsInv, RequestsTypeOK, UsedHasKind, DoneIsAnswered
<1>12. ResultIsMine'
  BY <1>2 DEF RequestsInv, ResultIsMine
<1>13. WaitAgrees'
  <2> SUFFICES ASSUME NEW t \in Threads, waits[t].pc # "idle"
               PROVE  /\ handle'[ProcessOf[t]] \in Slots
                      /\ waits[t].slot = handle'[ProcessOf[t]]
                      /\ waits[t].want = ticket'[ProcessOf[t]]
                      /\ waits[t].pc # "close" => waits[t].kind = kind'[waits[t].slot]
                      /\ waits[t].pc \in {"copy", "free"} => done'[waits[t].slot]
    BY <1>2 DEF WaitAgrees
  <2> DEFINE q == ProcessOf[t]
  <2>1. q \in Procs /\ q # p
    BY <1>3 DEF RequestsUsual
  <2>2. handle'[q] = handle[q] /\ ticket'[q] = ticket[q] /\ handle[q] # UNSET
    BY <1>2, <2>1 DEF RequestsInv, RequestsTypeOK, WaitAgrees, RequestsUsual, Slots
  <2>3. ASSUME waits[t].pc # "close" PROVE handle[q] # s
    BY <1>4, <2>1, <2>2, <2>3 DEF Holds, RequestsUsual
  <2> QED BY <1>1, <1>2, <2>1, <2>2, <2>3 DEF RequestsInv, RequestsTypeOK, WaitAgrees
<1>14. WorkerAgrees'
  BY <1>1, <1>2 DEF RequestsInv, RequestsTypeOK, WorkerAgrees
<1> QED BY <1>5, <1>8, <1>9, <1>10, <1>11, <1>12, <1>13, <1>14 DEF RequestsInv

\* A wait that finds its request done takes the result and frees the slot;
\* one that does not goes to sleep.
LEMMA WaitInv ==
  ASSUME RequestsUsual, RequestsInv, NEW t \in Threads, NEW k \in Kinds, Wait(t, k) PROVE RequestsInv'
<1> DEFINE p == ProcessOf[t]
           s == handle[p]
<1>1. p \in Procs /\ s \in Slots /\ s # UNSET /\ waits[t].pc = "idle" /\ kind[s] = k
  BY DEF Wait, RequestsUsual, RequestsInv, RequestsTypeOK
<1>2. UNCHANGED <<done, kind, ask, answer, issued, ticket, abandoned, worker_i, worker_pc, job>>
  BY DEF Wait, history, worker
<1>3. Holds(p)
  BY <1>1 DEF Holds, RequestsUsual
<1>4. used[s] /\ ask[s] = ticket[p]
  BY <1>1, <1>3 DEF RequestsInv, HeldIsLive
<1>5. ticket[p] \in Tickets \cup {UNSET} /\ answer[s][k] \in Tickets \cup {UNSET}
  BY <1>1 DEF RequestsInv, RequestsTypeOK
<1>6. CASE done[s]
  <2> DEFINE w == [Idle EXCEPT !.want = ticket[p], !.got = answer[s][k]]
  <2>1. waits' = [waits EXCEPT ![t] = w]
    BY <1>6 DEF Wait
  <2>2. used' = [used EXCEPT ![s] = FALSE] /\ handle' = [handle EXCEPT ![p] = UNSET]
    BY <1>6 DEF Wait
  <2>3. w \in Waits /\ w.pc = "idle" /\ w.got = w.want
    <3>1. answer[s][k] = ticket[p]
      BY <1>1, <1>4, <1>6 DEF RequestsInv, DoneIsAnswered
    <3> QED BY <1>5, <3>1, Zenon DEF Waits, Idle
  <2> HIDE DEF w
  <2>4. \A u \in Threads : u # t => waits'[u] = waits[u] /\ ProcessOf[u] # p
    BY <2>1 DEF RequestsInv, RequestsTypeOK, RequestsUsual
  <2>5. waits'[t] = w
    BY <2>1 DEF RequestsInv, RequestsTypeOK
  <2>6. RequestsTypeOK'
    BY <1>1, <1>2, <2>1, <2>2, <2>3 DEF RequestsInv, RequestsTypeOK
  <2>7. \A q \in Procs : q # p => handle'[q] = handle[q] /\ (Holds(q)' <=> Holds(q))
    BY <1>1, <2>2, <2>4, Zenon DEF Holds, RequestsInv, RequestsTypeOK
  <2>8. ~Holds(p)'
    BY <1>1, <2>2 DEF Holds, RequestsInv, RequestsTypeOK
  <2>9. \A q \in Procs : q # p /\ Holds(q) => handle[q] # s
    BY <1>1, <1>3 DEF RequestsInv, HoldersDiffer
  <2>10. HeldIsLive' /\ HoldersDiffer'
    <3>1. \A q \in Procs : Holds(q)' => q # p /\ Holds(q) /\ handle'[q] = handle[q]
      BY <2>7, <2>8
    <3>2. \A q \in Procs : Holds(q)' => used'[handle[q]] = used[handle[q]]
      BY <2>2, <2>9, <3>1, Zenon DEF RequestsInv, RequestsTypeOK, Holds
    <3>3. HeldIsLive'
      BY <1>2, <3>1, <3>2 DEF RequestsInv, HeldIsLive
    <3>4. HoldersDiffer'
      BY <3>1 DEF RequestsInv, HoldersDiffer
    <3> QED BY <3>3, <3>4
  <2>11. UsedIsHeld'
    BY <1>1, <1>2, <2>2, <2>7 DEF RequestsInv, RequestsTypeOK, UsedIsHeld
  <2>12. UsedHasKind' /\ DoneIsAnswered'
    BY <1>2, <2>2, ZenonT(30) DEF RequestsInv, RequestsTypeOK, UsedHasKind, DoneIsAnswered
  <2>13. WaitAgrees'
    BY <1>1, <1>2, <2>3, <2>4, <2>5, <2>7 DEF RequestsInv, WaitAgrees, RequestsUsual
  <2>14. WorkerAgrees'
    BY <1>1, <1>2, <1>6, <2>2 DEF RequestsInv, RequestsTypeOK, WorkerAgrees
  <2>15. ResultIsMine'
    BY <2>3, <2>4, <2>5 DEF RequestsInv, ResultIsMine
  <2> QED BY <2>6, <2>10, <2>11, <2>12, <2>13, <2>14, <2>15 DEF RequestsInv
<1>7. CASE ~done[s]
  <2> DEFINE w == [pc |-> "asleep", slot |-> s, kind |-> k,
                   want |-> ticket[p], got |-> UNSET]
  <2>1. waits' = [waits EXCEPT ![t] = w] /\ UNCHANGED <<used, handle>>
    BY <1>7, ZenonT(30) DEF Wait
  <2>2. /\ w \in Waits /\ w.pc = "asleep" /\ w.slot = s
        /\ w.kind = kind[s] /\ w.want = ticket[p]
    BY <1>1, <1>5 DEF Waits
  <2> HIDE DEF w
  <2>3. \A u \in Threads : u # t => waits'[u] = waits[u]
    BY <2>1 DEF RequestsInv, RequestsTypeOK
  <2>4. waits'[t] = w
    BY <2>1, ZenonT(30) DEF RequestsInv, RequestsTypeOK
  <2>5. RequestsTypeOK'
    BY <1>2, <2>1, <2>2, ZenonT(30) DEF RequestsInv, RequestsTypeOK
  <2>6. \A q \in Procs : Holds(q)' <=> Holds(q)
    BY <1>1, <2>1, <2>2, <2>3, <2>4, ZenonT(30) DEF Holds
  <2>7. HeldIsLive' /\ HoldersDiffer' /\ UsedIsHeld'
    BY <1>2, <2>1, <2>6 DEF RequestsInv, HeldIsLive, HoldersDiffer, UsedIsHeld
  <2>8. UsedHasKind' /\ DoneIsAnswered' /\ WorkerAgrees'
    BY <1>2, <2>1, ZenonT(30) DEF RequestsInv, UsedHasKind, DoneIsAnswered, WorkerAgrees
  <2>9. WaitAgrees'
    BY <1>1, <1>2, <2>1, <2>2, <2>3, <2>4 DEF RequestsInv, WaitAgrees
  <2>10. ResultIsMine'
    BY <2>2, <2>3, <2>4 DEF RequestsInv, ResultIsMine
  <2> QED BY <2>5, <2>7, <2>8, <2>9, <2>10 DEF RequestsInv
<1> QED BY <1>6, <1>7

\* A handle closed without a wait leaves its slot in use, and recorded as such.
LEMMA AbandonInv == ASSUME RequestsUsual, RequestsInv, NEW p \in Procs, Abandon(p) PROVE RequestsInv'
<1>1. /\ handle[p] \in Slots /\ abandoned' = abandoned \cup {handle[p]}
      /\ handle' = [handle EXCEPT ![p] = UNSET]
      /\ \A t \in Threads : ProcessOf[t] = p => waits[t].pc = "idle"
      /\ UNCHANGED <<used, done, kind, ask, answer, issued, ticket, waits, worker_i, worker_pc, job>>
  BY DEF Abandon, slots, worker, RequestsInv, RequestsTypeOK
<1>2. RequestsTypeOK'
  BY <1>1 DEF RequestsInv, RequestsTypeOK
<1>3. \A q \in Procs : q # p => handle'[q] = handle[q] /\ (Holds(q)' <=> Holds(q))
  BY <1>1 DEF Holds, RequestsInv, RequestsTypeOK
<1>4. ~Holds(p)'
  BY <1>1, ZenonT(30) DEF Holds, RequestsInv, RequestsTypeOK
<1>5. HeldIsLive' /\ HoldersDiffer' /\ UsedIsHeld'
  BY <1>1, <1>3, <1>4 DEF RequestsInv, HeldIsLive, HoldersDiffer, UsedIsHeld
<1>6. UsedHasKind' /\ DoneIsAnswered' /\ WorkerAgrees' /\ ResultIsMine'
  BY <1>1, ZenonT(30) DEF RequestsInv, UsedHasKind, DoneIsAnswered, WorkerAgrees, ResultIsMine
<1>7. WaitAgrees'
  <2>0. WaitAgrees
    BY ZenonT(30) DEF RequestsInv
  <2> QED BY <1>1, <1>3, <2>0 DEF WaitAgrees, RequestsUsual
<1> QED BY <1>2, <1>5, <1>6, <1>7 DEF RequestsInv

-----------------------------------------------------------------------------
\* A step of a wait that changes nothing but its own position and result, and
\* does not free the slot, keeps what the others rely on.
LEMMA WaiterMoves ==
  ASSUME RequestsUsual, RequestsInv, NEW t \in Threads, NEW w \in Waits,
         waits' = [waits EXCEPT ![t] = w],
         waits[t].pc \notin {"idle", "close"}, w.pc \notin {"idle", "close"},
         w.slot = waits[t].slot, w.kind = waits[t].kind, w.want = waits[t].want,
         w.pc \in {"copy", "free"} => done[w.slot],
         w.pc = "free" => w.got = w.want,
         UNCHANGED <<slots, handle, history, worker>>
  PROVE  RequestsInv'
<1>1. UNCHANGED <<used, done, kind, ask, answer, handle, issued, ticket, abandoned, worker_i, worker_pc, job>>
  BY DEF slots, history, worker
<1>2. waits'[t] = w /\ \A u \in Threads : u # t => waits'[u] = waits[u]
  BY ZenonT(30) DEF RequestsInv, RequestsTypeOK
<1>3. RequestsTypeOK'
  BY <1>1, ZenonT(30) DEF RequestsInv, RequestsTypeOK
<1>4. \A q \in Procs : Holds(q)' <=> Holds(q)
  BY <1>1, <1>2 DEF Holds
<1>5. HeldIsLive' /\ HoldersDiffer' /\ UsedIsHeld'
  BY <1>1, <1>4 DEF RequestsInv, HeldIsLive, HoldersDiffer, UsedIsHeld
<1>6. UsedHasKind' /\ DoneIsAnswered' /\ WorkerAgrees'
  BY <1>1 DEF RequestsInv, UsedHasKind, DoneIsAnswered, WorkerAgrees
<1>7. WaitAgrees'
  BY <1>1, <1>2 DEF RequestsInv, WaitAgrees
<1>8. ResultIsMine'
  BY <1>2 DEF RequestsInv, ResultIsMine
<1> QED BY <1>3, <1>5, <1>6, <1>7, <1>8 DEF RequestsInv

\* Waking up, testing done again and copying the result.
LEMMA WakeTestCopyInv ==
  ASSUME RequestsUsual, RequestsInv, NEW t \in Threads, Wakes(t) \/ Test(t) \/ Copy(t) PROVE RequestsInv'
<1>1. waits[t] \in Waits
  BY DEF RequestsInv, RequestsTypeOK
<1>2. CASE Wakes(t)
  <2> DEFINE w == [waits[t] EXCEPT !.pc = "test"]
  <2>1. w \in Waits /\ waits' = [waits EXCEPT ![t] = w] /\ waits[t].pc = "asleep"
    BY <1>1, <1>2 DEF Wakes, Moves, Waits
  <2>2. /\ w.pc = "test" /\ w.slot = waits[t].slot
        /\ w.kind = waits[t].kind /\ w.want = waits[t].want
    BY <1>1 DEF Waits
  <2> HIDE DEF w
  <2> QED BY <1>2, <2>1, <2>2, WaiterMoves, Zenon DEF Wakes
<1>3. CASE Test(t)
  <2> DEFINE to == IF done[waits[t].slot] THEN "copy" ELSE "asleep"
             w == [waits[t] EXCEPT !.pc = to]
  <2>1. w \in Waits /\ waits' = [waits EXCEPT ![t] = w] /\ waits[t].pc = "test"
    BY <1>1, <1>3 DEF Test, Moves, Waits
  <2>2. /\ w.pc = to /\ w.slot = waits[t].slot
        /\ w.kind = waits[t].kind /\ w.want = waits[t].want
    BY <1>1 DEF Waits
  <2>3. w.pc \in {"copy", "asleep"} /\ (w.pc = "copy" => done[w.slot])
    BY <2>2
  <2> HIDE DEF w, to
  <2> QED BY <1>3, <2>1, <2>2, <2>3, WaiterMoves, Zenon DEF Test
<1>4. CASE Copy(t)
  <2> DEFINE s == waits[t].slot
             p == ProcessOf[t]
             w == [waits[t] EXCEPT !.pc = "free", !.got = answer[s][waits[t].kind]]
  <2>1. waits[t].pc = "copy" /\ waits' = [waits EXCEPT ![t] = w]
    BY <1>4, Zenon DEF Copy
  <2>2. /\ p \in Procs /\ s \in Slots /\ s = handle[p] /\ waits[t].want = ticket[p]
        /\ waits[t].kind = kind[s] /\ done[s]
    BY <2>1 DEF RequestsInv, WaitAgrees, RequestsUsual
  <2>3. Holds(p)
    BY <2>1, <2>2 DEF Holds, RequestsUsual, Slots
  <2>4. used[s] /\ ask[s] = ticket[p]
    BY <2>2, <2>3 DEF RequestsInv, HeldIsLive
  <2>5. kind[s] \in Kinds /\ answer[s][kind[s]] = ask[s]
    BY <2>2, <2>4, ZenonT(30) DEF RequestsInv, UsedHasKind, DoneIsAnswered
  <2>6. answer[s][waits[t].kind] = waits[t].want
    BY <2>2, <2>4, <2>5
  <2>7. w \in Waits
    BY <1>1, <2>6, Zenon DEF Waits
  <2>8. /\ w.pc = "free" /\ w.slot = s /\ w.got = w.want
        /\ w.kind = waits[t].kind /\ w.want = waits[t].want
    BY <1>1, <2>6 DEF Waits
  <2> HIDE DEF w
  <2> QED BY <1>4, <2>1, <2>2, <2>7, <2>8, WaiterMoves, Zenon DEF Copy
<1> QED BY <1>2, <1>3, <1>4

\* The slot is freed by its holder, after it was done.
LEMMA FreeRequestInv == ASSUME RequestsUsual, RequestsInv, NEW t \in Threads, FreeRequest(t) PROVE RequestsInv'
<1> DEFINE s == waits[t].slot
           p == ProcessOf[t]
           w == [waits[t] EXCEPT !.pc = "close"]
<1>1. waits[t].pc = "free" /\ waits' = [waits EXCEPT ![t] = w]
  BY DEF FreeRequest, Moves
<1>2. /\ used' = [used EXCEPT ![s] = FALSE]
      /\ UNCHANGED <<done, kind, ask, answer, handle, issued, ticket, abandoned, worker_i, worker_pc, job>>
  BY DEF FreeRequest, history, worker
<1>3. /\ p \in Procs /\ s \in Slots /\ s = handle[p] /\ waits[t].want = ticket[p] /\ done[s]
  BY <1>1 DEF RequestsInv, WaitAgrees, RequestsUsual
<1>4. Holds(p)
  BY <1>1, <1>3 DEF Holds, RequestsUsual, Slots
<1>5. /\ w \in Waits /\ w.pc = "close" /\ w.slot = s /\ w.kind = waits[t].kind
      /\ w.want = waits[t].want /\ w.got = waits[t].got
  BY ZenonT(30) DEF RequestsInv, RequestsTypeOK, Waits
<1> HIDE DEF w
<1>6. waits'[t] = w /\ \A u \in Threads : u # t => waits'[u] = waits[u] /\ ProcessOf[u] # p
  BY <1>1 DEF RequestsInv, RequestsTypeOK, RequestsUsual
<1>7. RequestsTypeOK'
  BY <1>1, <1>2, <1>3, <1>5, ZenonT(30) DEF RequestsInv, RequestsTypeOK
<1>8. \A q \in Procs : q # p => (Holds(q)' <=> Holds(q))
  BY <1>2, <1>6 DEF Holds
<1>9. ~Holds(p)'
  BY <1>5, <1>6 DEF Holds
<1>10. \A q \in Procs : q # p /\ Holds(q) => handle[q] # s
  BY <1>3, <1>4 DEF RequestsInv, HoldersDiffer
<1>11. HeldIsLive' /\ HoldersDiffer'
  <2>1. \A q \in Procs : Holds(q)' => q # p /\ Holds(q)
    BY <1>8, <1>9
  <2>2. \A q \in Procs : Holds(q)' => used'[handle[q]] = used[handle[q]]
    BY <1>2, <1>10, <2>1, Zenon DEF RequestsInv, RequestsTypeOK, Holds
  <2>3. HeldIsLive'
    BY <1>2, <2>1, <2>2, ZenonT(30) DEF RequestsInv, HeldIsLive
  <2>4. HoldersDiffer'
    BY <1>2, <2>1 DEF RequestsInv, HoldersDiffer
  <2> QED BY <2>3, <2>4
<1>12. UsedIsHeld'
  BY <1>2, <1>3, <1>8, ZenonT(30) DEF RequestsInv, RequestsTypeOK, UsedIsHeld
<1>13. UsedHasKind' /\ DoneIsAnswered' /\ WorkerAgrees'
  BY <1>2, <1>3, ZenonT(30) DEF RequestsInv, RequestsTypeOK, UsedHasKind, DoneIsAnswered, WorkerAgrees
<1>14. WaitAgrees'
  BY <1>2, <1>3, <1>5, <1>6 DEF RequestsInv, WaitAgrees
<1>15. ResultIsMine'
  BY <1>1, <1>5, <1>6 DEF RequestsInv, ResultIsMine
<1> QED BY <1>7, <1>11, <1>12, <1>13, <1>14, <1>15 DEF RequestsInv

\* The handle goes after the slot: by then the slot may be someone else's.
LEMMA CloseHandleInv == ASSUME RequestsUsual, RequestsInv, NEW t \in Threads, CloseHandle(t) PROVE RequestsInv'
<1> DEFINE p == ProcessOf[t]
           w == [Idle EXCEPT !.want = waits[t].want, !.got = waits[t].got]
<1>1. /\ waits[t].pc = "close" /\ waits' = [waits EXCEPT ![t] = w]
      /\ handle' = [handle EXCEPT ![p] = UNSET]
      /\ UNCHANGED <<used, done, kind, ask, answer, issued, ticket, abandoned, worker_i, worker_pc, job>>
  BY DEF CloseHandle, slots, history, worker
<1>2. w \in Waits /\ w.pc = "idle" /\ w.want = waits[t].want /\ w.got = waits[t].got
  BY Zenon DEF RequestsInv, RequestsTypeOK, Waits, Idle
<1> HIDE DEF w
<1>3. p \in Procs
  BY DEF RequestsUsual
<1>4. waits'[t] = w /\ \A u \in Threads : u # t => waits'[u] = waits[u] /\ ProcessOf[u] # p
  BY <1>1 DEF RequestsInv, RequestsTypeOK, RequestsUsual
<1>5. RequestsTypeOK'
  BY <1>1, <1>2, <1>3 DEF RequestsInv, RequestsTypeOK
<1>6. ~Holds(p)
  BY <1>1 DEF Holds
<1>7. ~Holds(p)'
  BY <1>1, <1>3 DEF Holds, RequestsInv, RequestsTypeOK
<1>8. \A q \in Procs : q # p => handle'[q] = handle[q] /\ (Holds(q)' <=> Holds(q))
  BY <1>1, <1>4 DEF Holds, RequestsInv, RequestsTypeOK
<1>9. HeldIsLive' /\ HoldersDiffer' /\ UsedIsHeld'
  <2>0. HeldIsLive /\ HoldersDiffer /\ UsedIsHeld
    BY ZenonT(30) DEF RequestsInv
  <2>1. HeldIsLive'
    BY <1>1, <1>7, <1>8, <2>0 DEF HeldIsLive
  <2>2. HoldersDiffer'
    BY <1>7, <1>8, <2>0 DEF HoldersDiffer
  <2>3. UsedIsHeld'
    BY <1>1, <1>6, <1>8, <2>0, ZenonT(30) DEF UsedIsHeld
  <2> QED BY <2>1, <2>2, <2>3
<1>10. UsedHasKind' /\ DoneIsAnswered' /\ WorkerAgrees'
  <2>0. UsedHasKind /\ DoneIsAnswered /\ WorkerAgrees
    BY ZenonT(30) DEF RequestsInv
  <2> QED BY <1>1, <2>0 DEF UsedHasKind, DoneIsAnswered, WorkerAgrees
<1>11. WaitAgrees'
  BY <1>1, <1>2, <1>3, <1>4, <1>8 DEF RequestsInv, WaitAgrees, RequestsUsual
<1>12. ResultIsMine'
  BY <1>1, <1>2, <1>4, Zenon DEF RequestsInv, ResultIsMine
<1> QED BY <1>5, <1>9, <1>10, <1>11, <1>12 DEF RequestsInv

-----------------------------------------------------------------------------
\* The worker stores the answer of a request before it sets done.
LEMMA WorkerInv == ASSUME RequestsUsual, RequestsInv, Worker PROVE RequestsInv'
<1>1. NextIndex \in Slots /\ worker_i \in Slots
  BY IndexInTable DEF RequestsInv, RequestsTypeOK
<1>2. CASE WorkerLook
  <2>1. UNCHANGED <<used, done, kind, ask, answer, handle, issued, ticket, abandoned, waits>>
    BY <1>2 DEF WorkerLook, slots, history
  <2>2. RequestsTypeOK'
    BY <1>1, <1>2, <2>1 DEF WorkerLook, RequestsInv, RequestsTypeOK
  <2>3. HeldIsLive' /\ HoldersDiffer' /\ UsedIsHeld' /\ UsedHasKind' /\ DoneIsAnswered'
    <3>0. HeldIsLive /\ HoldersDiffer /\ UsedIsHeld /\ UsedHasKind /\ DoneIsAnswered
      BY ZenonT(30) DEF RequestsInv
    <3>1. HeldIsLive' /\ HoldersDiffer'
      BY <2>1, <3>0 DEF HeldIsLive, HoldersDiffer, Holds
    <3>2. UsedIsHeld'
      BY <2>1, <3>0 DEF UsedIsHeld, Holds
    <3>3. UsedHasKind' /\ DoneIsAnswered'
      BY <2>1, <3>0, ZenonT(30) DEF UsedHasKind, DoneIsAnswered
    <3> QED BY <3>1, <3>2, <3>3
  <2>4. WaitAgrees' /\ ResultIsMine'
    <3>0. WaitAgrees /\ ResultIsMine
      BY ZenonT(30) DEF RequestsInv
    <3> QED BY <2>1, <3>0 DEF WaitAgrees, ResultIsMine
  <2>5. WorkerAgrees'
    BY <1>2, <2>1 DEF WorkerLook, Pending, WorkerAgrees
  <2> QED BY <2>2, <2>3, <2>4, <2>5 DEF RequestsInv
<1>3. CASE WorkerServe
  <2>1. /\ worker_pc = "serve" /\ worker_pc' = "finish"
        /\ answer' = [answer EXCEPT ![worker_i][kind[worker_i]] = job]
        /\ UNCHANGED <<used, done, kind, ask, handle, issued, ticket, abandoned, waits, worker_i, job>>
    BY <1>3 DEF WorkerServe, history
  <2>2. used[worker_i] /\ ~done[worker_i] /\ ask[worker_i] = job /\ kind[worker_i] \in Kinds
    BY <1>1, <2>1 DEF RequestsInv, WorkerAgrees, UsedHasKind
  <2>3. /\ answer'[worker_i][kind[worker_i]] = job
        /\ \A s \in Slots : s # worker_i => answer'[s] = answer[s]
    BY <1>1, <2>1, <2>2 DEF RequestsInv, RequestsTypeOK
  <2>4. answer' \in [Slots -> [Kinds -> Tickets \cup {UNSET}]]
    BY <1>1, <2>1, <2>2 DEF RequestsInv, RequestsTypeOK
  <2>5. RequestsTypeOK'
    BY <2>1, <2>4, ZenonT(30) DEF RequestsInv, RequestsTypeOK
  <2>6. HeldIsLive' /\ HoldersDiffer' /\ UsedIsHeld' /\ UsedHasKind'
    BY <2>1 DEF RequestsInv, HeldIsLive, HoldersDiffer, UsedIsHeld, UsedHasKind, Holds
  <2>7. DoneIsAnswered'
    BY <2>1, <2>2, <2>3, ZenonT(30) DEF RequestsInv, DoneIsAnswered
  <2>8. WaitAgrees' /\ ResultIsMine'
    BY <2>1 DEF RequestsInv, WaitAgrees, ResultIsMine
  <2>9. WorkerAgrees'
    BY <2>1, <2>2, <2>3 DEF WorkerAgrees
  <2> QED BY <2>5, <2>6, <2>7, <2>8, <2>9 DEF RequestsInv
<1>4. CASE WorkerFinish
  <2>1. /\ worker_pc = "finish" /\ worker_pc' = "look" /\ job' = UNSET /\ worker_i' = NextIndex
        /\ done' = [done EXCEPT ![worker_i] = TRUE]
        /\ UNCHANGED <<used, kind, ask, answer, handle, issued, ticket, abandoned, waits>>
    BY <1>4, ZenonT(30) DEF WorkerFinish, history
  <2>2. answer[worker_i][kind[worker_i]] = ask[worker_i]
    BY <2>1, ZenonT(30) DEF RequestsInv, WorkerAgrees
  <2>3. RequestsTypeOK'
    BY <1>1, <2>1, ZenonT(30) DEF RequestsInv, RequestsTypeOK
  <2>4. HeldIsLive' /\ HoldersDiffer' /\ UsedIsHeld' /\ UsedHasKind'
    BY <2>1 DEF RequestsInv, HeldIsLive, HoldersDiffer, UsedIsHeld, UsedHasKind, Holds
  <2>5. DoneIsAnswered'
    BY <1>1, <2>1, <2>2, ZenonT(30) DEF RequestsInv, RequestsTypeOK, DoneIsAnswered
  <2>6. WaitAgrees' /\ ResultIsMine' /\ WorkerAgrees'
    BY <1>1, <2>1 DEF RequestsInv, RequestsTypeOK, WaitAgrees, ResultIsMine, WorkerAgrees
  <2> QED BY <2>3, <2>4, <2>5, <2>6 DEF RequestsInv
<1> QED BY <1>2, <1>3, <1>4 DEF Worker

\* Every step keeps the invariant.
LEMMA RequestsNextInv == RequestsUsual /\ RequestsInv /\ [RequestsNext]_request_vars => RequestsInv'
<1> SUFFICES ASSUME RequestsUsual, RequestsInv, [RequestsNext]_request_vars PROVE RequestsInv'
  OBVIOUS
<1>1. CASE RequestsNext
  BY <1>1, IssueInv, WaitInv, AbandonInv, WakeTestCopyInv, FreeRequestInv,
     CloseHandleInv, WorkerInv DEF RequestsNext, WaitStep
<1>2. CASE UNCHANGED request_vars
  <2>1. UNCHANGED <<used, done, kind, ask, answer, handle, issued, ticket, abandoned, waits, worker_i, worker_pc, job>>
    BY <1>2, ZenonT(30) DEF request_vars, slots, history, worker
  <2>2. RequestsTypeOK'
    BY <2>1 DEF RequestsInv, RequestsTypeOK
  <2>3. \A p \in Procs : Holds(p)' <=> Holds(p)
    BY <2>1, ZenonT(30) DEF Holds
  <2>4. HeldIsLive' /\ HoldersDiffer'
    BY <2>1, <2>3, ZenonT(30) DEF RequestsInv, HeldIsLive, HoldersDiffer
  <2>5. UsedIsHeld'
    BY <2>1, <2>3, ZenonT(30) DEF RequestsInv, UsedIsHeld
  <2>6. UsedHasKind' /\ DoneIsAnswered' /\ WorkerAgrees'
    BY <2>1, ZenonT(30) DEF RequestsInv, UsedHasKind, DoneIsAnswered, WorkerAgrees
  <2>7. WaitAgrees' /\ ResultIsMine'
    BY <2>1 DEF RequestsInv, WaitAgrees, ResultIsMine
  <2> QED BY <2>2, <2>4, <2>5, <2>6, <2>7 DEF RequestsInv
<1> QED BY <1>1, <1>2

-----------------------------------------------------------------------------
\* The io, net, tcp and wifi wait calls return the result of the request they
\* were issued for and read it only once it is done, the worker's slot is neither
\* freed nor reused while it serves it, and only a handle that is closed without
\* a wait loses its slot of the table.
THEOREM RequestsAreSound ==
  ASSUME RequestsUsual
  PROVE  RequestsSpec => [](RequestsTypeOK /\ ReadsFinishedRequest /\ RequestsSound)
<1>1. RequestsInit => RequestsInv
  BY RequestsInitInv
<1>2. RequestsInv /\ [RequestsNext]_request_vars => RequestsInv'
  BY RequestsNextInv
<1>3. RequestsInv => RequestsTypeOK /\ ResultIsMine /\ ReadsFinishedRequest /\ WorkerServesLiveRequest
  BY DEF RequestsInv, WaitAgrees, WorkerAgrees, ReadsFinishedRequest, WorkerServesLiveRequest
<1>4. RequestsInv => NoSlotLost
  BY DEF RequestsInv, UsedIsHeld, NoSlotLost
<1>5. RequestsInv => RequestsTypeOK /\ ReadsFinishedRequest /\ RequestsSound
  BY <1>3, <1>4 DEF RequestsSound
<1> QED BY <1>1, <1>2, <1>5, PTL DEF RequestsSpec

-----------------------------------------------------------------------------
(***************************************************************************)
(* Mutual exclusion and the refinement of Ownership, for any set of tasks  *)
(* and whether or not tasks exit while they hold the mutex.                *)
(***************************************************************************)
\* A locked mutex has an owner, which is past mutex_lock() or has exited from
\* there.  Without it an unlock could free a mutex nobody holds, and the exit
\* of a task outside its section could orphan the mutex.
LockedIsOwned ==
  locked => owner_task \in Tasks /\ pc[owner_task] \in {"inside", "gone"}

MutexInv == TypeOK /\ InsideHolds /\ LockedIsOwned

-----------------------------------------------------------------------------
\* A mutex fresh from mutex_create() satisfies the invariant.
LEMMA MutexInitInv == Init => MutexInv
BY MutexAssumption, Zenon DEF Init, MutexInv, TypeOK, InsideHolds, LockedIsOwned

\* One pass of the loop of mutex_lock() keeps the invariant.
LEMMA TestAndSetInv ==
  ASSUME NEW t \in Tasks, MutexInv, pc[t] \in {"out", "waiting"}, TestAndSet(t)
  PROVE  MutexInv'
<1>1. TypeOK'
  BY DEF MutexInv, TypeOK, TestAndSet
<1>2. LockedIsOwned'
  BY DEF MutexInv, TypeOK, LockedIsOwned, TestAndSet
<1>3. InsideHolds'
  BY DEF MutexInv, TypeOK, InsideHolds, TestAndSet
<1> QED BY <1>1, <1>2, <1>3 DEF MutexInv

\* So does every step of mutex_lock(), mutex_unlock() and of an exit.
LEMMA MutexNextInv == MutexInv /\ [Next]_vars => MutexInv'
<1> SUFFICES ASSUME MutexInv, [Next]_vars PROVE MutexInv'
  OBVIOUS
<1>1. ASSUME NEW t \in Tasks, MutexLock(t) PROVE MutexInv'
  BY <1>1, TestAndSetInv DEF MutexLock
<1>2. ASSUME NEW t \in Tasks, Retry(t) PROVE MutexInv'
  BY <1>2, TestAndSetInv DEF Retry
<1>3. ASSUME NEW t \in Tasks, MutexUnlock(t) PROVE MutexInv'
  BY <1>3, MutexAssumption
   , Zenon DEF MutexInv, TypeOK, InsideHolds, LockedIsOwned, MutexUnlock
<1>4. ASSUME NEW t \in Tasks, Exit(t) PROVE MutexInv'
  BY <1>4 DEF MutexInv, TypeOK, InsideHolds, LockedIsOwned, Exit
<1>5. CASE UNCHANGED vars
  BY <1>5 DEF MutexInv, TypeOK, InsideHolds, LockedIsOwned, vars
<1> QED BY <1>1, <1>2, <1>3, <1>4, <1>5 DEF Next

\* A locked mutex has an owner, and whoever is past mutex_lock() is it.
THEOREM MutexInvariance == Spec => []MutexInv
BY MutexInitInv, MutexNextInv, PTL DEF Spec

\* The two fields and the tasks' positions keep their types.
THEOREM MutexTypeCorrect == Spec => []TypeOK
<1>1. MutexInv => TypeOK
  BY DEF MutexInv
<1> QED BY MutexInvariance, <1>1, PTL

\* mutex_lock() returns to at most one task between two unlocks, and the
\* mutex records that task as its owner.
THEOREM Exclusion == Spec => [](InsideHolds /\ MutualExclusion)
<1>1. MutexInv => InsideHolds /\ MutualExclusion
  BY DEF MutexInv, InsideHolds, MutualExclusion
<1> QED BY MutexInvariance, <1>1, PTL

-----------------------------------------------------------------------------
\* mutex_lock() and mutex_unlock() implement Ownership, and so does an exit:
\* every step of the code takes a free mutex, gives back a held one, leaves
\* one behind, or changes neither who holds it nor whether the holder lives.
THEOREM OwnershipRefinement == Spec => ImplementsOwnership
<1> DEFINE H == IF locked THEN owner_task ELSE NONE
           G == locked /\ \E t \in Tasks : owner_task = t /\ pc[t] = "gone"
<1>1. Init => Own!Fresh
  BY ZenonT(30) DEF Init, Own!Fresh
<1>2. MutexInv /\ [Next]_vars => [Own!Passes]_<<H, G>>
  <2> SUFFICES ASSUME MutexInv, [Next]_vars
               PROVE  [Own!Passes]_<<H, G>>
    BY ZenonT(30)
  <2>1. ASSUME NEW t \in Tasks, pc[t] \in {"out", "waiting"}, TestAndSet(t)
        PROVE  [Own!Passes]_<<H, G>>
    <3>1. CASE locked
      <4>1. owner_task # t
        BY <2>1, <3>1 DEF MutexInv, LockedIsOwned
      <4>2. H' = H /\ G' = G
        BY <2>1, <3>1, <4>1, ZenonT(30) DEF TestAndSet, MutexInv, TypeOK
      <4> QED BY <4>2
    <3>2. CASE ~locked
      <4>1. H = NONE /\ H' = t
        BY <2>1, <3>2 DEF TestAndSet
      <4>2. G = FALSE /\ G' = FALSE
        BY <2>1, <3>2, ZenonT(30) DEF TestAndSet, MutexInv, TypeOK
      <4> QED BY <4>1, <4>2 DEF Own!Passes, Own!Taken
    <3> QED BY <3>1, <3>2
  <2>2. ASSUME NEW t \in Tasks, MutexLock(t)
        PROVE  [Own!Passes]_<<H, G>>
    BY <2>1, <2>2, ZenonT(30) DEF MutexLock
  <2>3. ASSUME NEW t \in Tasks, Retry(t)
        PROVE  [Own!Passes]_<<H, G>>
    BY <2>1, <2>3, ZenonT(30) DEF Retry
  <2>4. ASSUME NEW t \in Tasks, MutexUnlock(t)
        PROVE  [Own!Passes]_<<H, G>>
    <3>1. H = t /\ H' = NONE /\ t # NONE
      BY <2>4, MutexAssumption DEF MutexUnlock, MutexInv, InsideHolds
    <3>2. G = FALSE /\ G' = FALSE
      BY <2>4, ZenonT(30) DEF MutexUnlock, MutexInv, InsideHolds
    <3> QED BY <3>1, <3>2 DEF Own!Passes, Own!GivenBack
  <2>5. ASSUME NEW t \in Tasks, Exit(t)
        PROVE  [Own!Passes]_<<H, G>>
    <3>1. H' = H
      BY <2>5, ZenonT(30) DEF Exit
    <3>2. CASE locked /\ owner_task = t
      <4>1. pc[t] = "inside"
        BY <2>5, <3>2 DEF Exit, MutexInv, LockedIsOwned
      <4>2. H # NONE
        BY <3>2, MutexAssumption
      <4>3. G = FALSE /\ G' = TRUE
        BY <2>5, <3>2, <4>1 DEF Exit, MutexInv, TypeOK
      <4> QED BY <3>1, <4>2, <4>3 DEF Own!Passes, Own!LeftBehind
    <3>3. CASE ~(locked /\ owner_task = t)
      <4>1. G' = G
        BY <2>5, <3>3 DEF Exit, MutexInv, TypeOK
      <4> QED BY <3>1, <4>1
    <3> QED BY <3>2, <3>3
  <2>6. CASE UNCHANGED vars
    BY <2>6 DEF vars
  <2> QED BY <2>2, <2>3, <2>4, <2>5, <2>6 DEF Next
<1> QED
  BY <1>1, <1>2, MutexInvariance, PTL DEF Spec, ImplementsOwnership, Own!Promise

-----------------------------------------------------------------------------
(***************************************************************************)
(* A channel with at most one receiver is a mailbox, for any number of     *)
(* messages and whether the receiver is a process or a kernel task.  With  *)
(* two receivers it is not (the run of ChannelTwo.cfg).                    *)
(***************************************************************************)
OneReceiver == \A r, q \in Receivers : r = q

\* The full flag tells whether the last message accepted is still to be taken,
\* and the payload in the slot is that of the last message accepted.
SlotAgrees ==
  /\ full => accepted = taken + 1
  /\ ~full => accepted = taken
  /\ msg_data = accepted

ChannelInv == ChannelTypeOK /\ SlotAgrees /\ TakeOnlyWhenFull

-----------------------------------------------------------------------------
\* A fresh channel satisfies the invariant.
LEMMA ChannelInitInv == ChannelInit => ChannelInv
<1> SUFFICES ASSUME ChannelInit PROVE ChannelInv
  OBVIOUS
<1>1. ChannelTypeOK
  BY Zenon DEF ChannelInit, ChannelTypeOK
<1>2. SlotAgrees
  BY DEF ChannelInit, SlotAgrees
<1>3. TakeOnlyWhenFull
  BY DEF ChannelInit, TakeOnlyWhenFull
<1> QED BY <1>1, <1>2, <1>3 DEF ChannelInv

\* channel_take_msg() on a full slot empties it and hands over the next message.
LEMMA TakeDelivers ==
  ASSUME ChannelInv, full, Take
  PROVE  SlotAgrees' /\ M!Deliver /\ full' = FALSE /\ taken' \in Nat /\ last' \in Nat
BY DEF ChannelInv, ChannelTypeOK, SlotAgrees, Take, M!Deliver

\* Every step of a sender and of the only receiver keeps the invariant: between
\* the receiver's test and its take nobody else can empty the slot.
LEMMA ChannelNextInv == OneReceiver /\ ChannelInv /\ [ChannelNext]_channel_vars => ChannelInv'
<1> SUFFICES ASSUME OneReceiver, ChannelInv, [ChannelNext]_channel_vars PROVE ChannelInv'
  OBVIOUS
<1>1. CASE Send
  BY <1>1 DEF ChannelInv, ChannelTypeOK, SlotAgrees, TakeOnlyWhenFull, Send
<1>2. ASSUME NEW r \in Receivers, Receive(r) PROVE ChannelInv'
  <2>1. CASE ReceiveSyscall(r) /\ ~full
    BY <2>1 DEF ChannelInv, ChannelTypeOK, SlotAgrees, TakeOnlyWhenFull, ReceiveSyscall
  <2>2. CASE ReceiveSyscall(r) /\ full
    <3>1. Take /\ rpc' = rpc /\ rpc[r] = "idle"
      BY <2>2 DEF ReceiveSyscall
    <3>2. TakeOnlyWhenFull'
      BY <3>1 DEF OneReceiver, TakeOnlyWhenFull
    <3> QED BY <2>2, <3>1, <3>2, TakeDelivers, Zenon DEF ChannelInv, ChannelTypeOK, Take
  <2>3. CASE ReceiveKernel(r)
    BY <2>3 DEF ChannelInv, ChannelTypeOK, SlotAgrees, TakeOnlyWhenFull, ReceiveKernel
  <2>4. CASE Wakeup(r)
    BY <2>4 DEF ChannelInv, ChannelTypeOK, SlotAgrees, TakeOnlyWhenFull, Wakeup
  <2>5. CASE ChannelTest(r)
    BY <2>5 DEF ChannelInv, ChannelTypeOK, SlotAgrees, TakeOnlyWhenFull, ChannelTest
  <2>6. CASE TakeStep(r)
    <3>1. full /\ Take /\ rpc' = [rpc EXCEPT ![r] = "idle"]
      BY <2>6 DEF ChannelInv, TakeOnlyWhenFull, TakeStep
    <3>2. TakeOnlyWhenFull' /\ rpc' \in [Receivers -> {"idle", "test", "asleep", "take"}]
      BY <3>1 DEF ChannelInv, ChannelTypeOK, OneReceiver, TakeOnlyWhenFull
    <3> QED BY <3>1, <3>2, TakeDelivers, Zenon DEF ChannelInv, ChannelTypeOK, Take
  <2> QED BY <1>2, <2>1, <2>2, <2>3, <2>4, <2>5, <2>6 DEF Receive
<1>3. CASE UNCHANGED channel_vars
  BY <1>3 DEF ChannelInv, ChannelTypeOK, SlotAgrees, TakeOnlyWhenFull, channel_vars
<1> QED BY <1>1, <1>2, <1>3 DEF ChannelNext

\* The receiver of a channel takes only from a full slot (channel.h: "Caller must
\* already know the slot is full"), if it is the only one.
THEOREM TakesOnlyWhenFull ==
  ASSUME OneReceiver
  PROVE  ChannelSpec => [](ChannelTypeOK /\ TakeOnlyWhenFull)
<1>1. ChannelInv => ChannelTypeOK /\ TakeOnlyWhenFull
  BY DEF ChannelInv
<1>2. ChannelInv /\ [ChannelNext]_channel_vars => ChannelInv'
  BY ChannelNextInv
<1> QED BY <1>1, <1>2, ChannelInitInv, PTL DEF ChannelSpec

-----------------------------------------------------------------------------
\* channel_send_msg() and the blocking receive of the only receiver implement a
\* mailbox: each message accepted is delivered once, in order, and the next is
\* accepted only then.
THEOREM MailboxRefinement ==
  ASSUME OneReceiver
  PROVE  ChannelSpec => ImplementsMailbox
<1>1. ChannelInit => M!Init
  BY DEF ChannelInit, M!Init
<1>2. ChannelInv /\ [ChannelNext]_channel_vars => [M!Next]_(M!vars)
  <2> SUFFICES ASSUME ChannelInv, [ChannelNext]_channel_vars PROVE [M!Next]_(M!vars)
    OBVIOUS
  <2>1. CASE Send
    BY <2>1 DEF ChannelInv, ChannelTypeOK, SlotAgrees, Send, M!Next, M!Accept
  <2>2. ASSUME NEW r \in Receivers, Receive(r) PROVE [M!Next]_(M!vars)
    <3>1. CASE ReceiveSyscall(r) /\ full
      BY <3>1, TakeDelivers DEF ReceiveSyscall, M!Next
    <3>2. CASE TakeStep(r)
      BY <3>2, TakeDelivers, ZenonT(30) DEF ChannelInv, TakeOnlyWhenFull, TakeStep, M!Next
    <3>3. CASE (ReceiveSyscall(r) /\ ~full) \/ ReceiveKernel(r) \/ Wakeup(r) \/ ChannelTest(r)
      BY <3>3 DEF ReceiveSyscall, ReceiveKernel, Wakeup, ChannelTest, M!vars
    <3> QED BY <2>2, <3>1, <3>2, <3>3 DEF Receive
  <2>3. CASE UNCHANGED channel_vars
    BY <2>3 DEF channel_vars, M!vars
  <2> QED BY <2>1, <2>2, <2>3 DEF ChannelNext
<1>3. ChannelInv /\ [ChannelNext]_channel_vars => ChannelInv'
  BY ChannelNextInv
<1> QED BY <1>1, <1>2, <1>3, ChannelInitInv, PTL DEF ChannelSpec, ImplementsMailbox, M!Spec
=============================================================================
