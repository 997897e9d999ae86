----------------------------- MODULE MCProgress -----------------------------
(***************************************************************************)
(* What must eventually happen, for TLC: under the fairness each model     *)
(* states, channels, the scheduler, the service manager with its worker    *)
(* and the shell, contended mutexes and the request workers make progress. *)
(* The models share no state and are explored one at a time: `part' says   *)
(* which one a behaviour is about.                                         *)
(***************************************************************************)
EXTENDS Channel

CONSTANTS none, e1, s1, sm_worker, shell, t1, t2, t3, t4, p1, p2, k1

VARIABLES
  part,
  used, blocked, waiting_on, wake_tick, g_task_count,      \* Scheduler
  g_current_task, g_tick_count, signaled, pc, event, target,
  int_on, ring3, tss_rsp0, missed,
  pused, program, running, auto_restart, process_index,    \* Services
  spc, starts, proc_index,
  locked, owner_task, mpc,                                 \* Mutex
  rused, done, kind, ask, answer, handle, issued, ticket,  \* Requests
  abandoned, waits, i, wpc, job

K == INSTANCE Scheduler WITH
  MAX_TASKS <- 3, BootTasks <- 2, Spinners <- {1}, Events <- {e1},
  NULL <- none, MaxTick <- 1

S == INSTANCE Services WITH
  Names <- {s1}, Slots <- 0 .. 2, Callers <- {shell}, Others <- FALSE,
  Worker <- sm_worker, NONE <- none,
  used <- pused, pc <- spc, target <- starts

X == INSTANCE Mutex WITH
  Tasks <- {t1, t2, t3, t4}, NONE <- none, ExitsHolding <- FALSE, pc <- mpc

R == INSTANCE Requests WITH
  Procs <- {p1, p2}, Threads <- {p1, p2}, ProcessOf <- [t \in {p1, p2} |-> t],
  SLOTS <- 2, Kinds <- {k1}, ChecksKind <- TRUE, MaxIssues <- 4, UNSET <- none,
  used <- rused, worker_i <- i, worker_pc <- wpc

scheduler == <<used, blocked, waiting_on, wake_tick, g_task_count,
               g_current_task, g_tick_count, signaled, pc, event, target,
               int_on, ring3, tss_rsp0, missed>>
services == <<pused, program, running, auto_restart, process_index,
              spc, starts, proc_index>>
mutex == <<locked, owner_task, mpc>>
requests == <<rused, done, kind, ask, answer, handle, issued, ticket,
              abandoned, waits, i, wpc, job>>
mcvars == <<part, channel_vars, scheduler, services, mutex, requests>>

MCInit ==
  /\ part \in {"channel", "scheduler", "services", "mutex", "requests"}
  /\ ChannelInit /\ K!Init /\ S!Init /\ X!Init /\ R!RequestsInit

MCNext ==
  /\ UNCHANGED part
  /\ \/ part = "channel" /\ ChannelNext
        /\ UNCHANGED <<scheduler, services, mutex, requests>>
     \/ part = "scheduler" /\ K!Next
        /\ UNCHANGED <<channel_vars, services, mutex, requests>>
     \/ part = "services" /\ S!Next
        /\ UNCHANGED <<channel_vars, scheduler, mutex, requests>>
     \/ part = "mutex" /\ X!Next
        /\ UNCHANGED <<channel_vars, scheduler, services, requests>>
     \/ part = "requests" /\ R!RequestsNext
        /\ UNCHANGED <<channel_vars, scheduler, services, mutex>>

MCSpec == MCInit /\ [][MCNext]_mcvars

(***************************************************************************)
(* The fairness of the five modules, each for the part it is about (the    *)
(* steps of a part left alone would otherwise be enabled for ever).        *)
(***************************************************************************)
MCFairness ==
  /\ \A r \in Receivers : WF_channel_vars(Wakeup(r) \/ ChannelTest(r) \/ TakeStep(r))
  /\ SF_scheduler(part = "scheduler" /\ K!TimerInterrupt)
  /\ \A t \in 0 .. 2 :
       SF_scheduler(part = "scheduler" /\ g_current_task = t /\ K!KernelStep)
  /\ WF_services(S!WorkerStep)
  /\ \A t \in {t1, t2, t3, t4} :
       WF_mutex(X!Retry(t)) /\ WF_mutex(X!MutexUnlock(t))
  /\ WF_requests(part = "requests" /\ R!Worker)
  /\ \A t \in {p1, p2} : WF_requests(R!WaitStep(t))

MCFairSpec == MCSpec /\ MCFairness

-----------------------------------------------------------------------------
\* The service manager's worker brings back a service whose process exited,
\* unless it is stopped meanwhile.
RespawnHappens == S!RespawnHappens

\* Waiting ends.  A task asleep in channel_receive() gets a message that was
\* sent; a task that is used and not blocked gets the CPU although another one
\* loops without ever calling yield(); sleep_ticks() and timer_wait() return;
\* while tasks keep waiting in mutex_lock() the mutex keeps being taken; and a
\* task asleep on a request is served, although other requests are issued,
\* finished and abandoned all the time.
WaitsEnd ==
  /\ SleeperReceives
  /\ part = "scheduler" => K!RunnableRuns
  /\ K!SleeperWakes
  /\ X!ContentionResolves
  /\ R!WaiterServed
=============================================================================
