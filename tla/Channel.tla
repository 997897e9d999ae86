------------------------------ MODULE Channel ------------------------------
(***************************************************************************)
(* One IPC channel: the single-slot mailbox of proc/ipc/channel, sent to   *)
(* by channel_send_msg() and read by the blocking receive of               *)
(* kernel/sched/task.c, through the system calls of handlers/channel.c.    *)
(*                                                                         *)
(* Each cli..sti section is one step.  A receiver in a system call runs    *)
(* its first test of `full' and the take that follows it with interrupts   *)
(* disabled, as one step; once it has slept in yield() it resumes with     *)
(* interrupts enabled, and a kernel task has them enabled all along: then  *)
(* another task may run between the test and the take.                     *)
(*                                                                         *)
(* The payload is the number of the accepted message it came with.         *)
(***************************************************************************)
EXTENDS Naturals

CONSTANTS
  Receivers,   \* tasks that call channel_receive() or channel_receive_msg()
  MaxSends     \* bound on the number of accepted messages

ASSUME ChannelAssumption == MaxSends \in Nat

VARIABLES
  full, msg_data,          \* the fields of g_channels[i]
  rpc,                     \* where each receiver stands
  accepted, taken, last    \* history: what Mailbox speaks of

channel_vars == <<full, msg_data, rpc, accepted, taken, last>>

\* A slot with a flag and a payload, and four places for each receiver.
ChannelTypeOK ==
  /\ full \in BOOLEAN
  /\ msg_data \in Nat
  /\ rpc \in [Receivers -> {"idle", "test", "asleep", "take"}]
  /\ accepted \in Nat
  /\ taken \in Nat
  /\ last \in Nat

\* create_channel() on a fresh slot.
ChannelInit ==
  /\ full = FALSE
  /\ msg_data = 0
  /\ rpc = [r \in Receivers |-> "idle"]
  /\ accepted = 0
  /\ taken = 0
  /\ last = 0

SendOverwrites ==
  /\ accepted < MaxSends
  /\ msg_data' = accepted + 1
  /\ full' = TRUE
  /\ accepted' = accepted + 1
  /\ UNCHANGED <<rpc, taken, last>>

\* channel_send_msg(): refused, with no effect, while the slot is full.
Send ==
  /\ accepted < MaxSends
  /\ ~full
  /\ msg_data' = accepted + 1
  /\ full' = TRUE
  /\ accepted' = accepted + 1
  /\ UNCHANGED <<rpc, taken, last>>

\* channel_take_msg(): copies the payload and clears full, unconditionally.
Take ==
  /\ full' = FALSE
  /\ taken' = taken + 1
  /\ last' = msg_data
  /\ UNCHANGED <<msg_data, accepted>>

\* A system call's receive up to its return or its first yield().
ReceiveSyscall(r) ==
  /\ rpc[r] = "idle"
  /\ \/ /\ full
        /\ Take
        /\ UNCHANGED rpc
     \/ /\ ~full
        /\ rpc' = [rpc EXCEPT ![r] = "asleep"]
        /\ UNCHANGED <<full, msg_data, accepted, taken, last>>

\* The same call made by a kernel task (proc_receiver_entry).
ReceiveKernel(r) ==
  /\ rpc[r] = "idle"
  /\ rpc' = [rpc EXCEPT ![r] = "test"]
  /\ UNCHANGED <<full, msg_data, accepted, taken, last>>

\* yield() finds *waiting_on, the full flag, set.
Wakeup(r) ==
  /\ rpc[r] = "asleep"
  /\ full
  /\ rpc' = [rpc EXCEPT ![r] = "test"]
  /\ UNCHANGED <<full, msg_data, accepted, taken, last>>

TestAlwaysSleeps(r) ==
  /\ rpc[r] = "test"
  /\ rpc' = [rpc EXCEPT ![r] = "asleep"]
  /\ UNCHANGED <<full, msg_data, accepted, taken, last>>

\* The head of the while loop, interrupts enabled.
ChannelTest(r) ==
  /\ rpc[r] = "test"
  /\ rpc' = [rpc EXCEPT ![r] = IF full THEN "take" ELSE "asleep"]
  /\ UNCHANGED <<full, msg_data, accepted, taken, last>>

TakeStep(r) ==
  /\ rpc[r] = "take"
  /\ Take
  /\ rpc' = [rpc EXCEPT ![r] = "idle"]

Receive(r) ==
  ReceiveSyscall(r) \/ ReceiveKernel(r) \/ Wakeup(r) \/ ChannelTest(r) \/ TakeStep(r)

ChannelNext == Send \/ \E r \in Receivers : Receive(r)

ChannelSpec == ChannelInit /\ [][ChannelNext]_channel_vars

\* A receiver inside the call runs on whenever yield() finds it runnable.
ChannelFairSpec ==
  ChannelSpec /\ \A r \in Receivers : WF_channel_vars(Wakeup(r) \/ ChannelTest(r) \/ TakeStep(r))

-----------------------------------------------------------------------------
(***************************************************************************)
(* "Caller must already know the slot is full" (channel.h, on              *)
(* channel_take_msg): a receiver about to take finds a message there.      *)
(***************************************************************************)
TakeOnlyWhenFull == \A r \in Receivers : rpc[r] = "take" => full

(***************************************************************************)
(* A channel with one receiver is a mailbox: nothing accepted is lost,     *)
(* overwritten, delivered twice or delivered out of order.                 *)
(***************************************************************************)
M == INSTANCE Mailbox

ImplementsMailbox == M!Spec

(***************************************************************************)
(* A receiver asleep when a message arrives gets out of the call.          *)
(***************************************************************************)
SleeperReceives ==
  \A r \in Receivers : (rpc[r] = "asleep" /\ full) ~> rpc[r] = "idle"
=============================================================================
