---------------------------------- MODULE Nic ----------------------------------
(***************************************************************************)
(* The e1000 driver, kernel/net/e1000/e1000.c: a transmit ring over one    *)
(* shared buffer and a receive ring, both shared by every kernel task, with *)
(* the card on the other side (external).                                  *)
(*                                                                         *)
(* Kernel tasks run with interrupts on, so the timer may switch between    *)
(* the steps of a send or of a receive.                                    *)
(***************************************************************************)
EXTENDS Naturals, Sequences, FiniteSets

CONSTANTS
  Users,              \* kernel tasks that send and receive
  TX_RING_SIZE, RX_RING_SIZE,
  NicOverlap,         \* a task may enter the driver while another is inside
  MaxArrivals,        \* bound: frames from the wire
  MaxSends,           \* bound: frames sent
  MaxStuck            \* bound: sends whose spin runs out

VARIABLES
  up,                 \* e1000_init_rings() has run
  rx, rdh, rdt,       \* receive descriptors (0: DD clear), RDH and RDT
  g_rx_head,
  arrived, taken,     \* history: frames the card stored, frames handed out
  g_tx_buffer, tx,    \* the buffer; descriptors: the frame meant, or 0 (DD)
  tdh, g_tx_tail,
  wire,               \* history: <<meant, sent>>
  user,               \* where each task is, and its frame
  sends, stuck        \* frames numbered so far; sends given up

nicvars == <<up, rx, rdh, rdt, g_rx_head, arrived, taken, g_tx_buffer, tx, tdh,
             g_tx_tail, wire, user, sends, stuck>>
rxside == <<rx, rdh, rdt, g_rx_head, arrived, taken>>
txside == <<g_tx_buffer, tx, tdh, g_tx_tail, wire, sends, stuck>>

Outside == [pc |-> "out", frame |-> 0, slot |-> 0]

NicInit ==
  /\ up = FALSE
  /\ rx = [i \in 0..RX_RING_SIZE - 1 |-> 0] /\ rdh = 0 /\ rdt = 0
  /\ g_rx_head = 0 /\ arrived = <<>> /\ taken = <<>>
  /\ g_tx_buffer = 0 /\ tx = [i \in 0..TX_RING_SIZE - 1 |-> 0]
  /\ tdh = 0 /\ g_tx_tail = 0 /\ wire = <<>>
  /\ user = [u \in Users |-> Outside]
  /\ sends = 0 /\ stuck = 0

\* Indices stay inside their rings, and a task is at a step the driver has.
NicTypeOK ==
  /\ {rdh, rdt, g_rx_head} \subseteq 0..RX_RING_SIZE - 1
  /\ {tdh, g_tx_tail} \subseteq 0..TX_RING_SIZE - 1
  /\ \A u \in Users : user[u].pc \in {"out", "copied", "filled", "posted"}

Next1(i, size) == (i + 1) % size
MayEnter(u) == /\ up /\ user[u].pc = "out"
               /\ NicOverlap \/ \A v \in Users : user[v].pc = "out"

\* The rings are set up, every receive descriptor but one the card's.
e1000_init_rings ==
  /\ ~up /\ up' = TRUE
  /\ tx' = [i \in DOMAIN tx |-> 0] /\ g_tx_tail' = 0 /\ tdh' = 0
  /\ rx' = [i \in DOMAIN rx |-> 0] /\ rdh' = 0 /\ rdt' = RX_RING_SIZE - 1
  /\ UNCHANGED <<g_rx_head, arrived, taken, g_tx_buffer, wire, user, sends,
                 stuck>>

-----------------------------------------------------------------------------
(***************************************************************************)
(* Receiving.  The card fills descriptors from RDH up to RDT and drops     *)
(* what arrives when it has none.                                          *)
(***************************************************************************)
Arrive ==
  LET f == Len(arrived) + 1 IN
  /\ up /\ f <= MaxArrivals /\ rdh # rdt
  /\ rx' = [rx EXCEPT ![rdh] = f]
  /\ rdh' = Next1(rdh, RX_RING_SIZE)
  /\ arrived' = Append(arrived, f)
  /\ UNCHANGED <<up, rdt, g_rx_head, taken, user>> /\ UNCHANGED txside

\* e1000_receive() up to the end of the copy.
RxCopy(u) ==
  /\ MayEnter(u) /\ rx[g_rx_head] # 0
  /\ user' = [user EXCEPT ![u] = [Outside EXCEPT !.pc = "copied",
                                                 !.frame = rx[g_rx_head]]]
  /\ UNCHANGED up /\ UNCHANGED rxside /\ UNCHANGED txside

\* (Mutant.) The head advances before the descriptor is given back.
RxReturnSwapped(u) ==
  LET h == Next1(g_rx_head, RX_RING_SIZE) IN
  /\ user[u].pc = "copied"
  /\ rx' = [rx EXCEPT ![h] = 0] /\ rdt' = h /\ g_rx_head' = h
  /\ taken' = Append(taken, user[u].frame)
  /\ user' = [user EXCEPT ![u] = Outside]
  /\ UNCHANGED <<up, rdh, arrived>> /\ UNCHANGED txside

\* ... and from there: the descriptor goes back to the card, head advances.
RxReturn(u) ==
  /\ user[u].pc = "copied"
  /\ rx' = [rx EXCEPT ![g_rx_head] = 0]
  /\ rdt' = g_rx_head
  /\ g_rx_head' = Next1(g_rx_head, RX_RING_SIZE)
  /\ taken' = Append(taken, user[u].frame)
  /\ user' = [user EXCEPT ![u] = Outside]
  /\ UNCHANGED <<up, rdh, arrived>> /\ UNCHANGED txside

-----------------------------------------------------------------------------
(***************************************************************************)
(* Sending.                                                                *)
(***************************************************************************)
TxFill(u) ==
  /\ MayEnter(u) /\ sends < MaxSends
  /\ sends' = sends + 1
  /\ g_tx_buffer' = sends + 1
  /\ user' = [user EXCEPT ![u] = [Outside EXCEPT !.pc = "filled",
                                                 !.frame = sends + 1]]
  /\ UNCHANGED <<up, tx, tdh, g_tx_tail, wire, stuck>> /\ UNCHANGED rxside

TxPost(u) ==
  /\ user[u].pc = "filled"
  /\ tx' = [tx EXCEPT ![g_tx_tail] = user[u].frame]
  /\ g_tx_tail' = Next1(g_tx_tail, TX_RING_SIZE)
  /\ user' = [user EXCEPT ![u].pc = "posted", ![u].slot = g_tx_tail]
  /\ UNCHANGED <<up, g_tx_buffer, tdh, wire, sends, stuck>> /\ UNCHANGED rxside

\* The card sends what the buffer holds now and reports the descriptor done.
Transmit ==
  /\ up /\ tdh # g_tx_tail
  /\ wire' = Append(wire, <<tx[tdh], g_tx_buffer>>)
  /\ tx' = [tx EXCEPT ![tdh] = 0]
  /\ tdh' = Next1(tdh, TX_RING_SIZE)
  /\ UNCHANGED <<up, g_tx_buffer, g_tx_tail, user, sends, stuck>>
  /\ UNCHANGED rxside

\* (Mutant.) The send does not wait for DD.
TxDoneEarly(u) ==
  /\ user[u].pc = "posted"
  /\ user' = [user EXCEPT ![u] = Outside]
  /\ UNCHANGED up /\ UNCHANGED rxside /\ UNCHANGED txside

TxDone(u) ==
  /\ user[u].pc = "posted" /\ tx[user[u].slot] = 0
  /\ user' = [user EXCEPT ![u] = Outside]
  /\ UNCHANGED up /\ UNCHANGED rxside /\ UNCHANGED txside

\* A million spins without DD: the call fails, the descriptor stays posted.
TxStuck(u) ==
  /\ user[u].pc = "posted" /\ tx[user[u].slot] # 0 /\ stuck < MaxStuck
  /\ stuck' = stuck + 1
  /\ user' = [user EXCEPT ![u] = Outside]
  /\ UNCHANGED <<up, g_tx_buffer, tx, tdh, g_tx_tail, wire, sends>>
  /\ UNCHANGED rxside

NicNext ==
  \/ e1000_init_rings \/ Arrive \/ Transmit
  \/ \E u \in Users : RxCopy(u) \/ RxReturn(u) \/ TxFill(u) \/ TxPost(u)
                      \/ TxDone(u) \/ TxStuck(u)

NicSpec == NicInit /\ [][NicNext]_nicvars

-----------------------------------------------------------------------------
\* Every frame the card stored is handed to a caller once and in order, the
\* ring full or not: it never overwrites a descriptor e1000_receive() has not
\* read.
FramesInOrder ==
  /\ Len(taken) <= Len(arrived)
  /\ taken = SubSeq(arrived, 1, Len(taken))
  /\ \A i \in Len(taken) + 1..Len(arrived) :
       \E d \in DOMAIN rx : rx[d] = arrived[i]

\* What went onto the wire is what its sender passed to e1000_send(): with one
\* buffer for all sends, because a send waits for DD before the next begins;
\* unless the wait of an earlier send ran out.
WireIsWhatWasSent ==
  stuck = 0 => \A i \in 1..Len(wire) : wire[i][1] = wire[i][2]

\* e1000_receive() hands frames out in the order they came, none twice, and the
\* frame on the wire is the one e1000_send() was given.
NicSound == FramesInOrder /\ WireIsWhatWasSent

=============================================================================
