---------------------------- MODULE DriverProofs ----------------------------
(***************************************************************************)
(* Proofs about the rings of the network card and of the disk: what a      *)
(* driver hands out is what the device put there for this very call, for   *)
(* rings of any size and any number of kernel tasks, as long as one of     *)
(* them at a time is inside the driver.                                    *)
(***************************************************************************)
EXTENDS Nic, Disk, Integers, TLAPS

-----------------------------------------------------------------------------
(***************************************************************************)
(* The network card.                                                       *)
(***************************************************************************)
NicUsual ==
  /\ RX_RING_SIZE \in Nat \ {0} /\ TX_RING_SIZE \in Nat \ {0}
  /\ ~NicOverlap

RxSlots == 0 .. RX_RING_SIZE - 1
TxSlots == 0 .. TX_RING_SIZE - 1
UserStates ==
  [pc : {"out", "copied", "filled", "posted"}, frame : Nat, slot : TxSlots]

RxTypes ==
  /\ up \in BOOLEAN
  /\ rx \in [RxSlots -> Nat]
  /\ rdh \in RxSlots /\ rdt \in RxSlots /\ g_rx_head \in RxSlots
  /\ arrived \in Seq(Nat) /\ taken \in Seq(Nat)

TxTypes ==
  /\ g_tx_buffer \in Nat
  /\ tx \in [TxSlots -> Nat]
  /\ tdh \in TxSlots /\ g_tx_tail \in TxSlots
  /\ wire \in Seq(Nat \X Nat)
  /\ sends \in Nat /\ stuck \in Nat

UserTypes == user \in [Users -> UserStates]

OneInside ==
  \A u, v \in Users : user[u].pc # "out" /\ user[v].pc # "out" => u = v

\* Until e1000_init_rings() has run nothing has happened.
DownIsFresh ==
  ~up => /\ Len(arrived) = 0 /\ Len(taken) = 0 /\ g_rx_head = 0
         /\ Len(wire) = 0 /\ tdh = g_tx_tail /\ stuck = 0
         /\ \A u \in Users : user[u].pc = "out"

\* The frames the card has stored and nobody has taken, and how far behind the
\* driver's head a descriptor is.
Waiting == Len(arrived) - Len(taken)
Offset(d) ==
  IF d >= g_rx_head THEN d - g_rx_head ELSE d - g_rx_head + RX_RING_SIZE

\* The frames waiting lie in the ring from the head on, in order, and the card
\* may fill what is left but one descriptor.
RxRing ==
  /\ Waiting \in 0 .. RX_RING_SIZE - 1
  /\ rdh = g_rx_head + Waiting \/ rdh + RX_RING_SIZE = g_rx_head + Waiting
  /\ up => rdt = IF g_rx_head = 0 THEN RX_RING_SIZE - 1 ELSE g_rx_head - 1
  /\ \A d \in RxSlots :
       rx[d] = IF Offset(d) < Waiting THEN Len(taken) + 1 + Offset(d) ELSE 0
  /\ \A i \in 1 .. Len(arrived) : arrived[i] = i
  /\ \A i \in 1 .. Len(taken) : taken[i] = i

Copied ==
  \A u \in Users : user[u].pc = "copied" =>
                     Waiting > 0 /\ user[u].frame = Len(taken) + 1

\* The send of u is over for the card, or the card has still to do it.
SentBy(u) == tx[user[u].slot] = 0 /\ tdh = g_tx_tail
PendingFor(u) ==
  /\ tx[user[u].slot] = user[u].frame
  /\ user[u].frame # 0
  /\ user[u].frame = g_tx_buffer
  /\ user[u].slot = tdh
  /\ g_tx_tail = Next1(tdh, TX_RING_SIZE)

\* While no wait has run out, the card has nothing to send but the frame of the
\* task that waits for it.
TxRing ==
  stuck = 0 =>
    /\ \A i \in 1 .. Len(wire) : wire[i][1] = wire[i][2]
    /\ (\A u \in Users : user[u].pc # "posted") => tdh = g_tx_tail
    /\ \A u \in Users : user[u].pc = "filled" =>
                          user[u].frame # 0 /\ user[u].frame = g_tx_buffer
    /\ \A u \in Users : user[u].pc = "posted" => SentBy(u) \/ PendingFor(u)

NicInv ==
  /\ RxTypes /\ TxTypes /\ UserTypes
  /\ OneInside /\ DownIsFresh
  /\ RxRing /\ Copied /\ TxRing

\* An index of a ring is followed by the next, the last by the first.
LEMMA RingStep ==
  ASSUME NEW size \in Nat \ {0}, NEW i \in 0 .. size - 1
  PROVE  /\ (i + 1) % size = IF i = size - 1 THEN 0 ELSE i + 1
         /\ (i + 1) % size \in 0 .. size - 1
<1>1. CASE i = size - 1
  BY <1>1
<1>2. CASE i # size - 1
  <2>1. i + 1 \in 0 .. size - 1
    BY <1>2
  <2>2. (i + 1) % size = i + 1
    BY <2>1
  <2>. QED
    BY <1>2, <2>1, <2>2
<1>. QED
  BY <1>1, <1>2

LEMMA NextSlot ==
  ASSUME NEW size \in Nat \ {0}, NEW i \in 0 .. size - 1
  PROVE  /\ Next1(i, size) = IF i = size - 1 THEN 0 ELSE i + 1
         /\ Next1(i, size) \in 0 .. size - 1
BY RingStep, Zenon DEF Next1

\* How many slots the card's pointer r is behind the head h when w are in use.
LEMMA PointerBehind ==
  ASSUME NEW size \in Nat \ {0}, NEW h \in 0 .. size - 1, NEW r \in 0 .. size - 1,
         NEW w \in 0 .. size - 1, r = h + w \/ r + size = h + w
  PROVE  w = IF r >= h THEN r - h ELSE r - h + size
BY SMTT(30)

\* Before e1000_init() both rings are empty.
LEMMA NicInitInv == ASSUME NicUsual, NicInit PROVE NicInv
<1>1. 0 \in RxSlots /\ 0 \in TxSlots /\ Outside \in UserStates
  BY DEF NicUsual, RxSlots, TxSlots, Outside, UserStates
<1>2. RxTypes
  <2>1. rx \in [RxSlots -> Nat]
    BY DEF NicInit, RxSlots
  <2>2. arrived \in Seq(Nat) /\ taken \in Seq(Nat)
    BY DEF NicInit
  <2>. QED
    BY <1>1, <2>1, <2>2, Zenon DEF NicInit, RxTypes
<1>6. TxTypes
  <2>1. tx \in [TxSlots -> Nat]
    BY DEF NicInit, TxSlots
  <2>2. wire \in Seq(Nat \X Nat)
    BY DEF NicInit
  <2>. QED
    BY <1>1, <2>1, <2>2 DEF NicInit, TxTypes
<1>3. UserTypes /\ \A u \in Users : user[u] = Outside /\ user[u].pc = "out"
  BY <1>1 DEF NicInit, UserTypes, Outside
<1>4. OneInside /\ DownIsFresh /\ Copied /\ TxRing
  BY <1>3 DEF NicInit, OneInside, DownIsFresh, Copied, TxRing
<1>5. RxRing
  BY <1>1 DEF NicInit, RxRing, Waiting, Offset, RxSlots, NicUsual
<1>. QED
  BY <1>2, <1>3, <1>4, <1>5, <1>6 DEF NicInv

\* A task enters the driver only when every task is outside, so none but u is
\* inside afterwards.
LEMMA OnlyOneEnters ==
  ASSUME NicUsual, UserTypes, NEW u \in Users, MayEnter(u), NEW s \in UserStates,
         user' = [user EXCEPT ![u] = s]
  PROVE  /\ OneInside' /\ UserTypes' /\ up
         /\ user'[u] = s
         /\ \A v \in Users : v # u => user'[v].pc = "out"
         /\ \A v \in Users : user[v].pc = "out"
BY DEF NicUsual, UserTypes, MayEnter, OneInside

\* A step of a task that is inside changes nothing for the others, who are not.
LEMMA OnlyOneMoves ==
  ASSUME UserTypes, OneInside, NEW u \in Users, user[u].pc # "out",
         NEW s \in UserStates, user' = [user EXCEPT ![u] = s]
  PROVE  /\ OneInside' /\ UserTypes'
         /\ user'[u] = s
         /\ \A v \in Users : v # u => user[v].pc = "out" /\ user'[v].pc = "out"
BY DEF UserTypes, OneInside

\* e1000_init_rings() gives the card empty rings.
LEMMA InitRingsInv == ASSUME NicUsual, NicInv, e1000_init_rings PROVE NicInv'
<1>1. 0 \in RxSlots /\ 0 \in TxSlots /\ RX_RING_SIZE - 1 \in RxSlots
  BY DEF NicUsual, RxSlots, TxSlots
<1>2. RxTypes' /\ TxTypes' /\ UserTypes' /\ OneInside' /\ DownIsFresh'
  <2>1. RxTypes'
    BY <1>1 DEF NicInv, e1000_init_rings, RxTypes
  <2>2. TxTypes'
    BY <1>1 DEF NicInv, e1000_init_rings, TxTypes
  <2>. QED
    BY <2>1, <2>2 DEF NicInv, e1000_init_rings, UserTypes, OneInside, DownIsFresh
<1>3. /\ Len(arrived') = 0 /\ Len(taken') = 0 /\ g_rx_head' = 0 /\ rdh' = 0
      /\ rx' = [d \in RxSlots |-> 0] /\ rdt' = RX_RING_SIZE - 1
  BY DEF NicInv, DownIsFresh, e1000_init_rings, RxTypes
<1>4. RxRing'
  BY <1>1, <1>3 DEF RxRing, Waiting, Offset, RxSlots, NicUsual
<1>5. Copied' /\ TxRing'
  BY DEF NicInv, DownIsFresh, e1000_init_rings, Copied, TxRing
<1>. QED
  BY <1>2, <1>4, <1>5 DEF NicInv

\* The card stores a frame in the first descriptor past those waiting.
LEMMA ArriveInv == ASSUME NicUsual, NicInv, Arrive PROVE NicInv'
<1>. DEFINE f == Len(arrived) + 1
            R == RX_RING_SIZE
<1>1. /\ RxTypes /\ RxRing /\ Copied /\ UserTypes /\ up
      /\ rdh # rdt /\ rx' = [rx EXCEPT ![rdh] = f]
      /\ rdh' = Next1(rdh, R) /\ arrived' = Append(arrived, f)
      /\ UNCHANGED <<up, rdt, g_rx_head, taken, user>> /\ UNCHANGED txside
  BY DEF NicInv, Arrive
<1>2. /\ Len(arrived) \in Nat /\ Len(taken) \in Nat /\ R \in Nat \ {0}
      /\ rdh \in 0 .. R - 1 /\ rdt \in 0 .. R - 1 /\ g_rx_head \in 0 .. R - 1
      /\ rx \in [0 .. R - 1 -> Nat] /\ rdh' \in 0 .. R - 1
      /\ rdh' = IF rdh = R - 1 THEN 0 ELSE rdh + 1
  <2>1. R \in Nat \ {0} /\ rdh \in 0 .. R - 1
    BY <1>1 DEF RxTypes, RxSlots, NicUsual
  <2>2. rdh' \in 0 .. R - 1 /\ rdh' = IF rdh = R - 1 THEN 0 ELSE rdh + 1
    BY <1>1, <2>1, NextSlot, Zenon
  <2>. QED
    BY <1>1, <2>1, <2>2 DEF RxTypes, RxSlots
<1>3. RxTypes' /\ Len(arrived') = f
  <2>1. arrived' \in Seq(Nat) /\ Len(arrived') = f
    BY <1>1, <1>2 DEF RxTypes
  <2>2. rx' \in [RxSlots -> Nat]
    BY <1>1, <1>2 DEF RxSlots
  <2>. QED
    BY <1>1, <1>2, <2>1, <2>2 DEF RxTypes, RxSlots
<1>4. Waiting' = Waiting + 1 /\ Waiting \in 0 .. R - 2
      /\ Offset(rdh) = Waiting
  <2>1. /\ Waiting \in 0 .. R - 1
        /\ rdh = g_rx_head + Waiting \/ rdh + R = g_rx_head + Waiting
        /\ rdt = IF g_rx_head = 0 THEN R - 1 ELSE g_rx_head - 1
    BY <1>1 DEF RxRing
  <2>2. Offset(rdh) = Waiting
    BY <2>1, <1>2, PointerBehind, Zenon DEF Offset
  <2>3. Waiting # R - 1
    BY ONLY <2>1, <1>2, <1>1, SMTT(30)
  <2>4. Waiting' = Waiting + 1
    BY <1>1, <1>2, <1>3 DEF Waiting
  <2>. QED
    BY ONLY <2>1, <2>2, <2>3, <2>4, <1>2
<1>5. RxRing'
  <2>1. Waiting' \in 0 .. R - 1
    BY <1>2, <1>4
  <2>2. rdh' = g_rx_head' + Waiting' \/ rdh' + R = g_rx_head' + Waiting'
    BY <1>1, <1>2, <1>4, SMTT(30) DEF RxRing
  <2>3. up' => rdt' = IF g_rx_head' = 0 THEN R - 1 ELSE g_rx_head' - 1
    BY <1>1 DEF RxRing
  <2>4. ASSUME NEW d \in RxSlots
        PROVE  rx'[d] = IF Offset(d)' < Waiting' THEN Len(taken') + 1 + Offset(d)'
                        ELSE 0
    <3>1. /\ Offset(d)' = Offset(d) /\ Offset(d) \in 0 .. R - 1
          /\ d # rdh => Offset(d) # Waiting
      BY <1>1, <1>2, <1>4 DEF Offset, RxSlots
    <3>2. rx[d] = IF Offset(d) < Waiting THEN Len(taken) + 1 + Offset(d) ELSE 0
      BY <1>1 DEF RxRing
    <3>3. CASE d = rdh
      BY <1>1, <1>2, <1>4, <3>1, <3>3 DEF Waiting
    <3>4. CASE d # rdh
      <4>1. rx'[d] = rx[d]
        BY <1>1, <1>2, <3>4 DEF RxSlots
      <4>2. Waiting' = Waiting + 1 /\ Waiting \in 0 .. R - 2 /\ Offset(d) # Waiting
        BY <1>4, <3>1, <3>4
      <4>3. taken' = taken /\ Len(taken) \in Nat /\ R \in Nat
        BY <1>1, <1>2
      <4>4. Offset(d) < Waiting + 1 <=> Offset(d) < Waiting
        BY ONLY <3>1, <4>2, <4>3, SMTT(30)
      <4>. QED
        BY ONLY <3>1, <3>2, <4>1, <4>2, <4>3, <4>4
    <3>. QED
      BY <3>3, <3>4
  <2>5. \A i \in 1 .. Len(arrived') : arrived'[i] = i
    BY <1>1, <1>2, <1>3, SMTT(30) DEF RxRing, RxTypes
  <2>6. \A i \in 1 .. Len(taken') : taken'[i] = i
    BY <1>1 DEF RxRing
  <2>. QED
    BY <2>1, <2>2, <2>3, <2>4, <2>5, <2>6 DEF RxRing
<1>6. Copied'
  BY <1>1, <1>2, <1>4, SMTT(30) DEF Copied
<1>7. TxTypes' /\ UserTypes' /\ OneInside' /\ DownIsFresh' /\ TxRing'
  BY <1>1 DEF NicInv, TxTypes, UserTypes, OneInside, DownIsFresh, TxRing,
              SentBy, PendingFor, txside
<1>. QED
  BY <1>3, <1>5, <1>6, <1>7 DEF NicInv

\* e1000_receive() copies the oldest frame waiting.
LEMMA RxCopyInv ==
  ASSUME NicUsual, NicInv, NEW u \in Users, RxCopy(u) PROVE NicInv'
<1>. DEFINE s == [Outside EXCEPT !.pc = "copied", !.frame = rx[g_rx_head]]
<1>1. /\ RxTypes /\ RxRing /\ UserTypes /\ MayEnter(u) /\ rx[g_rx_head] # 0
      /\ user' = [user EXCEPT ![u] = s]
      /\ UNCHANGED up /\ UNCHANGED rxside /\ UNCHANGED txside
  BY DEF NicInv, RxCopy
<1>2. s \in UserStates /\ s.pc = "copied" /\ s.frame = rx[g_rx_head]
  <2>1. rx[g_rx_head] \in Nat /\ 0 \in TxSlots
    BY <1>1 DEF RxTypes, NicUsual, TxSlots
  <2>. QED
    BY <2>1, Zenon DEF UserStates, Outside
<1>3. /\ OneInside' /\ UserTypes' /\ up
      /\ user'[u] = s
      /\ \A v \in Users : v # u => user'[v].pc = "out"
      /\ \A v \in Users : user[v].pc = "out"
  BY <1>1, <1>2, OnlyOneEnters, Zenon
<1>4. Waiting > 0 /\ rx[g_rx_head] = Len(taken) + 1
  <2>1. /\ g_rx_head \in RxSlots /\ g_rx_head \in Int /\ Waiting \in Int
        /\ Len(taken) \in Nat
    BY <1>1 DEF RxTypes, RxRing, RxSlots
  <2>2. Offset(g_rx_head) = 0
    BY <2>1 DEF Offset
  <2>. QED
    BY <1>1, <2>1, <2>2 DEF RxRing
<1>5. Copied'
  BY <1>1, <1>2, <1>3, <1>4 DEF Copied, Waiting, rxside
<1>6. RxTypes' /\ TxTypes' /\ RxRing' /\ DownIsFresh'
  BY <1>1, <1>2, <1>3 DEF NicInv, RxTypes, TxTypes, RxRing, Waiting, Offset,
                    DownIsFresh, rxside, txside
<1>7. TxRing'
  BY <1>1, <1>2, <1>3 DEF NicInv, TxRing, txside
<1>. QED
  BY <1>3, <1>5, <1>6, <1>7 DEF NicInv

\* ... and gives its descriptor back: it becomes the one the card may not fill.
LEMMA RxReturnInv ==
  ASSUME NicUsual, NicInv, NEW u \in Users, RxReturn(u) PROVE NicInv'
<1>. DEFINE R == RX_RING_SIZE
            k == Len(taken) + 1
<1>1. /\ RxTypes /\ RxRing /\ Copied /\ UserTypes /\ OneInside
      /\ user[u].pc = "copied"
      /\ rx' = [rx EXCEPT ![g_rx_head] = 0] /\ rdt' = g_rx_head
      /\ g_rx_head' = Next1(g_rx_head, R)
      /\ taken' = Append(taken, user[u].frame)
      /\ user' = [user EXCEPT ![u] = Outside]
      /\ UNCHANGED <<up, rdh, arrived>> /\ UNCHANGED txside
  BY DEF NicInv, RxReturn
<1>2. Outside \in UserStates
  BY DEF Outside, UserStates, NicUsual, TxSlots
<1>3. /\ OneInside' /\ UserTypes'
      /\ user'[u] = Outside
      /\ \A v \in Users : v # u => user[v].pc = "out" /\ user'[v].pc = "out"
  BY <1>1, <1>2, OnlyOneMoves, Zenon
<1>4. /\ \A v \in Users : user'[v].pc = "out"
      /\ \A v \in Users : user[v].pc \in {"out", "copied"}
  BY <1>1, <1>3 DEF Outside
<1>5. user[u].frame = k /\ Waiting > 0 /\ Waiting \in 0 .. R - 1
  BY <1>1 DEF Copied, RxRing
<1>6. /\ Len(arrived) \in Nat /\ Len(taken) \in Nat /\ R \in Nat \ {0}
      /\ rdh \in 0 .. R - 1 /\ g_rx_head \in 0 .. R - 1
      /\ rx \in [0 .. R - 1 -> Nat] /\ g_rx_head' \in 0 .. R - 1
      /\ g_rx_head' = IF g_rx_head = R - 1 THEN 0 ELSE g_rx_head + 1
  <2>1. R \in Nat \ {0} /\ g_rx_head \in 0 .. R - 1
    BY <1>1 DEF RxTypes, RxSlots, NicUsual
  <2>2. /\ g_rx_head' \in 0 .. R - 1
        /\ g_rx_head' = IF g_rx_head = R - 1 THEN 0 ELSE g_rx_head + 1
    BY <1>1, <2>1, NextSlot, Zenon
  <2>. QED
    BY <1>1, <2>1, <2>2 DEF RxTypes, RxSlots
<1>7. RxTypes' /\ Len(taken') = k
  <2>1. taken' \in Seq(Nat) /\ Len(taken') = k
    BY <1>1, <1>5, <1>6 DEF RxTypes
  <2>2. rx' \in [RxSlots -> Nat]
    BY <1>1, <1>6 DEF RxSlots
  <2>. QED
    BY <1>1, <1>6, <2>1, <2>2 DEF RxTypes, RxSlots
<1>8. Waiting' = Waiting - 1
  BY <1>1, <1>6, <1>7 DEF Waiting
<1>9. RxRing'
  <2>1. Waiting' \in 0 .. R - 1
    BY <1>5, <1>6, <1>8
  <2>2. rdh' = g_rx_head' + Waiting' \/ rdh' + R = g_rx_head' + Waiting'
    BY <1>1, <1>5, <1>6, <1>8 DEF RxRing
  <2>3. up' => rdt' = IF g_rx_head' = 0 THEN R - 1 ELSE g_rx_head' - 1
    BY <1>1, <1>6
  <2>4. ASSUME NEW d \in RxSlots
        PROVE  rx'[d] = IF Offset(d)' < Waiting' THEN Len(taken') + 1 + Offset(d)'
                        ELSE 0
    <3>1. /\ Offset(d) \in 0 .. R - 1
          /\ Offset(d)' = IF d = g_rx_head THEN R - 1 ELSE Offset(d) - 1
      BY <1>1, <1>6 DEF Offset, RxSlots
    <3>2. rx[d] = IF Offset(d) < Waiting THEN Len(taken) + 1 + Offset(d) ELSE 0
      BY <1>1 DEF RxRing
    <3>3. CASE d = g_rx_head
      BY <1>1, <1>5, <1>6, <1>8, <3>1, <3>3
    <3>4. CASE d # g_rx_head
      <4>1. rx'[d] = rx[d]
        BY <1>1, <1>6, <3>4 DEF RxSlots
      <4>. QED
        BY ONLY <1>5, <1>6, <1>7, <1>8, <3>1, <3>2, <3>4, <4>1, SMTT(30)
    <3>. QED
      BY <3>3, <3>4
  <2>5. ASSUME NEW i \in 1 .. Len(taken') PROVE taken'[i] = i
    <3>1. taken \in Seq(Nat) /\ taken' = Append(taken, k) /\ i \in 1 .. k
      BY <1>1, <1>5, <1>7 DEF RxTypes
    <3>2. CASE i = k
      BY <3>1, <3>2
    <3>3. CASE i # k
      <4>1. i \in 1 .. Len(taken)
        BY <1>6, <3>1, <3>3
      <4>. QED
        BY <1>1, <3>1, <4>1 DEF RxRing
    <3>. QED
      BY <3>2, <3>3
  <2>6. \A i \in 1 .. Len(arrived') : arrived'[i] = i
    BY <1>1 DEF RxRing
  <2>. QED
    BY <2>1, <2>2, <2>3, <2>4, <2>5, <2>6 DEF RxRing
<1>10. TxTypes' /\ Copied'
  BY <1>1, <1>4 DEF NicInv, TxTypes, txside, Copied
<1>11. DownIsFresh'
  BY <1>1 DEF NicInv, DownIsFresh
<1>12. TxRing'
  BY <1>1, <1>4 DEF NicInv, TxRing, txside
<1>. QED
  BY <1>3, <1>7, <1>9, <1>10, <1>11, <1>12 DEF NicInv

\* e1000_send() copies its frame to the buffer: nothing is left in the ring.
LEMMA TxFillInv ==
  ASSUME NicUsual, NicInv, NEW u \in Users, TxFill(u) PROVE NicInv'
<1>. DEFINE s == [Outside EXCEPT !.pc = "filled", !.frame = sends + 1]
<1>1. /\ RxTypes /\ TxTypes /\ UserTypes /\ MayEnter(u) /\ TxRing
      /\ sends' = sends + 1 /\ g_tx_buffer' = sends + 1
      /\ user' = [user EXCEPT ![u] = s]
      /\ UNCHANGED <<up, tx, tdh, g_tx_tail, wire, stuck>> /\ UNCHANGED rxside
  BY DEF NicInv, TxFill
<1>2. /\ s \in UserStates /\ s.pc = "filled" /\ s.frame = sends + 1
      /\ sends + 1 \in Nat \ {0}
  <2>1. sends + 1 \in Nat \ {0} /\ 0 \in TxSlots
    BY <1>1 DEF TxTypes, NicUsual, TxSlots
  <2>. QED
    BY <2>1, Zenon DEF UserStates, Outside
<1>3. /\ OneInside' /\ UserTypes' /\ up
      /\ user'[u] = s
      /\ \A v \in Users : v # u => user'[v].pc = "out"
      /\ \A v \in Users : user[v].pc = "out"
  BY <1>1, <1>2, OnlyOneEnters, Zenon
<1>4. RxTypes' /\ RxRing' /\ DownIsFresh' /\ Copied'
  BY <1>1, <1>2, <1>3 DEF NicInv, RxTypes, RxRing, Waiting, Offset, DownIsFresh,
                    Copied, rxside
<1>5. TxTypes'
  BY <1>1, <1>2 DEF TxTypes
<1>6. TxRing'
  BY <1>1, <1>2, <1>3, SMTT(30) DEF TxRing
<1>. QED
  BY <1>3, <1>4, <1>5, <1>6 DEF NicInv

\* ... and hands the card the descriptor at the tail.
LEMMA TxPostInv ==
  ASSUME NicUsual, NicInv, NEW u \in Users, TxPost(u) PROVE NicInv'
<1>. DEFINE s == user'[u]
<1>1. /\ RxTypes /\ TxTypes /\ UserTypes /\ TxRing /\ OneInside
      /\ user[u].pc = "filled"
      /\ tx' = [tx EXCEPT ![g_tx_tail] = user[u].frame]
      /\ g_tx_tail' = Next1(g_tx_tail, TX_RING_SIZE)
      /\ UNCHANGED <<up, g_tx_buffer, tdh, wire, sends, stuck>>
      /\ UNCHANGED rxside
  BY DEF NicInv, TxPost
<1>2. /\ s \in UserStates /\ user' = [user EXCEPT ![u] = s]
      /\ s.pc = "posted" /\ s.slot = g_tx_tail /\ s.frame = user[u].frame
      /\ user[u].frame \in Nat
  <2>1. user' = [user EXCEPT ![u].pc = "posted", ![u].slot = g_tx_tail]
    BY DEF TxPost
  <2>2. user[u] \in UserStates /\ g_tx_tail \in TxSlots
    BY <1>1, ZenonT(30) DEF UserTypes, TxTypes
  <2>. QED
    BY <1>1, <2>1, <2>2, Zenon DEF UserTypes, UserStates
<1>3. /\ OneInside' /\ UserTypes'
      /\ user'[u] = s
      /\ \A v \in Users : v # u => user[v].pc = "out" /\ user'[v].pc = "out"
  BY <1>1, <1>2, OnlyOneMoves
<1>4. g_tx_tail \in TxSlots /\ g_tx_tail' \in TxSlots
  BY <1>1, NextSlot, ZenonT(30) DEF TxTypes, TxSlots, NicUsual
<1>5. TxTypes' /\ RxTypes'
  BY <1>1, <1>2, <1>4, ZenonT(30) DEF TxTypes, RxTypes, rxside
<1>6. RxRing' /\ DownIsFresh' /\ Copied'
  BY <1>1, <1>2, <1>3, ZenonT(30) DEF NicInv, RxRing, Waiting, Offset, DownIsFresh, Copied, rxside
<1>7. TxRing'
  <2>1. SUFFICES ASSUME stuck = 0 PROVE TxRing'
    BY <1>1, ZenonT(30) DEF TxRing
  <2>2. tdh = g_tx_tail
    BY <1>1, <1>3, <2>1, ZenonT(30) DEF TxRing
  <2>3. user[u].frame # 0 /\ user[u].frame = g_tx_buffer
    BY <1>1, <2>1, ZenonT(30) DEF TxRing
  <2>4. PendingFor(u)'
    BY <1>1, <1>2, <1>3, <1>4, <2>2, <2>3 DEF PendingFor, TxTypes
  <2>. QED
    BY <1>1, <1>2, <1>3, <2>1, <2>4, ZenonT(30) DEF TxRing
<1>. QED
  BY <1>3, <1>5, <1>6, <1>7 DEF NicInv

\* The card sends what it was handed: with no wait run out, the frame of the
\* task that waits, which is still in the buffer.
LEMMA TransmitInv == ASSUME NicUsual, NicInv, Transmit PROVE NicInv'
<1>1. /\ RxTypes /\ TxTypes /\ UserTypes /\ TxRing /\ OneInside
      /\ up /\ tdh # g_tx_tail
      /\ wire' = Append(wire, <<tx[tdh], g_tx_buffer>>)
      /\ tx' = [tx EXCEPT ![tdh] = 0] /\ tdh' = Next1(tdh, TX_RING_SIZE)
      /\ UNCHANGED <<up, g_tx_buffer, g_tx_tail, user, sends, stuck>>
      /\ UNCHANGED rxside
  BY DEF NicInv, Transmit
<1>2. tdh \in TxSlots /\ tdh' \in TxSlots /\ tx[tdh] \in Nat /\ g_tx_buffer \in Nat
  BY <1>1, NextSlot DEF TxTypes, TxSlots, NicUsual
<1>3. TxTypes'
  <2>1. <<tx[tdh], g_tx_buffer>> \in Nat \X Nat
    BY <1>2
  <2>2. wire' \in Seq(Nat \X Nat)
    BY <1>1, <2>1 DEF TxTypes
  <2>3. tx' \in [TxSlots -> Nat]
    BY <1>1, ZenonT(30) DEF TxTypes
  <2>. QED
    BY <1>1, <1>2, <2>2, <2>3 DEF TxTypes
<1>4. RxTypes' /\ UserTypes' /\ OneInside' /\ RxRing' /\ DownIsFresh' /\ Copied'
  BY <1>1, ZenonT(30) DEF NicInv, RxTypes, UserTypes, OneInside, RxRing, Waiting, Offset,
              DownIsFresh, Copied, rxside
<1>5. TxRing'
  <2>1. SUFFICES ASSUME stuck = 0 PROVE TxRing'
    BY <1>1, ZenonT(30) DEF TxRing
  <2>2. PICK u \in Users : user[u].pc = "posted"
    BY <1>1, <2>1 DEF TxRing
  <2>3. PendingFor(u)
    BY <1>1, <2>1, <2>2 DEF TxRing, SentBy
  <2>4. tdh' = g_tx_tail' /\ tx[tdh] = g_tx_buffer
    BY <1>1, <2>3, ZenonT(30) DEF PendingFor
  <2>5. SentBy(u)'
    BY <1>1, <1>2, <2>3, <2>4, ZenonT(30) DEF SentBy, PendingFor, TxTypes
  <2>6. \A v \in Users : v # u => user[v].pc = "out"
    BY <1>1, <2>2 DEF OneInside
  <2>7. ASSUME NEW i \in 1 .. Len(wire') PROVE wire'[i][1] = wire'[i][2]
    <3>1. /\ wire \in Seq(Nat \X Nat) /\ Len(wire) \in Nat
          /\ Len(wire') = Len(wire) + 1
          /\ <<tx[tdh], g_tx_buffer>> \in Nat \X Nat
      BY <1>1, <1>2 DEF TxTypes
    <3>2. CASE i = Len(wire) + 1
      <4>1. wire'[i] = <<tx[tdh], g_tx_buffer>>
        BY <1>1, <3>1, <3>2, SMTT(30)
      <4>. QED
        BY <2>4, <4>1
    <3>3. CASE i # Len(wire) + 1
      <4>1. i \in 1 .. Len(wire)
        BY <3>1, <3>3, SMTT(30)
      <4>2. wire'[i] = wire[i]
        BY <1>1, <3>1, <4>1
      <4>. QED
        BY <1>1, <2>1, <4>1, <4>2 DEF TxRing
    <3>. QED
      BY <3>2, <3>3
  <2>. QED
    BY <1>1, <2>2, <2>4, <2>5, <2>6, <2>7, ZenonT(30) DEF TxRing
<1>. QED
  BY <1>3, <1>4, <1>5 DEF NicInv

\* A send ends when DD is up or the wait has run out.
LEMMA TxDoneInv ==
  ASSUME NicUsual, NicInv, NEW u \in Users, TxDone(u) \/ TxStuck(u) PROVE NicInv'
<1>1. /\ RxTypes /\ TxTypes /\ UserTypes /\ TxRing /\ OneInside
      /\ user[u].pc = "posted"
      /\ user' = [user EXCEPT ![u] = Outside]
      /\ UNCHANGED <<up, g_tx_buffer, tx, tdh, g_tx_tail, wire, sends>>
      /\ UNCHANGED rxside
      /\ \/ stuck' = stuck /\ tx[user[u].slot] = 0
         \/ stuck' = stuck + 1
  BY DEF NicInv, TxDone, TxStuck, txside
<1>2. Outside \in UserStates
  BY DEF Outside, UserStates, NicUsual, TxSlots
<1>3. /\ OneInside' /\ UserTypes'
      /\ user'[u] = Outside
      /\ \A v \in Users : v # u => user[v].pc = "out" /\ user'[v].pc = "out"
  BY <1>1, <1>2, OnlyOneMoves, ZenonT(30)
<1>4. \A v \in Users : user'[v].pc = "out"
  BY <1>3, SMTT(30) DEF Outside
<1>5. RxTypes' /\ RxRing' /\ Copied'
  BY <1>1, <1>4, ZenonT(30) DEF NicInv, RxTypes, RxRing, Waiting, Offset, Copied, rxside
<1>6. TxTypes' /\ DownIsFresh'
  <2>1. stuck \in Nat
    BY <1>1, Zenon DEF TxTypes
  <2>2. stuck' \in Nat
    BY <1>1, <2>1
  <2>3. TxTypes'
    BY <1>1, <2>2, Zenon DEF TxTypes
  <2>4. up /\ up'
    BY <1>1, Zenon DEF NicInv, DownIsFresh
  <2>. QED
    BY <2>3, <2>4, Zenon DEF DownIsFresh
<1>7. TxRing'
  <2>1. SUFFICES ASSUME stuck' = 0 PROVE TxRing'
    BY DEF TxRing
  <2>2. stuck = 0 /\ tx[user[u].slot] = 0
    <3>1. stuck \in Nat
      BY <1>1, Zenon DEF TxTypes
    <3>2. stuck' # stuck + 1
      BY ONLY <2>1, <3>1, SMTT(30)
    <3>. QED
      BY <1>1, <2>1, <3>2, Zenon
  <2>3. SentBy(u)
    BY <1>1, <2>2 DEF TxRing, PendingFor
  <2>. QED
    BY <1>1, <1>4, <2>2, <2>3, ZenonT(30) DEF TxRing, SentBy
<1>. QED
  BY <1>3, <1>5, <1>6, <1>7, ZenonT(30) DEF NicInv

LEMMA NicStep == ASSUME NicUsual, NicInv, [NicNext]_nicvars PROVE NicInv'
<1>1. CASE UNCHANGED nicvars
  BY <1>1, Zenon DEF nicvars, NicInv, RxTypes, TxTypes, UserTypes, OneInside,
              DownIsFresh, RxRing, Waiting, Offset, Copied, TxRing, SentBy,
              PendingFor
<1>2. CASE e1000_init_rings \/ Arrive \/ Transmit
  BY <1>2, InitRingsInv, ArriveInv, TransmitInv
<1>3. ASSUME NEW u \in Users,
             RxCopy(u) \/ RxReturn(u) \/ TxFill(u) \/ TxPost(u) \/ TxDone(u)
             \/ TxStuck(u)
      PROVE  NicInv'
  BY <1>3, RxCopyInv, RxReturnInv, TxFillInv, TxPostInv, TxDoneInv
<1>. QED
  BY <1>1, <1>2, <1>3 DEF NicNext

\* What the invariant says of the frames handed out and sent.
LEMMA NicInvSound == ASSUME NicUsual, NicInv PROVE NicTypeOK /\ NicSound
<1>1. /\ arrived \in Seq(Nat) /\ taken \in Seq(Nat)
      /\ Len(arrived) \in Nat /\ Len(taken) \in Nat /\ Waiting \in Nat
      /\ g_rx_head \in 0 .. RX_RING_SIZE - 1 /\ RX_RING_SIZE \in Nat \ {0}
      /\ DOMAIN rx = RxSlots
  BY DEF NicInv, RxTypes, RxRing, RxSlots, NicUsual
<1>2. Len(taken) <= Len(arrived)
  BY <1>1 DEF Waiting
<1>3. taken = SubSeq(arrived, 1, Len(taken))
  <2>1. \A i \in 1 .. Len(taken) : taken[i] = arrived[i]
    BY <1>1, <1>2, SMTT(30) DEF NicInv, RxRing
  <2>. QED
    BY <1>1, <1>2, <2>1
<1>4. ASSUME NEW i \in Len(taken) + 1 .. Len(arrived)
      PROVE  \E d \in DOMAIN rx : rx[d] = arrived[i]
  <2>. DEFINE o == i - Len(taken) - 1
              d == IF g_rx_head + o < RX_RING_SIZE THEN g_rx_head + o
                   ELSE g_rx_head + o - RX_RING_SIZE
  <2>1. o \in Nat /\ o < Waiting /\ Waiting < RX_RING_SIZE
    BY <1>1, SMTT(30) DEF Waiting, NicInv, RxRing
  <2>2. d \in RxSlots /\ Offset(d) = o
    <3>1. o \in 0 .. RX_RING_SIZE - 1
      BY <1>1, <2>1
    <3>2. d = IF g_rx_head + o < RX_RING_SIZE THEN g_rx_head + o
              ELSE g_rx_head + o - RX_RING_SIZE
      OBVIOUS
    <3>3. RX_RING_SIZE \in Nat \ {0} /\ g_rx_head \in 0 .. RX_RING_SIZE - 1
      BY ONLY <1>1
    <3> HIDE DEF o, d
    <3>4. /\ d \in 0 .. RX_RING_SIZE - 1
          /\ o = IF d >= g_rx_head THEN d - g_rx_head ELSE d - g_rx_head + RX_RING_SIZE
      <4>1. CASE g_rx_head + o < RX_RING_SIZE
        BY ONLY <3>1, <3>2, <3>3, <4>1, SMTT(30)
      <4>2. CASE ~(g_rx_head + o < RX_RING_SIZE)
        BY ONLY <3>1, <3>2, <3>3, <4>2, SMTT(30)
      <4>. QED
        BY ONLY <4>1, <4>2
    <3>. QED
      BY ONLY <3>4 DEF RxSlots, Offset
  <2>3. rx[d] = Len(taken) + 1 + o
    BY <2>1, <2>2, Zenon DEF NicInv, RxRing
  <2>4. rx[d] = i /\ arrived[i] = i
    BY <1>1, <2>3, SMTT(30) DEF NicInv, RxRing
  <2>. QED
    BY <1>1, <2>2, <2>4
<1>5. WireIsWhatWasSent
  BY DEF NicInv, TxRing, WireIsWhatWasSent
<1>6. NicTypeOK
  BY DEF NicInv, RxTypes, TxTypes, UserTypes, UserStates, RxSlots, TxSlots,
         NicTypeOK
<1>. QED
  BY <1>2, <1>3, <1>4, <1>5, <1>6 DEF NicSound, FramesInOrder

\* e1000_receive() hands out every frame the card stored once and in order, a
\* frame not yet handed out is still in the ring, and what goes onto the wire is
\* what e1000_send() was given, until a wait for DD runs out: for rings of any
\* size, any number of tasks and any traffic, one task at a time in the driver.
THEOREM NicIsSound ==
  ASSUME NicUsual PROVE NicSpec => [](NicTypeOK /\ NicSound)
<1>1. NicInit => NicInv
  BY NicInitInv
<1>2. NicInv /\ [NicNext]_nicvars => NicInv'
  BY NicStep
<1>3. NicInv => NicTypeOK /\ NicSound
  BY NicInvSound
<1>. QED
  BY <1>1, <1>2, <1>3, PTL DEF NicSpec

-----------------------------------------------------------------------------
(***************************************************************************)
(* The disk.                                                               *)
(***************************************************************************)
DiskUsual ==
  /\ QUEUE_DEPTH \in Nat \ {0}
  /\ Sectors # {}
  /\ ~DiskOverlap

Entries == 0 .. QUEUE_DEPTH - 1
Rings == [tail : Entries, head : Entries, phase : 0 .. 1]
CallerStates ==
  [pc : {"idle", "nvme", "command", "transfer", "flush", "done"},
   op : {"read", "write"}, lba : Sectors, ok : BOOLEAN, served : BOOLEAN]

DriverTypes ==
  /\ probe \in {"reset", "enable", "create_cq", "create_sq", "nvme", "ata"}
  /\ asq \in Rings /\ iosq \in Rings
  /\ iocq \in [Entries -> [phase : 0 .. 1, ok : BOOLEAN]]
  /\ inflight \subseteq [by : DiskUsers, id : Nat, lba : Sectors]
  /\ posted \in [index : Entries, phase : 0 .. 1]
  /\ ata \in [lba : Sectors, cmd : {"none", "read", "write"}]
  /\ issued \in Nat /\ late \in BOOLEAN

CallerTypes == caller \in [DiskUsers -> CallerStates]

OneBusy == \A c, d \in DiskUsers : Busy(c) /\ Busy(d) => c = d

\* An entry of the completion ring that holds nothing the driver would take:
\* what is before the head is of this pass, the rest of the last one.
Spent(i) == iocq[i].phase = IF i < iosq.head THEN iosq.phase ELSE 1 - iosq.phase

\* The controller's next completion goes where the driver looks.
InStep == posted.index = iosq.head /\ posted.phase = iosq.phase

\* The command of c is with the controller, or its completion is at the head.
Waits(c) ==
  /\ \E k \in inflight : inflight = {k} /\ k.by = c
  /\ InStep
  /\ \A i \in Entries : Spent(i)
Answered(c) ==
  /\ inflight = {}
  /\ iocq[iosq.head].phase = iosq.phase
  /\ iocq[iosq.head].ok => caller[c].served
  /\ posted.index = Taken(iosq).head /\ posted.phase = Taken(iosq).phase
  /\ \A i \in Entries : i # iosq.head => Spent(i)

QuietRing == inflight = {} /\ InStep /\ \A i \in Entries : Spent(i)

\* While no NVMe wait has run out, the ring holds the caller's completion only.
NvmeRing ==
  ~late => /\ (\A c \in DiskUsers : caller[c].pc # "nvme") => QuietRing
           /\ \A c \in DiskUsers :
                caller[c].pc = "nvme" => Waits(c) \/ Answered(c)

\* The registers hold what the caller between two steps of a transfer wrote.
AtaRegisters ==
  \A c \in DiskUsers :
    /\ caller[c].pc \in {"command", "transfer"} => ata.lba = caller[c].lba
    /\ caller[c].pc = "transfer" => ata.cmd = caller[c].op
    /\ caller[c].pc = "flush" => caller[c].served

DiskInv ==
  /\ DriverTypes /\ CallerTypes
  /\ OneBusy /\ NvmeRing /\ AtaRegisters /\ OkMeansServed

\* A ring whose head's completion was taken: the phase flips with the wrap.
LEMMA TakenValue ==
  ASSUME DiskUsual, NEW r \in Rings
  PROVE  /\ Taken(r) \in Rings
         /\ Taken(r).tail = r.tail
         /\ Taken(r).head = IF r.head = QUEUE_DEPTH - 1 THEN 0 ELSE r.head + 1
         /\ Taken(r).phase = IF r.head = QUEUE_DEPTH - 1 THEN 1 - r.phase
                             ELSE r.phase
<1>. DEFINE h == (r.head + 1) % QUEUE_DEPTH
<1>1. r.head \in 0 .. QUEUE_DEPTH - 1 /\ QUEUE_DEPTH \in Nat \ {0}
  BY DEF Rings, Entries, DiskUsual
<1>2. h \in Entries /\ h = IF r.head = QUEUE_DEPTH - 1 THEN 0 ELSE r.head + 1
  BY <1>1, RingStep DEF Entries
<1>3. Taken(r) = [r EXCEPT !.head = h, !.phase = IF h = 0 THEN 1 - @ ELSE @]
  BY DEF Taken
<1>4. (h = 0) = (r.head = QUEUE_DEPTH - 1)
  BY <1>1, <1>2
<1>5. r.phase \in 0 .. 1 /\ 1 - r.phase \in 0 .. 1
  BY DEF Rings
<1>. HIDE DEF h
<1>. QED
  BY <1>2, <1>3, <1>4, <1>5, Zenon DEF Rings

\* At boot nobody has asked for anything.
LEMMA DiskInitInv == ASSUME DiskUsual, DiskInit PROVE DiskInv
<1>1. 0 \in Entries /\ (CHOOSE l \in Sectors : TRUE) \in Sectors
  BY SMTT(30) DEF DiskUsual, Entries
<1>2. Ring \in Rings /\ Idle \in CallerStates
  BY <1>1 DEF Ring, Rings, Idle, CallerStates
<1>3. DriverTypes
  <2>1. iocq \in [Entries -> [phase : 0 .. 1, ok : BOOLEAN]]
    BY SMTT(30) DEF DiskInit, Blank, Entries
  <2>2. ata \in [lba : Sectors, cmd : {"none", "read", "write"}]
    BY <1>1 DEF DiskInit, NoAta
  <2>3. posted \in [index : Entries, phase : 0 .. 1]
    BY <1>1 DEF DiskInit
  <2>. QED
    BY <1>2, <2>1, <2>2, <2>3, Zenon DEF DiskInit, DriverTypes
<1>4. CallerTypes /\ \A c \in DiskUsers : caller[c].pc = "idle"
  BY <1>2, Zenon DEF DiskInit, CallerTypes, Idle
<1>5. OneBusy /\ AtaRegisters /\ OkMeansServed
  BY <1>4, ZenonT(30) DEF OneBusy, Busy, AtaRegisters, OkMeansServed
<1>6. NvmeRing
  BY <1>4 DEF NvmeRing, QuietRing, InStep, Spent, DiskInit, Blank, Ring, Entries
<1>. QED
  BY <1>3, <1>4, <1>5, <1>6 DEF DiskInv

\* nvme_init() uses the admin ring only: nobody reads or writes yet, or ever
\* through it.
LEMMA ProbeInv ==
  ASSUME DiskUsual, DiskInv, FallBack \/ nvme_wait_ready \/ nvme_submit_admin
  PROVE  DiskInv'
<1>1. UNCHANGED <<iosq, iocq, inflight, posted, ata, caller, issued, late>>
  BY DEF FallBack, nvme_wait_ready, nvme_submit_admin
<1>2. asq' \in Rings
  <2>1. CASE nvme_submit_admin
    <3>. DEFINE t == (asq.tail + 1) % QUEUE_DEPTH
                r == [asq EXCEPT !.tail = t]
    <3>1. asq \in Rings /\ asq.tail \in 0 .. QUEUE_DEPTH - 1
      BY DEF DiskInv, DriverTypes, Rings, Entries
    <3>2. t \in Entries
      BY <3>1, RingStep DEF DiskUsual, Entries
    <3>3. r \in Rings
      <4>. HIDE DEF t
      <4>. QED
        BY <3>1, <3>2 DEF Rings
    <3>4. asq' = Taken(r)
      BY <2>1 DEF nvme_submit_admin
    <3>. HIDE DEF r
    <3>. QED
      BY <3>3, <3>4, TakenValue
  <2>. QED
    BY <2>1 DEF DiskInv, DriverTypes, FallBack, nvme_wait_ready
<1>3. DriverTypes'
  <2>1. probe' \in {"reset", "enable", "create_cq", "create_sq", "nvme", "ata"}
    BY ZenonT(30) DEF FallBack, nvme_wait_ready, nvme_submit_admin
  <2>. QED
    BY <1>1, <1>2, <2>1 DEF DiskInv, DriverTypes
<1>4. CallerTypes' /\ OneBusy' /\ AtaRegisters' /\ OkMeansServed'
  BY <1>1 DEF DiskInv, CallerTypes, OneBusy, Busy, AtaRegisters, OkMeansServed
<1>5. NvmeRing'
  BY <1>1 DEF DiskInv, NvmeRing, QuietRing, Waits, Answered, InStep, Spent, Taken
<1>. QED
  BY <1>3, <1>4, <1>5 DEF DiskInv

\* A call begins only when no other is under way.
LEMMA OnlyOneStarts ==
  ASSUME DiskUsual, CallerTypes, NEW c \in DiskUsers, MayStart(c),
         NEW s \in CallerStates, caller' = [caller EXCEPT ![c] = s]
  PROVE  /\ CallerTypes' /\ OneBusy' /\ caller'[c] = s
         /\ \A d \in DiskUsers : ~Busy(d)
         /\ \A d \in DiskUsers : d # c => caller'[d] = caller[d]
BY ZenonT(30) DEF DiskUsual, CallerTypes, MayStart, OneBusy, Busy

\* nvme_io_command() puts its command into an empty controller.
LEMMA SubmitInv ==
  ASSUME DiskUsual, DiskInv, NEW c \in DiskUsers, NEW op \in {"read", "write"},
         NEW l \in Sectors, nvme_submit(c, op, l)
  PROVE  DiskInv'
<1>. DEFINE s == [pc |-> "nvme", op |-> op, lba |-> l, ok |-> TRUE,
                  served |-> FALSE]
            k == [by |-> c, id |-> issued, lba |-> l]
            t == (iosq.tail + 1) % QUEUE_DEPTH
<1>1. /\ DriverTypes /\ CallerTypes /\ NvmeRing /\ AtaRegisters /\ OkMeansServed
      /\ MayStart(c) /\ caller' = [caller EXCEPT ![c] = s]
      /\ inflight' = inflight \cup {k}
      /\ iosq' = [iosq EXCEPT !.tail = t] /\ issued' = issued + 1
      /\ UNCHANGED <<probe, asq, acq, iocq, posted, ata, timeouts, late>>
  BY DEF DiskInv, nvme_submit
<1>2. s \in CallerStates
  BY DEF CallerStates
<1>3. /\ CallerTypes' /\ OneBusy' /\ caller'[c] = s
      /\ \A d \in DiskUsers : ~Busy(d)
      /\ \A d \in DiskUsers : d # c => caller'[d] = caller[d]
  BY <1>1, <1>2, OnlyOneStarts, Zenon
<1>4. iosq' \in Rings /\ iosq'.head = iosq.head /\ iosq'.phase = iosq.phase
  <2>1. iosq \in Rings /\ iosq.tail \in 0 .. QUEUE_DEPTH - 1
    BY <1>1 DEF DriverTypes, Rings, Entries
  <2>2. t \in Entries
    BY <2>1, RingStep DEF DiskUsual, Entries
  <2>. HIDE DEF t
  <2>. QED
    BY <1>1, <2>1, <2>2 DEF Rings
<1>5. DriverTypes'
  <2>1. inflight' \subseteq [by : DiskUsers, id : Nat, lba : Sectors]
    BY <1>1 DEF DriverTypes
  <2>. QED
    BY <1>1, <1>4, <2>1 DEF DriverTypes
<1>6. AtaRegisters' /\ OkMeansServed'
  BY <1>1, <1>3 DEF AtaRegisters, OkMeansServed
<1>7. NvmeRing'
  <2>1. SUFFICES ASSUME ~late PROVE NvmeRing'
    BY <1>1 DEF NvmeRing
  <2>2. QuietRing
    BY <1>1, <1>3, <2>1 DEF NvmeRing, Busy
  <2>3. inflight' = {k} /\ k.by = c
    BY <1>1, <2>2 DEF QuietRing
  <2>4. InStep' /\ \A i \in Entries : Spent(i)'
    BY <1>1, <1>4, <2>2 DEF QuietRing, InStep, Spent
  <2>5. Waits(c)'
    BY <2>3, <2>4, ZenonT(30) DEF Waits
  <2>6. caller'[c].pc = "nvme"
    BY <1>3, SMTT(30)
  <2>7. \A d \in DiskUsers : d # c => caller'[d].pc # "nvme"
    BY <1>3, ZenonT(30) DEF Busy
  <2>. QED
    BY <2>5, <2>6, <2>7, Zenon DEF NvmeRing
<1>. QED
  BY <1>3, <1>5, <1>6, <1>7 DEF DiskInv

\* The controller answers: with one command in it, the caller that waits, whose
\* data has moved when the completion says so.
LEMMA CompleteInv ==
  ASSUME DiskUsual, DiskInv, NEW k \in inflight, NEW ok \in BOOLEAN,
         Complete(k, ok)
  PROVE  DiskInv'
<1>. DEFINE w == \A j \in inflight : j.by = k.by => j.id <= k.id
            i0 == posted.index
<1>1. /\ DriverTypes /\ CallerTypes /\ NvmeRing /\ AtaRegisters /\ OkMeansServed
      /\ OneBusy
      /\ inflight' = inflight \ {k}
      /\ iocq' = [iocq EXCEPT ![i0] = [phase |-> posted.phase, ok |-> ok]]
      /\ posted' = [index |-> (i0 + 1) % QUEUE_DEPTH,
                    phase |-> IF (i0 + 1) % QUEUE_DEPTH = 0 THEN 1 - posted.phase
                              ELSE posted.phase]
      /\ UNCHANGED <<probe, asq, acq, iosq, ata, issued, timeouts, late>>
  BY DEF DiskInv, Complete
<1>2. k.by \in DiskUsers /\ i0 \in Entries /\ posted.phase \in 0 .. 1
      /\ iosq \in Rings
  BY <1>1 DEF DriverTypes
<1>3. /\ CallerTypes'
      /\ \A d \in DiskUsers : /\ caller'[d].pc = caller[d].pc
                              /\ caller'[d].op = caller[d].op
                              /\ caller'[d].lba = caller[d].lba
                              /\ caller'[d].ok = caller[d].ok
                              /\ caller[d].served => caller'[d].served
      /\ ok /\ w => caller'[k.by].served
  <2>1. caller' = [caller EXCEPT ![k.by].served = @ \/ (ok /\ w)]
    BY DEF Complete
  <2>2. (ok /\ w) \in BOOLEAN
    BY ZenonT(30)
  <2>. HIDE DEF w
  <2>. QED
    BY <1>1, <1>2, <2>1, <2>2 DEF CallerTypes, CallerStates
<1>4. /\ posted' \in [index : Entries, phase : 0 .. 1]
      /\ posted'.index = IF i0 = QUEUE_DEPTH - 1 THEN 0 ELSE i0 + 1
      /\ posted'.phase = IF i0 = QUEUE_DEPTH - 1 THEN 1 - posted.phase
                         ELSE posted.phase
  <2>. DEFINE n == (i0 + 1) % QUEUE_DEPTH
  <2>1. n \in Entries /\ n = IF i0 = QUEUE_DEPTH - 1 THEN 0 ELSE i0 + 1
    BY <1>2, RingStep DEF DiskUsual, Entries
  <2>2. (n = 0) = (i0 = QUEUE_DEPTH - 1)
    BY <1>2, <2>1, SMTT(30) DEF Entries
  <2>3. posted' = [index |-> n, phase |-> IF n = 0 THEN 1 - posted.phase
                                          ELSE posted.phase]
    BY <1>1
  <2>4. 1 - posted.phase \in 0 .. 1
    BY <1>2, SMTT(30)
  <2>. HIDE DEF n
  <2>. QED
    BY <1>2, <2>1, <2>2, <2>3, <2>4
<1>5. DriverTypes'
  <2>1. iocq' \in [Entries -> [phase : 0 .. 1, ok : BOOLEAN]]
    BY <1>1, <1>2, ZenonT(30) DEF DriverTypes
  <2>. QED
    BY <1>1, <1>4, <2>1, ZenonT(30) DEF DriverTypes
<1>6. OneBusy' /\ AtaRegisters' /\ OkMeansServed'
  BY <1>1, <1>3, SMTT(30) DEF OneBusy, Busy, AtaRegisters, OkMeansServed
<1>7. NvmeRing'
  <2>1. SUFFICES ASSUME ~late PROVE NvmeRing'
    BY <1>1 DEF NvmeRing
  <2>2. PICK c \in DiskUsers : caller[c].pc = "nvme"
    BY <1>1, <2>1, ZenonT(30) DEF NvmeRing, QuietRing
  <2>3. Waits(c)
    BY <1>1, <2>1, <2>2 DEF NvmeRing, Answered
  <2>4. inflight = {k} /\ k.by = c
    BY <2>3, ZenonT(30) DEF Waits
  <2>5. w /\ inflight' = {}
    <3>1. k.id \in Nat
      BY <1>1, ZenonT(30) DEF DriverTypes
    <3>. QED
      BY <1>1, <2>4, <3>1, SMTT(30)
  <2>6. i0 = iosq.head /\ posted.phase = iosq.phase
    BY <2>3, ZenonT(30) DEF Waits, InStep
  <2>7. /\ iocq'[iosq.head].phase = iosq.phase
        /\ iocq'[iosq.head].ok = ok
        /\ \A i \in Entries : i # iosq.head => iocq'[i] = iocq[i]
    BY <1>1, <1>2, <2>6 DEF DriverTypes
  <2>8. posted'.index = Taken(iosq).head /\ posted'.phase = Taken(iosq).phase
    BY <1>2, <1>4, <2>6, TakenValue, ZenonT(30)
  <2>9. \A i \in Entries : i # iosq.head => Spent(i)'
    BY <1>1, <2>3, <2>7 DEF Waits, Spent
  <2>10. Answered(c)'
    BY <1>1, <1>3, <2>4, <2>5, <2>7, <2>8, <2>9, ZenonT(30) DEF Answered, Taken
  <2>11. \A d \in DiskUsers : caller'[d].pc = "nvme" => d = c
    BY <1>1, <1>3, <2>2 DEF OneBusy, Busy
  <2>. QED
    BY <1>3, <2>2, <2>10, <2>11, ZenonT(30) DEF NvmeRing
<1>. QED
  BY <1>3, <1>5, <1>6, <1>7 DEF DiskInv

\* A step of the one call under way leaves the others as they are.
LEMMA OnlyOneRuns ==
  ASSUME CallerTypes, OneBusy, NEW c \in DiskUsers, Busy(c),
         NEW s \in CallerStates, caller' = [caller EXCEPT ![c] = s]
  PROVE  /\ CallerTypes' /\ OneBusy' /\ caller'[c] = s
         /\ \A d \in DiskUsers : d # c => caller'[d] = caller[d] /\ ~Busy(d)
BY DEF CallerTypes, OneBusy, Busy

\* nvme_io_command() takes the completion at the head: its own, and what is
\* left in the ring is spent, in the phase of the pass the head is now in.
LEMMA PollInv ==
  ASSUME DiskUsual, DiskInv, NEW c \in DiskUsers, nvme_poll(c) PROVE DiskInv'
<1>. DEFINE s == caller'[c]
<1>1. /\ DriverTypes /\ CallerTypes /\ OneBusy /\ NvmeRing /\ AtaRegisters
      /\ OkMeansServed
      /\ caller[c].pc = "nvme" /\ iocq[iosq.head].phase = iosq.phase
      /\ iosq' = Taken(iosq)
      /\ UNCHANGED <<probe, asq, acq, iocq, inflight, posted, ata, issued,
                     timeouts, late>>
  BY DEF DiskInv, nvme_poll
<1>2. /\ s \in CallerStates /\ caller' = [caller EXCEPT ![c] = s]
      /\ s.pc = "done" /\ s.ok = iocq[iosq.head].ok
      /\ s.served = caller[c].served
  <2>1. caller' = [caller EXCEPT ![c].pc = "done", ![c].ok = iocq[iosq.head].ok]
    BY DEF nvme_poll, Returns
  <2>2. iocq[iosq.head].ok \in BOOLEAN
    BY <1>1 DEF DriverTypes, Rings
  <2>. QED
    BY <1>1, <2>1, <2>2, ZenonT(30) DEF CallerTypes, CallerStates
<1>3. /\ CallerTypes' /\ OneBusy'
      /\ \A d \in DiskUsers : d # c => caller'[d] = caller[d] /\ ~Busy(d)
  BY <1>1, <1>2, OnlyOneRuns, ZenonT(30) DEF Busy
<1>4. iosq \in Rings /\ iosq' \in Rings /\ DriverTypes'
  <2>1. iosq \in Rings /\ iosq' \in Rings
    BY <1>1, TakenValue, ZenonT(30) DEF DriverTypes
  <2>. QED
    BY <1>1, <2>1, ZenonT(30) DEF DriverTypes
<1>5. AtaRegisters'
  BY <1>1, <1>2, <1>3, ZenonT(30) DEF AtaRegisters
<1>6. ~late => Answered(c)
  <2>1. SUFFICES ASSUME ~late, Waits(c) PROVE FALSE
    BY <1>1 DEF NvmeRing
  <2>2. iosq.head \in Entries /\ iosq.head \in Nat /\ iosq.phase \in 0 .. 1
    BY <1>4 DEF Rings, Entries
  <2>3. Spent(iosq.head)
    BY <2>1, <2>2, ZenonT(30) DEF Waits
  <2>. QED
    BY <1>1, <2>2, <2>3, SMTT(30) DEF Spent
<1>7. OkMeansServed'
  BY <1>1, <1>2, <1>3, <1>6 DEF OkMeansServed, Answered
<1>8. NvmeRing'
  <2>1. SUFFICES ASSUME ~late PROVE NvmeRing'
    BY <1>1, Zenon DEF NvmeRing
  <2>2. Answered(c)
    BY <1>6, <2>1
  <2>3. inflight' = {} /\ InStep'
    BY <1>1, <2>2, ZenonT(30) DEF Answered, InStep
  <2>4. ASSUME NEW i \in Entries PROVE Spent(i)'
    <3>1. /\ i \in 0 .. QUEUE_DEPTH - 1 /\ iosq.head \in 0 .. QUEUE_DEPTH - 1
          /\ iosq.phase \in 0 .. 1 /\ QUEUE_DEPTH \in Nat \ {0}
      BY <1>4, ZenonT(30) DEF Rings, Entries, DiskUsual
    <3>2. iocq'[i].phase = IF i <= iosq.head THEN iosq.phase ELSE 1 - iosq.phase
      BY <1>1, <2>2, <3>1, SMTT(30) DEF Answered, Spent
    <3>3. /\ iosq'.head = IF iosq.head = QUEUE_DEPTH - 1 THEN 0 ELSE iosq.head + 1
          /\ iosq'.phase = IF iosq.head = QUEUE_DEPTH - 1 THEN 1 - iosq.phase
                           ELSE iosq.phase
      BY <1>1, <1>4, TakenValue
    <3>. QED
      BY <3>1, <3>2, <3>3 DEF Spent
  <2>5. QuietRing'
    BY <2>3, <2>4, ZenonT(30) DEF QuietRing
  <2>6. \A d \in DiskUsers : caller'[d].pc # "nvme"
    BY <1>2, <1>3, ZenonT(30) DEF Busy
  <2>. QED
    BY <2>5, <2>6 DEF NvmeRing
<1>. QED
  BY <1>3, <1>4, <1>5, <1>7, <1>8, ZenonT(30) DEF DiskInv

\* A step of the one call under way that is not one of the NVMe driver leaves
\* the ring alone.
LEMMA AtaLeavesNvme ==
  ASSUME NvmeRing, OneBusy, NEW c \in DiskUsers,
         caller[c].pc # "nvme", caller'[c].pc # "nvme",
         \A d \in DiskUsers : d # c => caller'[d] = caller[d],
         UNCHANGED <<iosq, iocq, inflight, posted, late>>
  PROVE  NvmeRing'
<1>1. SUFFICES ASSUME ~late PROVE NvmeRing'
  BY ZenonT(30) DEF NvmeRing
<1>2. QuietRing' = QuietRing
  BY ZenonT(30) DEF QuietRing, InStep, Spent
<1>3. ASSUME NEW d \in DiskUsers, caller'[d].pc = "nvme"
      PROVE  (Waits(d) \/ Answered(d))'
  <2>1. caller'[d] = caller[d] /\ (Waits(d) \/ Answered(d))
    BY <1>1, <1>3, ZenonT(30) DEF NvmeRing
  <2>2. Waits(d)' = Waits(d)
    BY DEF Waits, InStep, Spent
  <2>3. Answered(d) => Answered(d)'
    BY <2>1 DEF Answered, Spent, Taken
  <2>. QED
    BY <2>1, <2>2, <2>3, ZenonT(30)
<1>4. (\A d \in DiskUsers : caller'[d].pc # "nvme") => QuietRing'
  BY <1>1, <1>2, ZenonT(30) DEF NvmeRing
<1>. QED
  BY <1>3, <1>4, ZenonT(30) DEF NvmeRing

\* The ATA registers are selected for a call while no other is under way.
LEMMA SetupInv ==
  ASSUME DiskUsual, DiskInv, NEW c \in DiskUsers, NEW op \in {"read", "write"},
         NEW l \in Sectors, ata_setup(c, op, l)
  PROVE  DiskInv'
<1>. DEFINE s == [pc |-> "command", op |-> op, lba |-> l, ok |-> TRUE,
                  served |-> FALSE]
<1>1. /\ DriverTypes /\ CallerTypes /\ OneBusy /\ NvmeRing /\ AtaRegisters
      /\ OkMeansServed
      /\ MayStart(c) /\ caller' = [caller EXCEPT ![c] = s]
      /\ ata' = [ata EXCEPT !.lba = l] /\ issued' = issued + 1
      /\ UNCHANGED <<probe, asq, acq, iosq, iocq, inflight, posted, timeouts,
                     late>>
  BY ZenonT(30) DEF DiskInv, ata_setup
<1>2. s \in CallerStates
  BY DEF CallerStates
<1>3. /\ CallerTypes' /\ OneBusy' /\ caller'[c] = s
      /\ \A d \in DiskUsers : ~Busy(d)
      /\ \A d \in DiskUsers : d # c => caller'[d] = caller[d]
  BY <1>1, <1>2, OnlyOneStarts, Zenon
<1>4. /\ ata' \in [lba : Sectors, cmd : {"none", "read", "write"}]
      /\ ata'.lba = l
  BY <1>1 DEF DriverTypes
<1>5. DriverTypes'
  BY <1>1, <1>4 DEF DriverTypes
<1>6. AtaRegisters' /\ OkMeansServed'
  BY <1>1, <1>3, <1>4 DEF AtaRegisters, OkMeansServed, Busy
<1>7. NvmeRing'
  BY <1>1, <1>3, AtaLeavesNvme, SMTT(30) DEF Busy
<1>. QED
  BY <1>3, <1>5, <1>6, <1>7 DEF DiskInv

\* Command, data and flush of the call the registers were set up for.
LEMMA AtaInv ==
  ASSUME DiskUsual, DiskInv, NEW c \in DiskUsers,
         ata_command(c) \/ ata_transfer(c) \/ ata_flush(c)
  PROVE  DiskInv'
<1>. DEFINE s == caller'[c]
<1>1. /\ DriverTypes /\ CallerTypes /\ OneBusy /\ NvmeRing /\ AtaRegisters
      /\ OkMeansServed
      /\ UNCHANGED <<probe, asq, acq, iosq, iocq, inflight, posted, issued,
                     timeouts, late>>
  BY DEF DiskInv, ata_command, ata_transfer, ata_flush
<1>2. caller[c] \in CallerStates
      /\ caller[c].pc \in {"command", "transfer", "flush"}
  BY <1>1 DEF CallerTypes, ata_command, ata_transfer, ata_flush
<1>3. /\ s \in CallerStates /\ caller' = [caller EXCEPT ![c] = s]
      /\ s.lba = caller[c].lba /\ s.op = caller[c].op
      /\ ata' \in [lba : Sectors, cmd : {"none", "read", "write"}]
      /\ ata'.lba = ata.lba
      /\ \/ s.pc = "transfer" /\ ata'.cmd = s.op /\ caller[c].pc = "command"
         \/ s.pc \in {"flush", "done"} /\ s.served
  <2>1. CASE ata_command(c)
    <3>1. caller' = [caller EXCEPT ![c].pc = "transfer"]
          /\ ata' = [ata EXCEPT !.cmd = caller[c].op] /\ caller[c].pc = "command"
      BY <2>1 DEF ata_command, Goes
    <3>. QED
      BY <1>1, <1>2, <3>1 DEF CallerTypes, CallerStates, DriverTypes
  <2>2. CASE ata_transfer(c)
    <3>. DEFINE b == ata = [lba |-> caller[c].lba, cmd |-> caller[c].op]
                p == IF caller[c].op = "write" THEN "flush" ELSE "done"
    <3>1. caller' = [caller EXCEPT ![c].served = b, ![c].pc = p]
          /\ ata' = ata /\ caller[c].pc = "transfer"
      BY <2>2 DEF ata_transfer
    <3>2. b = TRUE
      BY <1>1, <3>1 DEF AtaRegisters, DriverTypes
    <3>3. p \in {"flush", "done"}
      OBVIOUS
    <3>. HIDE DEF b, p
    <3>. QED
      BY <1>1, <1>2, <3>1, <3>2, <3>3 DEF CallerTypes, CallerStates, DriverTypes
  <2>3. CASE ata_flush(c)
    <3>1. caller' = [caller EXCEPT ![c].pc = "done"] /\ ata' = ata
          /\ caller[c].pc = "flush"
      BY <2>3 DEF ata_flush, Goes
    <3>2. caller[c].served
      BY <1>1, <3>1 DEF AtaRegisters
    <3>. QED
      BY <1>1, <1>2, <3>1, <3>2 DEF CallerTypes, CallerStates, DriverTypes
  <2>. QED
    BY <2>1, <2>2, <2>3, Zenon
<1>4. /\ CallerTypes' /\ OneBusy'
      /\ \A d \in DiskUsers : d # c => caller'[d] = caller[d] /\ ~Busy(d)
  BY <1>1, <1>2, <1>3, OnlyOneRuns, ZenonT(30) DEF Busy
<1>5. DriverTypes'
  BY <1>1, <1>3, Zenon DEF DriverTypes
<1>6. AtaRegisters' /\ OkMeansServed'
  BY <1>1, <1>3, <1>4 DEF AtaRegisters, OkMeansServed, Busy
<1>7. NvmeRing'
  <2>1. caller[c].pc # "nvme" /\ caller'[c].pc # "nvme"
    BY <1>2, <1>3
  <2>2. UNCHANGED <<iosq, iocq, inflight, posted, late>>
    BY <1>1, ZenonT(30)
  <2>. QED
    BY <1>1, <1>4, <2>1, <2>2, AtaLeavesNvme, ZenonT(30)
<1>. QED
  BY <1>4, <1>5, <1>6, <1>7 DEF DiskInv

\* A wait runs out: the call fails, and from then on a completion may be
\* another call's if the wait was one of the NVMe driver.
LEMMA SpinsOutInv ==
  ASSUME DiskUsual, DiskInv, NEW c \in DiskUsers, SpinsOut(c) PROVE DiskInv'
<1>. DEFINE s == caller'[c]
<1>1. /\ DriverTypes /\ CallerTypes /\ OneBusy /\ NvmeRing /\ AtaRegisters
      /\ OkMeansServed
      /\ Busy(c) /\ late' = (late \/ caller[c].pc = "nvme")
      /\ UNCHANGED <<probe, asq, acq, iosq, iocq, inflight, posted, ata, issued>>
  BY Zenon DEF DiskInv, SpinsOut
<1>2. /\ s \in CallerStates /\ caller' = [caller EXCEPT ![c] = s]
      /\ s.pc = "done" /\ s.ok = FALSE
  <2>1. caller' = [caller EXCEPT ![c].pc = "done", ![c].ok = FALSE]
    BY DEF SpinsOut, Returns
  <2>. QED
    BY <1>1, <2>1, ZenonT(30) DEF CallerTypes, CallerStates
<1>3. /\ CallerTypes' /\ OneBusy'
      /\ \A d \in DiskUsers : d # c => caller'[d] = caller[d] /\ ~Busy(d)
  BY <1>1, <1>2, OnlyOneRuns, Zenon
<1>4. DriverTypes'
  BY <1>1 DEF DriverTypes
<1>5. AtaRegisters' /\ OkMeansServed'
  BY <1>1, <1>2, <1>3, Zenon DEF AtaRegisters, OkMeansServed, Busy
<1>6. NvmeRing'
  <2>1. CASE caller[c].pc = "nvme"
    BY <1>1, <2>1, Zenon DEF NvmeRing
  <2>2. CASE caller[c].pc # "nvme"
    <3>1. late' = late
      BY <1>1, <2>2, ZenonT(30) DEF DriverTypes
    <3>. QED
      BY <1>1, <1>2, <1>3, <2>2, <3>1, AtaLeavesNvme, ZenonT(30)
  <2>. QED
    BY <2>1, <2>2
<1>. QED
  BY <1>3, <1>4, <1>5, <1>6 DEF DiskInv

LEMMA DiskStep == ASSUME DiskUsual, DiskInv, [DiskNext]_dvars PROVE DiskInv'
<1>1. CASE UNCHANGED dvars
  <2>1. DriverTypes' /\ CallerTypes' /\ OneBusy' /\ AtaRegisters' /\ OkMeansServed'
    BY <1>1 DEF dvars, DiskInv, DriverTypes, CallerTypes, OneBusy, Busy,
                AtaRegisters, OkMeansServed
  <2>2. NvmeRing'
    BY <1>1 DEF dvars, DiskInv, NvmeRing, QuietRing, Waits, Answered, InStep,
                Spent, Taken
  <2>. QED
    BY <2>1, <2>2, ZenonT(30) DEF DiskInv
<1>2. CASE FallBack \/ nvme_wait_ready \/ nvme_submit_admin
  BY <1>2, ProbeInv
<1>3. ASSUME NEW c \in DiskUsers, NEW op \in {"read", "write"}, NEW l \in Sectors,
             nvme_submit(c, op, l) \/ ata_setup(c, op, l)
      PROVE  DiskInv'
  BY <1>3, SubmitInv, SetupInv
<1>4. ASSUME NEW c \in DiskUsers,
             nvme_poll(c) \/ ata_command(c) \/ ata_transfer(c) \/ ata_flush(c)
             \/ SpinsOut(c)
      PROVE  DiskInv'
  BY <1>4, PollInv, AtaInv, SpinsOutInv
<1>5. ASSUME NEW k \in inflight, NEW ok \in BOOLEAN, Complete(k, ok)
      PROVE  DiskInv'
  BY <1>5, CompleteInv, ZenonT(30)
<1>. QED
  BY <1>1, <1>2, <1>3, <1>4, <1>5 DEF DiskNext

\* blockdev_read() and blockdev_write() return true only when the data of their
\* own sector has moved, through NVMe across every wrap of the ring and flip of
\* the phase or through ATA, until an NVMe wait runs out: for a ring of any
\* depth and any number of callers, one call at a time.
THEOREM DiskIsSound ==
  ASSUME DiskUsual PROVE DiskSpec => [](DiskTypeOK /\ OkMeansServed)
<1>1. DiskInit => DiskInv
  BY DiskInitInv
<1>2. DiskInv /\ [DiskNext]_dvars => DiskInv'
  BY DiskStep
<1>3. DiskInv => DiskTypeOK /\ OkMeansServed
  BY DEF DiskInv, DriverTypes, CallerTypes, CallerStates, Rings, Entries, DiskTypeOK
<1>. QED
  BY <1>1, <1>2, <1>3, PTL DEF DiskSpec
=============================================================================
