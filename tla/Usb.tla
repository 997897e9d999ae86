----------------------------------- MODULE Usb -----------------------------------
(***************************************************************************)
(* USB mouse and keyboard: kernel/drivers/usb (xhci.c, uhci.c, usbhc.c,    *)
(* usb_hid.c, usb_descriptor.c).                                           *)
(*                                                                         *)
(* At boot usb_hid_init() enumerates the ports of both controllers in turn *)
(* and arms each device as soon as it is found; from then on the timer     *)
(* interrupt polls both.  The controllers run on their own: they fetch     *)
(* what the driver queued, write reports to the device's buffer and post   *)
(* events.  A device is named by its port; its reports are numbered.       *)
(***************************************************************************)
EXTENDS Integers, Sequences, FiniteSets, SequencesExt

CONSTANTS
  Boards,              \* what is plugged in: sequences of [hc, kind], UHCI ports first
  RING_SIZE,           \* the last entry of a transfer or command ring is its link
  XHCI_MAX_SLOTS,
  Gets,                \* descriptor reads of an enumeration (4 in the code)
  Strays,              \* reports and errors may come while a command is waited for
  Overrun,             \* the next report may come before the last one is parsed
  MaxReports, MaxFaults   \* bounds

VARIABLES
  board,
  port, plan, awaited,    \* the port in enumeration, what is left of it, and the
                          \* entry whose event wait_for_event() waits for
  hwslot,                 \* g_slot_state: hardware slot of a port, 0 if none
  rings,                  \* entries, enqueue and cycle, and the controller's view
  events,                 \* g_event_ring, g_evt_dequeue, g_evt_cycle, and the producer
  armed,                  \* ports whose device was armed
  present,                \* g_usb_mouse_present, g_usb_keyboard_present
  g_periodic_ready,
  g_periodic_td, g_periodic_toggle, devtoggle,
  g_buf,                  \* g_mouse_buf, g_kbd_buf: the report in the buffer
  unparsed,               \* ports polled with success and not yet parsed
  delivered, applied,     \* history: reports sent by the device, and parsed
  ufaults

uvars == <<board, port, plan, awaited, hwslot, rings, events, armed, present,
           g_periodic_ready, g_periodic_td, g_periodic_toggle, devtoggle, g_buf,
           unparsed, delivered, applied, ufaults>>
booting == <<port, plan, awaited, hwslot, armed, present>>
uhci == <<g_periodic_td, g_periodic_toggle, devtoggle>>
reports == <<g_buf, unparsed, delivered, applied>>

Ports == DOMAIN board
None == <<"none", 0>>
Cmd == <<"cmd", 0>>
Kinds == {"mouse", "keyboard"}

EmptyRing == [cyc |-> [i \in 0..RING_SIZE - 1 |-> 0],
              ioc |-> [i \in 0..RING_SIZE - 1 |-> FALSE],
              enqueue |-> 0, cycle |-> 1,
              deq |-> 0, hccycle |-> 1, owed |-> 0]

UsbInit ==
  /\ board \in Boards
  /\ port = 0 /\ plan = <<>> /\ awaited = <<None, 0>>
  /\ hwslot = [p \in Ports |-> 0]
  /\ rings = [r \in {Cmd} \cup ({"ep0", "hid"} \X Ports) |-> EmptyRing]
  /\ events = [entry |-> [i \in 0..RING_SIZE - 1 |-> [cyc |-> 0, ring |-> None,
                                                      at |-> 0, ok |-> FALSE]],
               dequeue |-> 0, cycle |-> 1, hcenq |-> 0, hccycle |-> 1]
  /\ armed = {} /\ present = {}
  /\ g_periodic_ready = {}
  /\ g_periodic_td = [p \in Ports |-> [state |-> "idle", toggle |-> 0]]
  /\ g_periodic_toggle = [p \in Ports |-> 0] /\ devtoggle = [p \in Ports |-> 0]
  /\ g_buf = [p \in Ports |-> 0] /\ unparsed = {}
  /\ delivered = [p \in Ports |-> 0] /\ applied = [p \in Ports |-> <<>>]
  /\ ufaults = 0

\* Slots stay within the number the driver asked the controller for.
UsbTypeOK ==
  /\ \A p \in Ports : hwslot[p] \in 0..XHCI_MAX_SLOTS
  /\ armed \subseteq Ports /\ unparsed \subseteq armed
  /\ \A r \in DOMAIN rings : rings[r].enqueue \in 0..RING_SIZE - 2

-----------------------------------------------------------------------------
(***************************************************************************)
(* Rings.  An entry is new to the reader when its cycle bit is the one the *)
(* reader expects; both sides flip theirs when they wrap.                  *)
(***************************************************************************)
\* (Mutant.) The cycle bit is flipped only by the link, never by the driver.
ring_enqueue_flat(ring, ioc) ==
  LET wraps == ring.enqueue + 1 = RING_SIZE - 1 IN
  [ring EXCEPT !.cyc = [@ EXCEPT ![ring.enqueue] = ring.cycle,
                          ![RING_SIZE - 1] = IF wraps THEN ring.cycle ELSE @],
               !.ioc[ring.enqueue] = ioc,
               !.enqueue = IF wraps THEN 0 ELSE @ + 1,
               !.owed = @ + 1]

ring_enqueue(ring, ioc) ==
  LET wraps == ring.enqueue + 1 = RING_SIZE - 1 IN
  [ring EXCEPT !.cyc = [@ EXCEPT ![ring.enqueue] = ring.cycle,
                          ![RING_SIZE - 1] = IF wraps THEN ring.cycle ELSE @],
               !.ioc[ring.enqueue] = ioc,
               !.enqueue = IF wraps THEN 0 ELSE @ + 1,
               !.cycle = IF wraps THEN 1 - @ ELSE @,
               !.owed = @ + 1]

\* What the controller sees at its end of a ring, and the ring once it took it.
Offered(ring) == ring.cyc[ring.deq] = ring.hccycle
Taken(ring) ==
  LET linked == ring.deq + 1 = RING_SIZE - 1
                /\ ring.cyc[RING_SIZE - 1] = ring.hccycle
  IN [ring EXCEPT !.deq = IF linked THEN 0 ELSE @ + 1,
                  !.hccycle = IF linked THEN 1 - @ ELSE @, !.owed = @ - 1]

\* The controller posts an event, unless the ring is full.
RoomForEvent == (events.hcenq + 1) % RING_SIZE # events.dequeue
Posted(r, i, good) ==
  [events EXCEPT !.entry[events.hcenq] = [cyc |-> events.hccycle, ring |-> r,
                                          at |-> i, ok |-> good],
                 !.hcenq = (@ + 1) % RING_SIZE,
                 !.hccycle = IF events.hcenq = RING_SIZE - 1 THEN 1 - @ ELSE @]

\* The driver takes the event at its end, if its cycle bit says it is new.
try_consume_event ==
  /\ events.entry[events.dequeue].cyc = events.cycle
  /\ events' = [events EXCEPT
                  !.dequeue = (@ + 1) % RING_SIZE,
                  !.cycle = IF events.dequeue = RING_SIZE - 1 THEN 1 - @ ELSE @]

-----------------------------------------------------------------------------
(***************************************************************************)
(* Boot: usbhc_enumerate_next() and classify_and_arm().                    *)
(***************************************************************************)
\* parse_hid_endpoint(): a boot mouse or keyboard has an interrupt endpoint.
Wanted(p) == board[p].kind \in Kinds /\ board[p].kind \notin present
Booted == port > Len(board)

\* The kinds seen once the device of this port is classified.
classify_and_arm == IF Wanted(port) THEN present \cup {board[port].kind} ELSE present

\* The next port is tried while a mouse or a keyboard is missing.
NextPort ==
  LET p == port + 1 IN
  /\ ~Booted /\ plan = <<>> /\ awaited[1] = None
  /\ IF present = Kinds \/ p > Len(board)
     THEN port' = Len(board) + 1 /\ UNCHANGED plan
     ELSE /\ port' = p
          /\ plan' = IF board[p].hc = "uhci" THEN <<"uhci">>
                     ELSE <<"enable", "address">> \o [i \in 1..Gets |-> "get"]
                            \o <<"set">>
  /\ UNCHANGED <<board, awaited, hwslot, rings, events, armed, present,
                 g_periodic_ready, ufaults>>
  /\ UNCHANGED uhci /\ UNCHANGED reports

\* xhci_enumerate_port(), xhci_arm_periodic(): the next command or control
\* transfer is queued and its doorbell rung.
Submit ==
  LET r == IF Head(plan) \in {"get", "set"} THEN <<"ep0", port>> ELSE Cmd
      stage1 == ring_enqueue(rings[r], FALSE)
      stage2 == IF Head(plan) = "get" THEN ring_enqueue(stage1, FALSE) ELSE stage1
      before == IF r = Cmd THEN rings[r] ELSE stage2
  IN
  /\ plan # <<>> /\ Head(plan) # "uhci" /\ awaited[1] = None
  /\ rings' = [rings EXCEPT ![r] = ring_enqueue(before, TRUE)]
  /\ awaited' = <<r, before.enqueue>>
  /\ UNCHANGED <<board, port, plan, hwslot, events, armed, present,
                 g_periodic_ready, ufaults>>
  /\ UNCHANGED uhci /\ UNCHANGED reports

requeue_normal(ring) == ring_enqueue(ring, TRUE)

\* The endpoint is configured, whatever came of it: its first transfer is queued.
xhci_arm_periodic(configured) ==
  /\ armed' = IF configured THEN armed \cup {port} ELSE armed
  /\ rings' = IF configured THEN [rings EXCEPT ![<<"hid", port>>] = requeue_normal(@)]
              ELSE rings

\* The step succeeded or failed.  A failed enumeration leaves the port; the
\* results of SET_CONFIGURATION and Configure Endpoint are not looked at.
Answered(ok) ==
  LET step == Head(plan)
      used == Cardinality({p \in Ports : hwslot[p] # 0})
      fits == used < XHCI_MAX_SLOTS
      good == ok /\ (step = "enable" => fits)
  IN
  /\ awaited' = <<None, 0>>
  /\ hwslot' = IF step = "enable" /\ good THEN [hwslot EXCEPT ![port] = used + 1]
               ELSE hwslot
  /\ plan' = CASE step \in {"enable", "address", "get"} /\ ~good -> <<>>
               [] step = "set" /\ Wanted(port) -> <<"configure">>
               [] OTHER -> Tail(plan)
  /\ present' = IF step = "set" THEN classify_and_arm ELSE present
  /\ xhci_arm_periodic(step = "configure")

\* wait_for_event() takes an event: the awaited one, or one it drops.
WaitTakes ==
  LET e == events.entry[events.dequeue] IN
  /\ awaited[1] # None
  /\ try_consume_event
  /\ IF awaited = <<e.ring, e.at>> THEN Answered(e.ok)
     ELSE UNCHANGED <<awaited, hwslot, plan, armed, present, rings>>
  /\ UNCHANGED <<board, port, g_periodic_ready, ufaults>>
  /\ UNCHANGED uhci /\ UNCHANGED reports

\* The spins of wait_for_event() run out, with nothing more to come.
WaitFails ==
  /\ awaited[1] # None
  /\ events.entry[events.dequeue].cyc # events.cycle
  /\ ~Offered(rings[awaited[1]])
  /\ Answered(FALSE)
  /\ UNCHANGED <<board, port, events, g_periodic_ready, ufaults>>
  /\ UNCHANGED uhci /\ UNCHANGED reports

\* uhci_enumerate_port(): every transfer is waited for, or one fails; then
\* uhci_arm_periodic().
UhciPort(ok) ==
  /\ plan = <<"uhci">> /\ plan' = <<>>
  /\ ok \/ ufaults < MaxFaults
  /\ ufaults' = IF ok THEN ufaults ELSE ufaults + 1
  /\ IF ok /\ Wanted(port)
     THEN /\ armed' = armed \cup {port} /\ present' = classify_and_arm
          /\ g_periodic_td' = [g_periodic_td EXCEPT
               ![port] = [state |-> "active", toggle |-> g_periodic_toggle[port]]]
     ELSE UNCHANGED <<armed, present, g_periodic_td>>
  /\ UNCHANGED <<board, port, awaited, hwslot, rings, events, g_periodic_ready,
                 g_periodic_toggle, devtoggle>>
  /\ UNCHANGED reports

-----------------------------------------------------------------------------
(***************************************************************************)
(* The controllers.                                                        *)
(***************************************************************************)
\* xHCI: the next entry of a command or control ring; an error is reported
\* for the entry it happens at.
HcStep(r, good) ==
  LET ring == rings[r]
      speaks == ring.ioc[ring.deq] \/ ~good
  IN
  /\ r[1] # "hid" /\ Offered(ring)
  /\ (speaks => RoomForEvent) /\ (good \/ ufaults < MaxFaults)
  /\ rings' = [rings EXCEPT ![r] = IF good \/ r = Cmd THEN Taken(ring)
                                   ELSE [ring EXCEPT !.deq = ring.enqueue,
                                           !.hccycle = ring.cycle, !.owed = 0]]
  /\ events' = IF speaks THEN Posted(r, ring.deq, good) ELSE events
  /\ ufaults' = IF good THEN ufaults ELSE ufaults + 1
  /\ UNCHANGED <<board, g_periodic_ready>>
  /\ UNCHANGED booting /\ UNCHANGED uhci /\ UNCHANGED reports

MayReport(p) ==
  /\ delivered[p] < MaxReports
  /\ Strays \/ Booted
  /\ Overrun \/ p \notin unparsed

\* The report n of the device on p is in its buffer.
Delivers(p) ==
  /\ delivered' = [delivered EXCEPT ![p] = @ + 1]
  /\ g_buf' = [g_buf EXCEPT ![p] = delivered[p] + 1]
  /\ UNCHANGED <<unparsed, applied>>

\* xHCI: a report, or an error that ends the transfer.
HcReport(p, good) ==
  LET r == <<"hid", p>> IN
  /\ MayReport(p) /\ Offered(rings[r]) /\ RoomForEvent
  /\ good \/ (Strays /\ ufaults < MaxFaults)
  /\ rings' = [rings EXCEPT ![r] = Taken(@)]
  /\ events' = Posted(r, rings[r].deq, good)
  /\ IF good THEN Delivers(p) ELSE UNCHANGED reports
  /\ ufaults' = IF good THEN ufaults ELSE ufaults + 1
  /\ UNCHANGED <<board, g_periodic_ready>>
  /\ UNCHANGED booting /\ UNCHANGED uhci

\* UHCI: the device answers with its own toggle.  A packet with the wrong
\* one is acknowledged and thrown away.
UhciReport(p) ==
  LET td == g_periodic_td[p] IN
  /\ td.state = "active" /\ MayReport(p)
  /\ devtoggle' = [devtoggle EXCEPT ![p] = 1 - @]
  /\ IF td.toggle = devtoggle[p]
     THEN Delivers(p) /\ g_periodic_td' = [g_periodic_td EXCEPT ![p].state = "done"]
     ELSE /\ delivered' = [delivered EXCEPT ![p] = @ + 1]
          /\ UNCHANGED <<g_buf, unparsed, applied, g_periodic_td>>
  /\ UNCHANGED <<board, rings, events, g_periodic_ready, g_periodic_toggle, ufaults>>
  /\ UNCHANGED booting

\* UHCI: three attempts failed; nothing was acknowledged.
UhciError(p) ==
  /\ g_periodic_td[p].state = "active" /\ ufaults < MaxFaults
  /\ ufaults' = ufaults + 1
  /\ g_periodic_td' = [g_periodic_td EXCEPT ![p].state = "error"]
  /\ UNCHANGED <<board, rings, events, g_periodic_ready, g_periodic_toggle, devtoggle>>
  /\ UNCHANGED booting /\ UNCHANGED reports

-----------------------------------------------------------------------------
(***************************************************************************)
(* The timer interrupt: usb_hid_poll().                                    *)
(***************************************************************************)
\* (Mutant.) An event for one slot takes the flag of the other.
DrainSingle ==
  LET e == events.entry[events.dequeue] IN
  /\ Booted /\ try_consume_event
  /\ g_periodic_ready' = IF e.ok /\ e.ring[1] = "hid" /\ e.ring[2] \in armed
                         THEN {e.ring[2]} ELSE g_periodic_ready
  /\ UNCHANGED <<board, rings, ufaults>>
  /\ UNCHANGED booting /\ UNCHANGED uhci /\ UNCHANGED reports

\* drain_pending_events(), one event; an event with an error is skipped.
Drain ==
  LET e == events.entry[events.dequeue] IN
  /\ Booted /\ try_consume_event
  /\ g_periodic_ready' = IF e.ok /\ e.ring[1] = "hid" /\ e.ring[2] \in armed
                         THEN g_periodic_ready \cup {e.ring[2]}
                         ELSE g_periodic_ready
  /\ UNCHANGED <<board, rings, ufaults>>
  /\ UNCHANGED booting /\ UNCHANGED uhci /\ UNCHANGED reports

\* xhci_poll_periodic(), the events drained: the transfer is queued again.
xhci_poll_periodic(p) ==
  /\ Booted /\ events.entry[events.dequeue].cyc # events.cycle
  /\ p \in g_periodic_ready /\ p \notin unparsed
  /\ g_periodic_ready' = g_periodic_ready \ {p}
  /\ rings' = [rings EXCEPT ![<<"hid", p>>] = requeue_normal(@)]
  /\ unparsed' = unparsed \cup {p}
  /\ UNCHANGED <<board, events, g_buf, delivered, applied, ufaults>>
  /\ UNCHANGED booting /\ UNCHANGED uhci

\* (Mutant.) The toggle also advances after an error.
uhci_poll_periodic_toggling(p) ==
  LET td == g_periodic_td[p] IN
  /\ Booted /\ td.state \in {"done", "error"} /\ p \notin unparsed
  /\ g_periodic_toggle' = [g_periodic_toggle EXCEPT ![p] = 1 - @]
  /\ g_periodic_td' = [g_periodic_td EXCEPT
                         ![p] = [state |-> "active", toggle |-> g_periodic_toggle'[p]]]
  /\ unparsed' = IF td.state = "done" THEN unparsed \cup {p} ELSE unparsed
  /\ UNCHANGED <<board, rings, events, g_periodic_ready, devtoggle, g_buf, delivered,
                 applied, ufaults>>
  /\ UNCHANGED booting

\* uhci_poll_periodic() with rearm_from_cache().
uhci_poll_periodic(p) ==
  LET td == g_periodic_td[p] IN
  /\ Booted /\ td.state \in {"done", "error"} /\ p \notin unparsed
  /\ g_periodic_toggle' = IF td.state = "done"
                          THEN [g_periodic_toggle EXCEPT ![p] = 1 - @]
                          ELSE g_periodic_toggle
  /\ g_periodic_td' = [g_periodic_td EXCEPT
                         ![p] = [state |-> "active", toggle |-> g_periodic_toggle'[p]]]
  /\ unparsed' = IF td.state = "done" THEN unparsed \cup {p} ELSE unparsed
  /\ UNCHANGED <<board, rings, events, g_periodic_ready, devtoggle, g_buf, delivered,
                 applied, ufaults>>
  /\ UNCHANGED booting

\* The report is read from the buffer after the transfer was queued again.
Parse(p) ==
  /\ p \in unparsed /\ unparsed' = unparsed \ {p}
  /\ applied' = [applied EXCEPT ![p] = Append(@, g_buf[p])]
  /\ UNCHANGED <<board, rings, events, g_periodic_ready, g_buf, delivered, ufaults>>
  /\ UNCHANGED booting /\ UNCHANGED uhci

UsbNext ==
  \/ NextPort \/ Submit \/ WaitTakes \/ WaitFails \/ Drain
  \/ \E ok \in BOOLEAN :
       \/ UhciPort(ok)
       \/ \E r \in DOMAIN rings : HcStep(r, ok)
       \/ \E p \in Ports : HcReport(p, ok)
  \/ \E p \in Ports :
       UhciReport(p) \/ UhciError(p) \/ xhci_poll_periodic(p)
       \/ uhci_poll_periodic(p) \/ Parse(p)

UsbSpec == UsbInit /\ [][UsbNext]_uvars

-----------------------------------------------------------------------------
\* The controller sees as new exactly the entries it has not taken, whatever
\* the wraps and the cycle bits (ring_enqueue).
RingsAgree == \A r \in DOMAIN rings : Offered(rings[r]) <=> rings[r].owed > 0

\* Every report a device sent is applied once and in order: none is skipped,
\* none is parsed twice.
ReportsApplied ==
  \A p \in Ports :
    /\ \A i \in DOMAIN applied[p] : applied[p][i] = i
    /\ delivered[p] <= Len(applied[p]) + 1

\* xhci.c: "any other event seen along the way is a stray (this driver never
\* has more than one command/transfer genuinely outstanding)": a device that
\* was armed always has a transfer queued, an event on its way or a report
\* ready, so it is never silent for good.
TransferOutstanding ==
  \A p \in armed :
    \/ board[p].hc = "uhci"
    \/ rings[<<"hid", p>>].owed > 0
    \/ p \in g_periodic_ready
    \/ \E i \in DOMAIN events.entry :
         /\ events.entry[i].ring = <<"hid", p>>
         /\ events.hcenq # events.dequeue
         /\ (i - events.dequeue) % RING_SIZE < (events.hcenq - events.dequeue) % RING_SIZE

=============================================================================
