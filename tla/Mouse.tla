-------------------------------- MODULE Mouse -------------------------------
(***************************************************************************)
(* The PS/2 mouse: mouse.c, interrupt 44 of isr.c, and the two places that *)
(* take the wheel movement (the timer tick and the shell's mouse command). *)
(* The 8042 controller hands bytes of keyboard and mouse, in the order they*)
(* come, through one output buffer.                                        *)
(***************************************************************************)
EXTENDS Integers, Sequences, FiniteSets

CONSTANTS
  Width, Height,       \* 800 and 600
  Moves,               \* what the hand does: [dx, dy, buttons, wheel]
  Noise,               \* bytes that may follow the start of the reports
  Callers,             \* a subset of {"syscall", "shell"}: who calls mouse_init()
  KeysInInit,          \* keys are pressed while mouse_init() polls
  MovesInSettling,     \* the mouse moves before mouse_init() has realigned
  WheelOverlap,        \* interrupts come while the shell takes the wheel movement
  MaxMoves, MaxNoise

VARIABLES
  obuf,                \* what port 0x60 will give: [from, v]
  dev,                 \* the mouse: [wheel, rates, reporting]
  init,                \* mouse_init(): [caller, at, config, pc]
  g_mouse_has_wheel,
  g_packet,            \* g_packet[0 .. g_packet_index - 1]
  g_mouse,             \* g_mouse_x, g_mouse_y, g_mouse_buttons
  g_mouse_wheel_delta,
  shell,               \* the wheel movement the shell has read and not cleared
  taken,               \* the sum of what mouse_take_wheel_delta() returned
  hand,                \* where the movements reported since the start lead
  moved, noise

mousevars == <<obuf, dev, init, g_mouse_has_wheel, g_packet, g_mouse,
               g_mouse_wheel_delta, shell, taken, hand, moved, noise>>

ACK == 250
Mine(v) == [from |-> "mouse", v |-> v]
Clamp(v, top) == IF v < 0 THEN 0 ELSE IF v > top THEN top ELSE v

-----------------------------------------------------------------------------
(***************************************************************************)
(* The device.  It answers every byte with an acknowledgement, gives 3 as  *)
(* its identity after the rates 200, 100 and 80 if it has a wheel, and     *)
(* sends a fourth byte with each report from then on.                      *)
(***************************************************************************)
FourBytes == dev.wheel /\ dev.rates = <<200, 100, 80>>

Answer(byte) ==
  /\ dev' = [dev EXCEPT !.rates = IF byte = 246 THEN <<>>
                                  ELSE IF byte \in {200, 100, 80} THEN Append(@, byte) ELSE @,
                        !.reporting = @ \/ byte = 244]
  /\ obuf' = obuf \o <<Mine(ACK)>>
                  \o (IF byte = 242 THEN <<Mine(IF FourBytes THEN 3 ELSE 0)>> ELSE <<>>)

\* The first byte has bit 3 set and the signs; movements are nine bits wide.
Packet(m) ==
  <<Mine(8 + m.buttons + (IF m.dx < 0 THEN 16 ELSE 0) + (IF m.dy < 0 THEN 32 ELSE 0)),
    Mine(m.dx % 256), Mine(m.dy % 256)>>
  \o (IF FourBytes THEN <<Mine(m.wheel % 256)>> ELSE <<>>)

Move(m) ==
  /\ dev.reporting /\ moved < MaxMoves
  /\ MovesInSettling \/ init.pc = "up"
  /\ WheelOverlap \/ shell = <<>>
  /\ obuf' = obuf \o Packet(m)
  /\ hand' = [x |-> Clamp(hand.x + m.dx, Width - 1), y |-> Clamp(hand.y - m.dy, Height - 1),
              buttons |-> m.buttons, wheel |-> hand.wheel + (IF FourBytes THEN m.wheel ELSE 0)]
  /\ moved' = moved + 1
  /\ UNCHANGED <<dev, init, g_mouse_has_wheel, g_packet, g_mouse, g_mouse_wheel_delta,
                 shell, taken, noise>>

\* A stray byte shortly after reporting was enabled.
Stray(v) ==
  /\ dev.reporting /\ init.pc = "settle" /\ noise < MaxNoise
  /\ obuf' = Append(obuf, Mine(v)) /\ noise' = noise + 1
  /\ UNCHANGED <<dev, init, g_mouse_has_wheel, g_packet, g_mouse, g_mouse_wheel_delta,
                 shell, taken, hand, moved>>

Key ==
  /\ noise < MaxNoise
  /\ init.pc = "up" \/ (KeysInInit /\ init.pc \in {"write", "read"})
  /\ obuf' = Append(obuf, [from |-> "keyboard", v |-> 30]) /\ noise' = noise + 1
  /\ UNCHANGED <<dev, init, g_mouse_has_wheel, g_packet, g_mouse, g_mouse_wheel_delta,
                 shell, taken, hand, moved>>

\* Interrupt 33, which a system call keeps out.
TakeKey ==
  /\ obuf # <<>> /\ Head(obuf).from = "keyboard"
  /\ init.caller = "shell" \/ init.pc \in {"settle", "up"}
  /\ obuf' = Tail(obuf)
  /\ UNCHANGED <<dev, init, g_mouse_has_wheel, g_packet, g_mouse, g_mouse_wheel_delta,
                 shell, taken, hand, moved, noise>>

-----------------------------------------------------------------------------
(***************************************************************************)
(* mouse_init(): bytes written and answers polled, in this order.  The     *)
(* first is for the controller, whose configuration is read, changed and   *)
(* written back; the identity takes a second reading.                      *)
(***************************************************************************)
Script == <<32, 246, 243, 200, 243, 100, 243, 80, 242, 242, 244>>

\* The first call; every later one returns at once.
mouse_init(c) ==
  /\ init.pc = "off" /\ init' = [init EXCEPT !.caller = c, !.pc = "write"]
  /\ UNCHANGED <<obuf, dev, g_mouse_has_wheel, g_packet, g_mouse, g_mouse_wheel_delta,
                 shell, taken, hand, moved, noise>>

mouse_write ==
  /\ init.pc = "write"
  /\ init' = [init EXCEPT !.pc = "read"]
  /\ CASE init.at = 1 -> obuf' = Append(obuf, [from |-> "controller", v |-> 69]) /\ UNCHANGED dev
       [] init.at = 10 -> UNCHANGED <<obuf, dev>>
       [] init.at \notin {1, 10} -> Answer(Script[init.at])
  /\ UNCHANGED <<g_mouse_has_wheel, g_packet, g_mouse, g_mouse_wheel_delta, shell, taken,
                 hand, moved, noise>>

\* (Mutant.) The acknowledgement of 0xF2 is taken for the identity.
IdentityReadingFirst == 9
IdentityReading == 10

\* data_read() does not ask whose byte it takes.  Interrupt 12 is let through
\* after the last answer.
data_read ==
  /\ init.pc = "read" /\ obuf # <<>>
  /\ obuf' = Tail(obuf)
  /\ init' = [init EXCEPT !.config = IF init.at = 1 THEN Head(obuf).v ELSE @,
                          !.at = @ + 1,
                          !.pc = IF init.at = Len(Script) THEN "settle" ELSE "write"]
  /\ g_mouse_has_wheel' =
       IF init.at = IdentityReading THEN Head(obuf).v = 3 ELSE g_mouse_has_wheel
  /\ UNCHANGED <<dev, g_packet, g_mouse, g_mouse_wheel_delta, shell, taken, hand, moved,
                 noise>>

\* (Mutant.) The bytes that came while the mouse settled stay in the packet.
RealignedNot == g_packet
Realigned == <<>>

\* The end of sleep_ticks(5); what the start gave rise to has come by then.
Settled ==
  /\ init.pc = "settle"
  /\ MovesInSettling \/ obuf = <<>>
  /\ g_packet' = Realigned
  /\ init' = [init EXCEPT !.pc = "up"]
  /\ hand' = [g_mouse EXCEPT !.wheel = g_mouse_wheel_delta + taken]
  /\ UNCHANGED <<obuf, dev, g_mouse_has_wheel, g_mouse, g_mouse_wheel_delta, shell, taken,
                 moved, noise>>

-----------------------------------------------------------------------------
Signed(v, negative) == IF negative THEN v - 256 ELSE v
Bit(v, n) == (v \div 2 ^ n) % 2 = 1

\* A complete packet: position, buttons and wheel, which is a signed byte.
Applied(p) ==
  /\ g_mouse' = [g_mouse EXCEPT
                   !.x = Clamp(@ + Signed(p[2], Bit(p[1], 4)), Width - 1),
                   !.y = Clamp(@ - Signed(p[3], Bit(p[1], 5)), Height - 1),
                   !.buttons = p[1] % 8]
  /\ g_mouse_wheel_delta' =
       g_mouse_wheel_delta + (IF g_mouse_has_wheel THEN Signed(p[4], Bit(p[4], 7)) ELSE 0)

\* Interrupt 44 with the byte at the port.
mouse_handle_byte ==
  /\ init.pc \in {"settle", "up"} /\ obuf # <<>> /\ Head(obuf).from = "mouse"
  /\ obuf' = Tail(obuf)
  /\ LET byte == Head(obuf).v
         p == Append(g_packet, byte)
     IN  IF g_packet = <<>> /\ ~Bit(byte, 3)
         THEN UNCHANGED <<g_packet, g_mouse, g_mouse_wheel_delta>>
         ELSE IF Len(p) < (IF g_mouse_has_wheel THEN 4 ELSE 3)
         THEN g_packet' = p /\ UNCHANGED <<g_mouse, g_mouse_wheel_delta>>
         ELSE g_packet' = <<>> /\ Applied(p)
  /\ UNCHANGED <<dev, init, g_mouse_has_wheel, shell, taken, hand, moved, noise>>

\* mouse_take_wheel_delta() in the timer interrupt.
TickTakesWheel ==
  /\ g_mouse_wheel_delta # 0 /\ (WheelOverlap \/ shell = <<>>)
  /\ taken' = taken + g_mouse_wheel_delta /\ g_mouse_wheel_delta' = 0
  /\ UNCHANGED <<obuf, dev, init, g_mouse_has_wheel, g_packet, g_mouse, shell, hand, moved,
                 noise>>

\* The same in the shell, where an interrupt may come between reading and
\* clearing.
ShellReadsWheel ==
  /\ init.pc = "up" /\ shell = <<>> /\ g_mouse_wheel_delta # 0
  /\ WheelOverlap \/ obuf = <<>>
  /\ shell' = <<g_mouse_wheel_delta>>
  /\ UNCHANGED <<obuf, dev, init, g_mouse_has_wheel, g_packet, g_mouse,
                 g_mouse_wheel_delta, taken, hand, moved, noise>>

ShellClearsWheel ==
  /\ shell # <<>>
  /\ taken' = taken + shell[1] /\ g_mouse_wheel_delta' = 0 /\ shell' = <<>>
  /\ UNCHANGED <<obuf, dev, init, g_mouse_has_wheel, g_packet, g_mouse, hand, moved, noise>>

-----------------------------------------------------------------------------
MouseInit ==
  /\ obuf = <<>> /\ shell = <<>> /\ g_packet = <<>>
  /\ \E w \in BOOLEAN : dev = [wheel |-> w, rates |-> <<>>, reporting |-> FALSE]
  /\ init = [caller |-> "nobody", at |-> 1, config |-> 0, pc |-> "off"]
  /\ g_mouse_has_wheel = FALSE
  /\ g_mouse = [x |-> Width \div 2, y |-> Height \div 2, buttons |-> 0, wheel |-> 0]
  /\ g_mouse_wheel_delta = 0 /\ taken = 0 /\ moved = 0 /\ noise = 0
  /\ hand = g_mouse

MouseNext ==
  \/ \E m \in Moves : Move(m)
  \/ \E v \in Noise : Stray(v)
  \/ Key \/ TakeKey
  \/ \E c \in Callers : mouse_init(c)
  \/ mouse_write \/ data_read \/ Settled \/ mouse_handle_byte
  \/ TickTakesWheel \/ ShellReadsWheel \/ ShellClearsWheel

-----------------------------------------------------------------------------
\* Buttons, position and packets stay inside their ranges.
MouseTypeOK ==
  /\ g_mouse.x \in 0 .. Width - 1 /\ g_mouse.y \in 0 .. Height - 1
  /\ g_mouse.buttons \in 0 .. 7 /\ Len(g_packet) \in 0 .. 3

\* mouse_init() knows whether the mouse sends three or four bytes, so that from
\* then on position, buttons and wheel follow the hand: no packet is framed
\* wrongly after any noise of the start, none counts twice, and no wheel movement
\* is lost between the interrupt that adds it and those who take it.
MouseFollowsHand ==
  init.pc = "up" =>
    /\ g_mouse_has_wheel = FourBytes
    /\ obuf = <<>> => /\ g_packet = <<>>
                      /\ g_mouse = [hand EXCEPT !.wheel = 0]
                      /\ shell = <<>> => taken + g_mouse_wheel_delta = hand.wheel
=============================================================================
