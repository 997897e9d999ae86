------------------------------ MODULE Desktop -------------------------------
(***************************************************************************)
(* Two user programs: the desktop shell (desktop_shell.c) with its menu    *)
(* and its clock, and the RTC driver (rtc_driver.c) it asks for time and   *)
(* date over two one-slot channels.  Both run preemptibly; each system     *)
(* call is a step.  The mouse moves and clicks at any point, and the clock *)
(* chip counts on.                                                         *)
(***************************************************************************)
EXTENDS Naturals, Sequences, FiniteSets

CONSTANTS
  Menu,         \* the applications of the popup, in the order they are polled
  Starts,       \* instants the clock chip may start from: <<h, m, s, day, month, year>>
  MaxTicks,     \* seconds the chip counts
  MaxPresses,   \* presses of the mouse button
  Drag,         \* the mouse may move while its button is down
  Torn          \* the chip may count on between two registers of one reading

VARIABLES
  chip,      \* the RTC: [now, bcd, h24]
  driver,    \* rtc_driver.c: [pc, op, got]
  requests, replies,   \* the channels: a sequence of at most one message
  mouse,     \* [at, down]
  desk,      \* desktop_shell.c
  popups,    \* windows open as a menu
  spawned,   \* how often each application was started
  press,     \* history: where the last press was, and the buttons it clicked
  seen,      \* history: the instants since the pending request was sent
  ticks, presses

desktopvars == <<chip, driver, requests, replies, mouse, desk, popups, spawned, press,
                 seen, ticks, presses>>

MENU == "MENU"
Apps == {Menu[i] : i \in DOMAIN Menu}
Buttons == Apps \cup {MENU}
Spots == Buttons \cup {"elsewhere"}

DesktopInit ==
  /\ chip \in [now : Starts, bcd : BOOLEAN, h24 : BOOLEAN]
  /\ driver = [pc |-> "receive", op |-> "time", got |-> <<>>]
  /\ requests = <<>> /\ replies = <<>>
  /\ mouse = [at |-> "elsewhere", down |-> FALSE]
  /\ desk = [pc |-> "launcher", item |-> 1, popup |-> FALSE,
             was_down |-> [b \in Buttons |-> FALSE], open |-> [a \in Apps |-> FALSE],
             time |-> <<>>, date |-> <<>>]
  /\ popups = 0
  /\ spawned = [a \in Apps |-> 0]
  /\ press = [at |-> "elsewhere", clicks |-> <<>>]
  /\ seen = {}
  /\ ticks = 0 /\ presses = 0

-----------------------------------------------------------------------------
(***************************************************************************)
(* The clock chip.  It keeps its registers in BCD or in binary, the hour   *)
(* on 12 or on 24 hours with the PM bit; days roll over at the year's end. *)
(***************************************************************************)
Later(t) ==
  LET s == t[3] + 1  m == t[2] + (s \div 60)  h == t[1] + (m \div 60)
      day == IF h < 24 THEN <<t[4], t[5], t[6]>>
             ELSE IF t[4] = 31 /\ t[5] = 12 THEN <<1, 1, (t[6] + 1) % 100>>
             ELSE <<t[4] + 1, t[5], t[6]>>
  IN  <<h % 24, m % 60, s % 60>> \o day

Bcd(v) == (v \div 10) * 16 + (v % 10)
Coded(v) == IF chip.bcd THEN Bcd(v) ELSE v
HOUR_PM_BIT == 128
HourRegister(h) ==
  IF chip.h24 THEN Coded(h)
  ELSE Coded(IF h % 12 = 0 THEN 12 ELSE h % 12) + (IF h >= 12 THEN HOUR_PM_BIT ELSE 0)

\* The register at place i of the instant.
Register(i) == IF i = 1 THEN HourRegister(chip.now[1]) ELSE Coded(chip.now[i])

Reading == driver.pc = "read"

Tick ==
  /\ ticks < MaxTicks
  /\ Reading => Torn
  /\ ticks' = ticks + 1
  /\ chip' = [chip EXCEPT !.now = Later(@)]
  /\ seen' = IF desk.pc \in {"time", "date"} THEN seen \cup {chip'.now} ELSE seen
  /\ UNCHANGED <<driver, requests, replies, mouse, desk, popups, spawned, press, presses>>

-----------------------------------------------------------------------------
(***************************************************************************)
(* rtc_driver.c.                                                           *)
(***************************************************************************)
\* gt_channel_receive_msg() returns when there is a message.
DriverReceive ==
  /\ driver.pc = "receive"
  /\ requests # <<>>
  /\ driver' = [driver EXCEPT !.pc = "wait", !.op = Head(requests), !.got = <<>>]
  /\ requests' = <<>>
  /\ UNCHANGED <<chip, replies, mouse, desk, popups, spawned, press, seen, ticks, presses>>

\* The update-in-progress bit is clear, or was polled often enough.
wait_for_update_complete ==
  /\ driver.pc = "wait"
  /\ driver' = [driver EXCEPT !.pc = "read"]
  /\ UNCHANGED <<chip, requests, replies, mouse, desk, popups, spawned, press, seen, ticks,
                 presses>>

\* seconds, minutes, hours; or day, month, year.
Order(op) == IF op = "time" THEN <<3, 2, 1>> ELSE <<4, 5, 6>>

cmos_read ==
  /\ driver.pc = "read"
  /\ LET n == Len(driver.got) + 1
         got == Append(driver.got, Register(Order(driver.op)[n]))
     IN  driver' = [driver EXCEPT !.got = got, !.pc = IF n = 3 THEN "reply" ELSE @]
  /\ UNCHANGED <<chip, requests, replies, mouse, desk, popups, spawned, press, seen, ticks,
                 presses>>

bcd_to_binary(v) == (v \div 16) * 10 + (v % 16)
Decoded(v) == IF chip.bcd THEN bcd_to_binary(v) ELSE v

\* (Mutant.) Noon and midnight are forgotten.
HourOfTwelveFlat(hour, is_pm) == IF is_pm THEN hour + 12 ELSE hour
HourOfTwelve(hour, is_pm) ==
  IF is_pm /\ hour # 12 THEN hour + 12
  ELSE IF ~is_pm /\ hour = 12 THEN 0
  ELSE hour

\* raw_hours without the PM bit, then out of BCD, then onto 24 hours.
Hour(raw) ==
  LET hour == Decoded(raw % HOUR_PM_BIT)
  IN  IF chip.h24 THEN hour ELSE HourOfTwelve(hour, raw >= HOUR_PM_BIT)

read_time(got) == <<Hour(got[3]), Decoded(got[2]), Decoded(got[1])>>
read_date(got) == <<Decoded(got[1]), Decoded(got[2]), 2000 + Decoded(got[3])>>

\* gt_channel_send_msg() into a slot that is free; into a full one it is refused.
Sent(channel, msg) == IF channel = <<>> THEN <<msg>> ELSE channel

DriverReply ==
  /\ driver.pc = "reply"
  /\ replies' = Sent(replies, [op |-> driver.op,
                               v |-> IF driver.op = "time" THEN read_time(driver.got)
                                                           ELSE read_date(driver.got)])
  /\ driver' = [driver EXCEPT !.pc = "receive"]
  /\ UNCHANGED <<chip, requests, mouse, desk, popups, spawned, press, seen, ticks, presses>>

-----------------------------------------------------------------------------
(***************************************************************************)
(* The mouse (external).                                                   *)
(***************************************************************************)
MoveMouse(at) ==
  /\ mouse.down => Drag
  /\ at # mouse.at
  /\ mouse' = [mouse EXCEPT !.at = at]
  /\ UNCHANGED <<chip, driver, requests, replies, desk, popups, spawned, press, seen, ticks,
                 presses>>

PressMouse ==
  /\ ~mouse.down
  /\ presses < MaxPresses
  /\ presses' = presses + 1
  /\ mouse' = [mouse EXCEPT !.down = TRUE]
  /\ press' = [at |-> mouse.at, clicks |-> <<>>]
  /\ UNCHANGED <<chip, driver, requests, replies, desk, popups, spawned, seen, ticks>>

ReleaseMouse ==
  /\ mouse.down
  /\ mouse' = [mouse EXCEPT !.down = FALSE]
  /\ UNCHANGED <<chip, driver, requests, replies, desk, popups, spawned, press, seen, ticks,
                 presses>>

-----------------------------------------------------------------------------
(***************************************************************************)
(* The main loop of desktop_shell.c.  Each button is polled by a call of   *)
(* its own and keeps its own was_down.                                     *)
(***************************************************************************)
\* (Mutant.) A held button clicks again at every poll.
button_poll_held(b) == mouse.at = b /\ mouse.down
button_poll(b) == mouse.at = b /\ mouse.down /\ ~desk.was_down[b]

Polled(b) == [desk.was_down EXCEPT ![b] = mouse.down]
Clicked(b) == press' = [press EXCEPT !.clicks = Append(@, b)]

\* button_init() of the six items forgets what the mouse does.
Fresh(was_down) == [b \in Buttons |-> IF b = MENU THEN was_down[b] ELSE FALSE]

\* The window table may be full: gt_window_create_borderless() returns -1.
OpenPopup ==
  /\ desk.pc = "launcher" /\ button_poll(MENU) /\ ~desk.popup
  /\ \E created \in BOOLEAN :
       /\ popups' = IF created THEN popups + 1 ELSE popups
       /\ desk' = [desk EXCEPT !.popup = created, !.was_down = Fresh(Polled(MENU)),
                               !.item = 1, !.pc = IF created THEN "items" ELSE "clock"]
  /\ Clicked(MENU)
  /\ UNCHANGED <<chip, driver, requests, replies, mouse, spawned, seen, ticks, presses>>

ClosePopup ==
  /\ desk.pc = "launcher" /\ button_poll(MENU) /\ desk.popup
  /\ popups' = popups - 1
  /\ desk' = [desk EXCEPT !.popup = FALSE, !.was_down = Polled(MENU), !.pc = "clock"]
  /\ Clicked(MENU)
  /\ UNCHANGED <<chip, driver, requests, replies, mouse, spawned, seen, ticks, presses>>

LauncherIdle ==
  /\ desk.pc = "launcher" /\ ~button_poll(MENU)
  /\ desk' = [desk EXCEPT !.was_down = Polled(MENU), !.item = 1,
                          !.pc = IF desk.popup THEN "items" ELSE "clock"]
  /\ UNCHANGED <<chip, driver, requests, replies, mouse, popups, spawned, press, seen, ticks,
                 presses>>

\* (Mutant.) The single-instance guard is missing.
ToSpawnAgain(a) == TRUE
ToSpawn(a) == ~desk.open[a]

\* The guard is set whether or not gt_spawn_app() found room for a process.
ClickItem ==
  /\ desk.pc = "items"
  /\ LET a == Menu[desk.item]
     IN  /\ button_poll(a)
         /\ spawned' \in IF ToSpawn(a)
                         THEN {spawned, [spawned EXCEPT ![a] = @ + 1]}
                         ELSE {spawned}
         /\ desk' = [desk EXCEPT !.was_down = Polled(a), !.open[a] = TRUE,
                                 !.popup = FALSE, !.pc = "clock"]
         /\ Clicked(a)
  /\ popups' = popups - 1
  /\ UNCHANGED <<chip, driver, requests, replies, mouse, seen, ticks, presses>>

ItemIdle ==
  /\ desk.pc = "items" /\ ~button_poll(Menu[desk.item])
  /\ desk' = [desk EXCEPT !.was_down = Polled(Menu[desk.item]),
                          !.item = IF @ = Len(Menu) THEN 1 ELSE @ + 1,
                          !.pc = IF desk.item = Len(Menu) THEN "clock" ELSE @]
  /\ UNCHANGED <<chip, driver, requests, replies, mouse, popups, spawned, press, seen, ticks,
                 presses>>

\* Less than UPTIME_REDRAW_TICK_INTERVAL since the last drawing, which there
\* always is before the first.
ClockLater ==
  /\ desk.pc = "clock" /\ desk.time # <<>>
  /\ desk' = [desk EXCEPT !.pc = "launcher"]
  /\ UNCHANGED <<chip, driver, requests, replies, mouse, popups, spawned, press, seen, ticks,
                 presses>>

\* The sending half of gt_get_time() or gt_get_date().
Ask(from, op, to) ==
  /\ desk.pc = from
  /\ requests' = Sent(requests, op)
  /\ seen' = {chip.now}
  /\ desk' = [desk EXCEPT !.pc = to]
  /\ UNCHANGED <<chip, driver, replies, mouse, popups, spawned, press, ticks, presses>>

AskTime == Ask("clock", "time", "time")
AskDate == Ask("drawn", "date", "date")

BELGRADE_UTC_OFFSET_HOURS == 2
Belgrade(hour) == (hour + BELGRADE_UTC_OFFSET_HOURS) % 24

\* gt_get_time() takes the answer for the time, whatever it is.
ShowTime ==
  /\ desk.pc = "time" /\ replies # <<>>
  /\ LET v == Head(replies).v
     IN  desk' = [desk EXCEPT !.time = <<Belgrade(v[1]), v[2], v[3]>>, !.pc = "drawn"]
  /\ replies' = <<>>
  /\ UNCHANGED <<chip, driver, requests, mouse, popups, spawned, press, seen, ticks, presses>>

ShowDate ==
  /\ desk.pc = "date" /\ replies # <<>>
  /\ desk' = [desk EXCEPT !.date = Head(replies).v, !.pc = "launcher"]
  /\ replies' = <<>>
  /\ UNCHANGED <<chip, driver, requests, mouse, popups, spawned, press, seen, ticks, presses>>

DesktopNext ==
  \/ Tick
  \/ DriverReceive \/ wait_for_update_complete \/ cmos_read \/ DriverReply
  \/ \E at \in Spots : MoveMouse(at)
  \/ PressMouse \/ ReleaseMouse
  \/ OpenPopup \/ ClosePopup \/ LauncherIdle
  \/ ClickItem \/ ItemIdle
  \/ ClockLater \/ AskTime \/ ShowTime \/ AskDate \/ ShowDate

-----------------------------------------------------------------------------
\* The channels of one slot, the buttons and the steps of the two programs.
DesktopTypeOK ==
  /\ Len(requests) <= 1 /\ Len(replies) <= 1
  /\ driver.pc \in {"receive", "wait", "read", "reply"} /\ Len(driver.got) <= 3
  /\ mouse.at \in Spots
  /\ desk.pc \in {"launcher", "items", "clock", "time", "drawn", "date"}
  /\ desk.was_down \in [Buttons -> BOOLEAN]
  /\ desk.open \in [Apps -> BOOLEAN]

\* What the taskbar shows is an instant between the request to rtc_driver.c and
\* its answer, in Belgrade's hours, in whatever format the chip counts: the
\* requests and answers of the two channels never get out of step.
ShownIsCurrent ==
  /\ desk.pc = "drawn" => \E t \in seen : desk.time = <<Belgrade(t[1]), t[2], t[3]>>
  /\ desk.pc \in {"launcher", "items", "clock"} /\ desk.date # <<>>
       => \E t \in seen : desk.date = <<t[4], t[5], 2000 + t[6]>>
  /\ desk.pc = "time" => \A r \in {replies[i] : i \in DOMAIN replies} : r.op = "time"
  /\ desk.pc = "date" => \A r \in {replies[i] : i \in DOMAIN replies} : r.op = "date"

\* A press of the mouse clicks one button at most, the one it was made on, over
\* polls of several buttons and a menu that opens and closes in between
\* (button_poll()); a click opens and closes one popup window, and an application
\* is started once at most (desktop_shell.c).
ClicksOnce ==
  /\ press.clicks \in {<<>>, <<press.at>>}
  /\ popups = IF desk.popup THEN 1 ELSE 0
  /\ \A a \in Apps : spawned[a] <= 1
=============================================================================
