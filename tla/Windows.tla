------------------------------- MODULE Windows -------------------------------
(***************************************************************************)
(* The window table, z-order, focus and input queue of                     *)
(* kernel/gfx/window/window.c, with the system calls of                    *)
(* kernel/syscall/handlers/window.c and the interrupt handlers of          *)
(* kernel/isr/isr.c that drive them: the timer (mouse) and the keyboard.   *)
(*                                                                         *)
(* Interrupt handlers and system calls are atomic; the shell's exit        *)
(* command runs with interrupts on and is two steps.  Lengths are in units *)
(* of which a titlebar, an icon and the resize handle take one.            *)
(***************************************************************************)
EXTENDS Integers, Sequences, FiniteSets, SequencesExt

CONSTANTS
  WINDOW_SLOTS, FbWidth, FbHeight, TaskbarReserve, MinWidth, MinHeight,
  WINDOW_KEY_QUEUE_SIZE,
  Shapes,          \* the bounds applications ask for
  Points,          \* where the mouse is seen
  MaxSteps, MaxEvents      \* bounds

VARIABLES
  g_windows, g_window_zorder, g_focused_window_id, g_terminal_window_id,
  queue, head, tail,       \* the event ring
  raised,                  \* history: for which window each event was raised
  popped,                  \* history: the event last read, and by which window
  wm,                      \* the drag or resize under way
  buttons,                 \* left button: now, and as each edge detector saw it
  exiting,                 \* the window cmd_exit() has passed to window_close()
  steps

wvars == <<g_windows, g_window_zorder, g_focused_window_id,
           g_terminal_window_id, queue, head, tail, raised, popped, wm, buttons,
           exiting, steps>>
input == <<queue, head, tail, raised, popped>>

Ids == 0..WINDOW_SLOTS - 1
Box(x, y, w, h) == [x |-> x, y |-> y, w |-> w, h |-> h]
Free == [used |-> FALSE, at |-> Box(0, 0, 0, 0), restore |-> Box(0, 0, 0, 0),
         borderless |-> FALSE, minimized |-> FALSE, maximized |-> FALSE,
         fullscreen |-> FALSE, drawn |-> FALSE]
Idle == [mode |-> "idle", target |-> -1, dx |-> 0, dy |-> 0, w |-> 0, h |-> 0]

WindowsInit ==
  /\ g_windows = [i \in Ids |-> Free] /\ g_window_zorder = <<>>
  /\ g_focused_window_id = -1 /\ g_terminal_window_id = -1
  /\ queue = [i \in 0..WINDOW_KEY_QUEUE_SIZE - 1 |-> 0] /\ head = 0 /\ tail = 0
  /\ raised = <<>> /\ popped = [event |-> 0, by |-> -1]
  /\ wm = Idle /\ buttons = [now |-> FALSE, wm |-> FALSE, app |-> FALSE]
  /\ exiting = -1 /\ steps = 0

\* Ids name slots and indices lie inside the ring.
WindowsTypeOK ==
  /\ ToSet(g_window_zorder) \subseteq Ids
  /\ {g_focused_window_id, g_terminal_window_id, exiting, wm.target}
       \subseteq Ids \cup {-1}
  /\ {head, tail} \subseteq 0..WINDOW_KEY_QUEUE_SIZE - 1

Step == steps < MaxSteps /\ steps' = steps + 1

-----------------------------------------------------------------------------
(***************************************************************************)
(* The table.                                                              *)
(***************************************************************************)
fits_on_screen(b) == /\ b.x >= 0 /\ b.y >= 0
                     /\ b.x + b.w <= FbWidth /\ b.y + b.h <= FbHeight

\* The content buffer of a window is as large as the screen.
BodyFits(b, borderless) ==
  /\ b.w <= FbWidth
  /\ IF borderless THEN b.h <= FbHeight ELSE b.h > 1 /\ b.h - 1 <= FbHeight

FreeIds == {i \in Ids : ~g_windows[i].used}

\* window_create() and window_create_borderless(); the new window is on top.
window_create(b, borderless) ==
  LET id == CHOOSE i \in FreeIds : \A j \in FreeIds : i <= j IN
  /\ Step /\ FreeIds # {} /\ BodyFits(b, borderless) /\ fits_on_screen(b)
  /\ g_windows' = [g_windows EXCEPT ![id] =
                     [Free EXCEPT !.used = TRUE, !.at = b,
                                  !.borderless = borderless]]
  /\ g_window_zorder' = Append(g_window_zorder, id)
  /\ UNCHANGED <<g_focused_window_id, g_terminal_window_id, wm, buttons, exiting>>
  /\ UNCHANGED input

\* (Mutant.) A window gone from the z-order is not noticed: all are shifted.
ClosedBlind(t, id) ==
  [windows |-> [t.windows EXCEPT ![id].used = FALSE, ![id].drawn = FALSE],
   zorder |-> CASE id \in ToSet(t.zorder) -> Remove(t.zorder, id)
                [] t.zorder = <<>> -> <<>>
                [] OTHER -> Tail(t.zorder)]

\* The tables t after window_close(id) and after window_raise(id).
Closed(t, id) ==
  IF ~t.windows[id].used \/ id \notin ToSet(t.zorder) THEN t
  ELSE [windows |-> [t.windows EXCEPT ![id].used = FALSE, ![id].drawn = FALSE],
        zorder |-> Remove(t.zorder, id)]
Raised(t, id) ==
  IF ~t.windows[id].used \/ id \notin ToSet(t.zorder) THEN t
  ELSE [t EXCEPT !.zorder = Append(Remove(@, id), id)]

Tables == [windows |-> g_windows, zorder |-> g_window_zorder]
TablesBecome(t) == g_windows' = t.windows /\ g_window_zorder' = t.zorder

window_close(id) ==
  /\ Step /\ g_windows[id].used
  /\ TablesBecome(Closed(Tables, id))
  /\ UNCHANGED <<g_focused_window_id, g_terminal_window_id, wm, buttons, exiting>>
  /\ UNCHANGED input

window_raise(id) ==
  /\ Step /\ g_windows[id].used
  /\ TablesBecome(Raised(Tables, id))
  /\ UNCHANGED <<g_focused_window_id, g_terminal_window_id, wm, buttons, exiting>>
  /\ UNCHANGED input

\* The windows after window_move() and window_resize() (unchanged when refused).
Moved(ws, id, x, y) ==
  LET b == [ws[id].at EXCEPT !.x = x, !.y = y] IN
  IF ws[id].used /\ fits_on_screen(b) THEN [ws EXCEPT ![id].at = b] ELSE ws

\* (Mutant.) A resize forgets that the window may have been maximized since.
ResizedAnyway(ws, id, w, h) ==
  LET b == [ws[id].at EXCEPT !.w = w, !.h = h] IN
  IF ws[id].used /\ BodyFits(b, ws[id].borderless)
  THEN [ws EXCEPT ![id].at = b] ELSE ws

Resized(ws, id, w, h) ==
  LET b == [ws[id].at EXCEPT !.w = w, !.h = h] IN
  IF /\ ws[id].used /\ ~ws[id].maximized /\ ~ws[id].fullscreen
     /\ BodyFits(b, ws[id].borderless) /\ fits_on_screen(b)
  THEN [ws EXCEPT ![id].at = b] ELSE ws

window_move(id, x, y) ==
  /\ Step /\ g_windows[id].used
  /\ g_windows' = Moved(g_windows, id, x, y)
  /\ UNCHANGED <<g_window_zorder, g_focused_window_id, g_terminal_window_id, wm,
                 buttons, exiting>>
  /\ UNCHANGED input

\* window_fill_content_rect(), window_draw_text(), window_draw_wallpaper().
window_draw(id) ==
  /\ Step /\ g_windows[id].used /\ ~g_windows[id].drawn
  /\ g_windows' = [g_windows EXCEPT ![id].drawn = TRUE]
  /\ UNCHANGED <<g_window_zorder, g_focused_window_id, g_terminal_window_id, wm,
                 buttons, exiting>>
  /\ UNCHANGED input

window_focus(id) ==
  /\ Step /\ g_windows[id].used /\ g_focused_window_id' = id
  /\ UNCHANGED <<g_windows, g_window_zorder, g_terminal_window_id, wm, buttons,
                 exiting>>
  /\ UNCHANGED input

register_terminal_window(id) ==
  /\ Step /\ g_terminal_window_id' = id
  /\ UNCHANGED <<g_windows, g_window_zorder, g_focused_window_id, wm, buttons,
                 exiting>>
  /\ UNCHANGED input

\* cmd_exit(): window_close() has checked its argument ...
ExitChecks ==
  /\ Step /\ exiting = -1 /\ g_terminal_window_id >= 0
  /\ g_windows[g_terminal_window_id].used
  /\ exiting' = g_terminal_window_id
  /\ UNCHANGED <<g_windows, g_window_zorder, g_focused_window_id,
                 g_terminal_window_id, wm, buttons>>
  /\ UNCHANGED input

\* ... and closes it, an interrupt or a system call later.
ExitCloses ==
  /\ exiting >= 0
  /\ TablesBecome(Closed(Tables, exiting))
  /\ exiting' = -1 /\ g_terminal_window_id' = -1
  /\ UNCHANGED <<g_focused_window_id, wm, buttons, steps>>
  /\ UNCHANGED input

-----------------------------------------------------------------------------
(***************************************************************************)
(* The event ring.  Events are numbered as they are raised.                *)
(***************************************************************************)
After(i) == (i + 1) % WINDOW_KEY_QUEUE_SIZE

\* (Mutant.) A full ring is not noticed: the head stays.
PushForgetful(focus) ==
  /\ queue' = [queue EXCEPT ![tail] = Len(raised) + 1]
  /\ tail' = After(tail) /\ head' = head
  /\ raised' = Append(raised, focus) /\ UNCHANGED popped

\* window_push_event(): a full ring loses its oldest event.
Push(focus) ==
  /\ queue' = [queue EXCEPT ![tail] = Len(raised) + 1]
  /\ tail' = After(tail)
  /\ head' = IF After(tail) = head THEN After(head) ELSE head
  /\ raised' = Append(raised, focus) /\ UNCHANGED popped

window_pop_event(id) ==
  /\ id = g_focused_window_id /\ head # tail
  /\ popped' = [event |-> queue[head], by |-> id]
  /\ head' = After(head)
  /\ UNCHANGED <<g_windows, g_window_zorder, g_focused_window_id,
                 g_terminal_window_id, queue, tail, raised, wm, buttons, exiting,
                 steps>>

\* A keystroke, for the focused window.
Key ==
  /\ g_focused_window_id >= 0 /\ Len(raised) < MaxEvents
  /\ Push(g_focused_window_id)
  /\ UNCHANGED <<g_windows, g_window_zorder, g_focused_window_id,
                 g_terminal_window_id, wm, buttons, exiting, steps>>

Screen == Box(0, 0, FbWidth, FbHeight)

\* F11: window_fullscreen_toggle() of the focused window.
FullscreenToggle(w) ==
  IF w.fullscreen
  THEN [w EXCEPT !.at = w.restore, !.fullscreen = FALSE]
  ELSE [w EXCEPT !.restore = IF w.maximized THEN @ ELSE w.at,
                 !.maximized = FALSE, !.at = Screen, !.fullscreen = TRUE]
F11 ==
  /\ Step /\ g_focused_window_id >= 0 /\ g_windows[g_focused_window_id].used
  /\ g_windows' = [g_windows EXCEPT ![g_focused_window_id] = FullscreenToggle(@)]
  /\ UNCHANGED <<g_window_zorder, g_focused_window_id, g_terminal_window_id, wm,
                 buttons, exiting>>
  /\ UNCHANGED input

-----------------------------------------------------------------------------
(***************************************************************************)
(* The timer tick: compositor_handle_mouse(), then the button events.      *)
(***************************************************************************)
maximize_toggle(w) ==
  IF w.maximized
  THEN [w EXCEPT !.at = w.restore, !.maximized = FALSE]
  ELSE [w EXCEPT !.restore = w.at, !.maximized = TRUE,
                 !.at = [Screen EXCEPT !.h = FbHeight - TaskbarReserve]]

Inside(b, p) == /\ p[1] \in b.x..b.x + b.w - 1 /\ p[2] \in b.y..b.y + b.h - 1
icon_at(b, i) == <<b.x + b.w - 1 - i, b.y>>

\* What of window w the point p hits, in the order of the tests.
Region(w, p) ==
  LET b == w.at IN
  CASE w.borderless \/ w.fullscreen -> IF Inside(b, p) THEN "desk" ELSE "miss"
    [] p = icon_at(b, 0) /\ ~(w.borderless \/ w.fullscreen) -> "close"
    [] p = icon_at(b, 1) /\ ~(w.borderless \/ w.fullscreen) -> "maximize"
    [] p = icon_at(b, 2) /\ ~(w.borderless \/ w.fullscreen) -> "minimize"
    [] OTHER ->
         IF ~w.maximized /\ ~w.minimized /\ p = <<b.x + b.w - 1, b.y + b.h - 1>>
         THEN "resize"
         ELSE IF Inside([b EXCEPT !.h = 1], p) THEN "title"
         ELSE IF Inside(b, p) THEN "body" ELSE "miss"

Hits(p) == {i \in DOMAIN g_window_zorder :
              Region(g_windows[g_window_zorder[i]], p) # "miss"}

\* A press: the topmost window hit takes it.
Press(p) ==
  IF Hits(p) = {} THEN /\ UNCHANGED <<g_windows, g_window_zorder, wm>>
                       /\ g_focused_window_id' = g_focused_window_id
  ELSE
  LET id == g_window_zorder[CHOOSE i \in Hits(p) : \A j \in Hits(p) : j <= i]
      w == g_windows[id]
      r == Region(w, p)
      up == Raised(Tables, id)
  IN
  /\ TablesBecome(
       CASE r = "close" -> Closed(Tables, id)
         [] r = "maximize" -> [up EXCEPT !.windows[id] = maximize_toggle(@)]
         [] r = "minimize" -> [up EXCEPT !.windows[id].minimized = ~@]
         [] r \in {"resize", "title"} -> up
         [] OTHER -> Tables)
  /\ g_focused_window_id' = CASE r = "close" -> g_focused_window_id
                              [] r = "desk" -> -1
                              [] OTHER -> id
  /\ wm' = CASE r = "title" -> [Idle EXCEPT !.mode = "drag", !.target = id,
                                            !.dx = p[1] - w.at.x,
                                            !.dy = p[2] - w.at.y]
             [] r = "resize" -> [mode |-> "resize", target |-> id,
                                 dx |-> p[1], dy |-> p[2],
                                 w |-> w.at.w, h |-> w.at.h]
             [] OTHER -> wm

Larger(a, b) == IF a > b THEN a ELSE b

\* The button held: the drag or resize goes on.
Hold(p) ==
  /\ g_windows' =
       CASE wm.mode = "drag" ->
              Moved(g_windows, wm.target, p[1] - wm.dx, p[2] - wm.dy)
         [] wm.mode = "resize" ->
              Resized(g_windows, wm.target,
                      Larger(wm.w + p[1] - wm.dx, MinWidth),
                      Larger(wm.h + p[2] - wm.dy, MinHeight))
         [] OTHER -> g_windows
  /\ UNCHANGED <<g_window_zorder, g_focused_window_id, wm>>

Tick(p, down) ==
  /\ Step
  /\ CASE down /\ ~buttons.wm -> Press(p)
       [] down /\ buttons.wm -> Hold(p)
       [] OTHER -> /\ wm' = IF buttons.wm THEN Idle ELSE wm
                   /\ UNCHANGED <<g_windows, g_window_zorder, g_focused_window_id>>
  /\ IF g_focused_window_id' >= 0
     THEN /\ buttons' = [now |-> down, wm |-> down, app |-> down]
          /\ IF down # buttons.app
             THEN Len(raised) < MaxEvents /\ Push(g_focused_window_id')
             ELSE UNCHANGED input
     ELSE /\ buttons' = [buttons EXCEPT !.now = down, !.wm = down]
          /\ UNCHANGED input
  /\ UNCHANGED <<g_terminal_window_id, exiting>>

WindowsNext ==
  \/ \E b \in Shapes, borderless \in BOOLEAN : window_create(b, borderless)
  \/ \E id \in Ids :
       \/ window_close(id) \/ window_raise(id) \/ window_draw(id)
       \/ window_focus(id) \/ window_pop_event(id)
       \/ register_terminal_window(id)
       \/ \E b \in Shapes : window_move(id, b.x, b.y)
  \/ ExitChecks \/ ExitCloses \/ Key \/ F11
  \/ \E p \in Points, down \in BOOLEAN : Tick(p, down)

WindowsSpec == WindowsInit /\ [][WindowsNext]_wvars

-----------------------------------------------------------------------------
\* The z-order holds every open window once and no closed one, whichever of
\* the mouse, an application and the exit command closes, raises or creates.
ZorderExact ==
  /\ ToSet(g_window_zorder) = {i \in Ids : g_windows[i].used}
  /\ Len(g_window_zorder) = Cardinality(ToSet(g_window_zorder))

\* A window lies on the screen, and its body inside its content buffer, and it
\* is never maximized and fullscreen at once, after any sequence of drags,
\* resizes, maximizing, F11 and restoring.  window.h: "a window is never both
\* at once".
WindowsOnScreen ==
  \A i \in Ids : g_windows[i].used =>
    /\ fits_on_screen(g_windows[i].at)
    /\ g_windows[i].fullscreen \/ BodyFits(g_windows[i].at, g_windows[i].borderless)
    /\ ~(g_windows[i].maximized /\ g_windows[i].fullscreen)
    /\ g_windows[i].fullscreen => g_windows[i].at = Screen

\* The unread events are the newest ones, in order: overflow loses the oldest
\* and never reads one twice.
Unread == [i \in 1..((tail - head) % WINDOW_KEY_QUEUE_SIZE) |->
             queue[(head + i - 1) % WINDOW_KEY_QUEUE_SIZE]]
EventsNewest ==
  LET n == Len(Unread) IN
  /\ \A i \in 1..n : Unread[i] = Len(raised) - n + i
  /\ popped.event <= Len(raised) - n
  /\ Len(raised) - popped.event >= WINDOW_KEY_QUEUE_SIZE - 1 =>
       n = WINDOW_KEY_QUEUE_SIZE - 1

\* What a window reads was raised while that window was focused.  window.h: "a
\* window can only ever read events raised while IT was focused, never another
\* window's or the console's".
EventsAreMine ==
  popped.event > 0 => raised[popped.event] = popped.by

=============================================================================
