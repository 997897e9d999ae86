---------------------------------- MODULE Line ----------------------------------
(***************************************************************************)
(* The console: the line the keyboard interrupt of kernel/isr/isr.c edits, *)
(* the history and Tab completion of shell/shell/shell.c, the loop of      *)
(* kmain.c that runs the line, and the editor, shell/editor/editor.c.      *)
(*                                                                         *)
(* Each keystroke is one interrupt.  run_command() is not: keys arrive     *)
(* between Enter, the dispatch and the end of a command.  Screen positions *)
(* count from the end of the prompt; what a command prints is left out, so *)
(* the screen means something only while no command runs.                  *)
(***************************************************************************)
EXTENDS Integers, Sequences, FiniteSets, SequencesExt

CONSTANTS
  Chars,               \* characters typed; " " is among them
  LineMax,             \* 127
  HISTORY_MAX,
  Commands, Entries,   \* command names; names in the current directory
  EditorMax,           \* EDITOR_MAX_SIZE
  TypeAhead,           \* keys may arrive before a command is through
  MaxKeys              \* bound: keystrokes

VARIABLES
  g_line_buffer, g_line_len, g_line_cursor, g_line_ready,
  screen, vga,                  \* the line as shown, and g_vga_cursor
  g_history, g_history_count, g_history_next, g_history_browse_index,
  lines,                        \* history: the lines submitted
  entered, ran,                 \* history: the line of the last Enter; what ran
  running,                      \* run_command() has read the line
  g_editor_active, g_editor_buffer, g_editor_col_len,
  hotkey,                       \* Ctrl, Alt and T held, and g_hotkey_t_fired
  keys

lvars == <<g_line_buffer, g_line_len, g_line_cursor, g_line_ready, screen, vga,
           g_history, g_history_count, g_history_next, g_history_browse_index,
           lines, entered, ran, running, g_editor_active, g_editor_buffer,
           g_editor_col_len, hotkey, keys>>
hist == <<g_history, g_history_count, g_history_next, g_history_browse_index, lines>>
run == <<entered, ran, running>>
editor == <<g_editor_active, g_editor_buffer, g_editor_col_len>>

NUL == "nul"
Newline == "nl"
Blank == [i \in 0..LineMax |-> " "]

LineInit ==
  /\ g_line_buffer = [i \in 0..LineMax |-> NUL]
  /\ g_line_len = 0 /\ g_line_cursor = 0 /\ g_line_ready = FALSE
  /\ screen = Blank /\ vga = 0
  /\ g_history = [i \in 0..HISTORY_MAX - 1 |-> <<>>] /\ g_history_count = 0
  /\ g_history_next = 0 /\ g_history_browse_index = -1 /\ lines = <<>>
  /\ entered = <<>> /\ ran = <<>> /\ running = FALSE
  /\ g_editor_active = FALSE /\ g_editor_buffer = <<>> /\ g_editor_col_len = 0
  /\ hotkey = [ctrl |-> FALSE, alt |-> FALSE, t |-> FALSE, fired |-> FALSE]
  /\ keys = 0

\* The line fits its buffer, and the history ring is within its size.
LineTypeOK ==
  /\ g_line_len \in 0..LineMax /\ (g_line_ready \/ vga \in 0..LineMax)
  /\ g_history_count \in 0..HISTORY_MAX
  /\ g_history_browse_index \in -1..HISTORY_MAX - 1
  /\ Len(g_editor_buffer) <= EditorMax

\* The characters of the line, and what a C string function sees.
Text == [i \in 1..g_line_len |-> g_line_buffer[i - 1]]
CString ==
  LET ends == {i \in DOMAIN g_line_buffer : g_line_buffer[i] = NUL}
      n == IF ends = {} THEN LineMax + 1
           ELSE CHOOSE i \in ends : \A j \in ends : i <= j
  IN [i \in 1..n |-> g_line_buffer[i - 1]]

Stroke == keys < MaxKeys /\ keys' = keys + 1
ForShell == ~g_editor_active /\ (TypeAhead \/ ~g_line_ready)

-----------------------------------------------------------------------------
(***************************************************************************)
(* Editing.  Each key redraws from the cursor on and moves back.           *)
(***************************************************************************)
\* s shown from screen position p on.
Drawn(scr, p, s) ==
  [i \in DOMAIN scr |-> IF i \in p..p + Len(s) - 1 THEN s[i - p + 1] ELSE scr[i]]
From(buf, i, n) == [k \in 1..n - i |-> buf[i + k - 1]]

\* The line becomes buf with len characters and the cursor at c.
Becomes(buf, len, c) ==
  /\ g_line_buffer' = buf /\ g_line_len' = len /\ g_line_cursor' = c

\* A character goes in at the cursor.
Insert(ch) ==
  LET c == g_line_cursor
      buf == [i \in DOMAIN g_line_buffer |->
                CASE i = c -> ch
                  [] i > c /\ i <= g_line_len -> g_line_buffer[i - 1]
                  [] OTHER -> g_line_buffer[i]]
  IN
  /\ Stroke /\ ForShell /\ g_line_len < LineMax
  /\ Becomes(buf, g_line_len + 1, c + 1)
  /\ screen' = Drawn(screen, vga, From(buf, c, g_line_len + 1))
  /\ vga' = vga + 1
  /\ UNCHANGED <<g_line_ready, hotkey>>
  /\ UNCHANGED hist /\ UNCHANGED run /\ UNCHANGED editor

\* The buffer without the character at c.
Without(c) == [i \in DOMAIN g_line_buffer |->
                 IF i >= c /\ i < g_line_len - 1 THEN g_line_buffer[i + 1]
                 ELSE g_line_buffer[i]]

\* (Mutant.) The vacated cell at the end is not blanked.
BackspaceSmear ==
  LET c == g_line_cursor - 1 IN
  /\ Stroke /\ ForShell /\ g_line_cursor > 0
  /\ Becomes(Without(c), g_line_len - 1, c)
  /\ screen' = Drawn(screen, vga - 1, From(Without(c), c, g_line_len - 1))
  /\ vga' = vga - 1
  /\ UNCHANGED <<g_line_ready, hotkey>>
  /\ UNCHANGED hist /\ UNCHANGED run /\ UNCHANGED editor

Backspace ==
  LET c == g_line_cursor - 1 IN
  /\ Stroke /\ ForShell /\ g_line_cursor > 0
  /\ Becomes(Without(c), g_line_len - 1, c)
  /\ screen' = Drawn(screen, vga - 1,
                     Append(From(Without(c), c, g_line_len - 1), " "))
  /\ vga' = vga - 1
  /\ UNCHANGED <<g_line_ready, hotkey>>
  /\ UNCHANGED hist /\ UNCHANGED run /\ UNCHANGED editor

Delete ==
  LET c == g_line_cursor IN
  /\ Stroke /\ ForShell /\ g_line_cursor < g_line_len
  /\ Becomes(Without(c), g_line_len - 1, c)
  /\ screen' = Drawn(screen, vga, Append(From(Without(c), c, g_line_len - 1), " "))
  /\ UNCHANGED <<vga, g_line_ready, hotkey>>
  /\ UNCHANGED hist /\ UNCHANGED run /\ UNCHANGED editor

Arrow(d) ==
  /\ Stroke /\ ForShell
  /\ IF d < 0 THEN g_line_cursor > 0 ELSE g_line_cursor < g_line_len
  /\ g_line_cursor' = g_line_cursor + d /\ vga' = vga + d
  /\ UNCHANGED <<g_line_buffer, g_line_len, g_line_ready, screen, hotkey>>
  /\ UNCHANGED hist /\ UNCHANGED run /\ UNCHANGED editor

-----------------------------------------------------------------------------
(***************************************************************************)
(* Enter, and the history.                                                 *)
(***************************************************************************)
\* (Mutant.) The count goes on past the size of the ring's slots in use.
AddedLate(line) ==
  /\ g_history' = [g_history EXCEPT ![g_history_next] = line]
  /\ g_history_next' = (g_history_next + 1) % HISTORY_MAX
  /\ g_history_count' = IF g_history_next + 1 < HISTORY_MAX
                        THEN g_history_count + 1 ELSE g_history_count
  /\ g_history_browse_index' = -1 /\ lines' = Append(lines, line)

\* shell_history_add()
Added(line) ==
  /\ g_history' = [g_history EXCEPT ![g_history_next] = line]
  /\ g_history_next' = (g_history_next + 1) % HISTORY_MAX
  /\ g_history_count' = IF g_history_count < HISTORY_MAX
                        THEN g_history_count + 1 ELSE g_history_count
  /\ g_history_browse_index' = -1 /\ lines' = Append(lines, line)

\* The length without trailing blanks.
Trimmed == LET full == {i \in 1..g_line_len : Text[i] # " "} IN
           IF full = {} THEN 0 ELSE CHOOSE i \in full : \A j \in full : j <= i

\* (Mutant.) The line is not terminated where it ends.
EnterOpen ==
  LET line == SubSeq(Text, 1, Trimmed) IN
  /\ Stroke /\ ForShell
  /\ g_line_len' = Trimmed
  /\ g_line_buffer' = g_line_buffer
  /\ g_line_ready' = TRUE /\ entered' = line
  /\ screen' = Blank /\ vga' = 0
  /\ IF line = <<>> THEN UNCHANGED hist ELSE Added(line)
  /\ UNCHANGED <<g_line_cursor, ran, running, hotkey>> /\ UNCHANGED editor

Enter ==
  LET line == SubSeq(Text, 1, Trimmed) IN
  /\ Stroke /\ ForShell
  /\ g_line_len' = Trimmed
  /\ g_line_buffer' = [g_line_buffer EXCEPT ![Trimmed] = NUL]
  /\ g_line_ready' = TRUE /\ entered' = line
  /\ screen' = Blank /\ vga' = 0
  /\ IF line = <<>> THEN UNCHANGED hist ELSE Added(line)
  /\ UNCHANGED <<g_line_cursor, ran, running, hotkey>> /\ UNCHANGED editor

\* The line typed anew: blanks over the old one, then the new one.
Retyped(scr, old, new) == Drawn(Drawn(scr, 0, [i \in 1..old |-> " "]), 0, new)
Filled(buf, s) == [i \in DOMAIN buf |-> IF i < Len(s) THEN s[i + 1] ELSE buf[i]]

\* The entry browse index b stands for; -1 is the empty line.
Entry(b) == IF b < 0 THEN <<>>
            ELSE g_history[(g_history_next - 1 - b) % HISTORY_MAX]

\* shell_history_up() and shell_history_down(), with shell_history_redraw().
Browse(d) ==
  LET b == g_history_browse_index + d IN
  /\ Stroke /\ ForShell
  /\ IF d > 0 THEN b < g_history_count ELSE g_history_browse_index >= 0
  /\ g_history_browse_index' = b
  /\ Becomes(Filled(g_line_buffer, Entry(b)), Len(Entry(b)), Len(Entry(b)))
  /\ screen' = Retyped(screen, g_line_len, Entry(b)) /\ vga' = Len(Entry(b))
  /\ UNCHANGED <<g_line_ready, g_history, g_history_count, g_history_next, lines,
                 hotkey>>
  /\ UNCHANGED run /\ UNCHANGED editor

-----------------------------------------------------------------------------
(***************************************************************************)
(* shell_tab_complete(): the last word, against commands or entries.       *)
(***************************************************************************)
Prefix(s, t) == Len(s) <= Len(t) /\ SubSeq(t, 1, Len(s)) = s
Common(S) ==
  LET shared == {n \in 0..LineMax :
                   \A s \in S : n <= Len(s)
                                /\ \A t \in S : n <= Len(t)
                                     /\ SubSeq(s, 1, n) = SubSeq(t, 1, n)}
      n == CHOOSE i \in shared : \A j \in shared : j <= i
      any == CHOOSE s \in S : TRUE
  IN SubSeq(any, 1, n)
Cut(s) == IF Len(s) > LineMax THEN SubSeq(s, 1, LineMax) ELSE s

Tab ==
  LET blanks == {i \in 1..g_line_len : Text[i] = " "}
      start == IF blanks = {} THEN 0 ELSE CHOOSE i \in blanks : \A j \in blanks : j <= i
      word == SubSeq(Text, start + 1, g_line_len)
      matches == {m \in IF start = 0 THEN Commands ELSE Entries : Prefix(word, m)}
      longer == IF matches # {} /\ Len(Common(matches)) > Len(word)
                THEN Cut(SubSeq(Text, 1, start) \o Common(matches)) ELSE Text
      new == IF Cardinality(matches) = 1 THEN Cut(Append(longer, " ")) ELSE longer
  IN
  /\ Stroke /\ ForShell
  /\ Becomes([Filled(g_line_buffer, new) EXCEPT
                ![Len(new)] = IF new = Text THEN NUL ELSE @],
             Len(new), Len(new))
  /\ screen' = IF Cardinality(matches) > 1 THEN Drawn(Blank, 0, new)
               ELSE Retyped(screen, g_line_len, new)
  /\ vga' = Len(new)
  /\ UNCHANGED <<g_line_ready, hotkey>>
  /\ UNCHANGED hist /\ UNCHANGED run /\ UNCHANGED editor

-----------------------------------------------------------------------------
(***************************************************************************)
(* The loop of kmain(), and the editor.                                    *)
(***************************************************************************)
\* run_command() compares the line and takes its arguments from it.
Dispatch ==
  /\ g_line_ready /\ ~running
  /\ ran' = CString /\ running' = TRUE
  /\ UNCHANGED <<g_line_buffer, g_line_len, g_line_cursor, g_line_ready, screen,
                 vga, entered, hotkey, keys>>
  /\ UNCHANGED hist /\ UNCHANGED editor

\* The editor opens on a file of the text given.
editor_start(file) ==
  LET nls == {i \in DOMAIN file : file[i] = Newline}
      last == IF nls = {} THEN 0 ELSE CHOOSE i \in nls : \A j \in nls : j <= i
  IN
  /\ g_editor_active' = TRUE /\ g_editor_buffer' = file
  /\ g_editor_col_len' = Len(file) - last

\* The command is through: the line starts over, under a new prompt unless the
\* editor has the screen.
Done(file) ==
  /\ g_line_ready /\ running /\ running' = FALSE
  /\ g_line_ready' = FALSE /\ g_line_len' = 0 /\ g_line_cursor' = 0
  /\ screen' = Blank /\ vga' = 0
  /\ IF ran = <<"e">> THEN editor_start(file)
     ELSE file = <<>> /\ UNCHANGED editor
  /\ UNCHANGED <<g_line_buffer, entered, ran, hotkey, keys>> /\ UNCHANGED hist

\* editor_handle_scancode(): Newline, a character, Backspace and Esc.
EditorKey(ch) ==
  LET room == Len(g_editor_buffer) < EditorMax IN
  /\ Stroke /\ g_editor_active
  /\ ch = Newline \/ room
  /\ g_editor_buffer' = IF room THEN Append(g_editor_buffer, ch) ELSE g_editor_buffer
  /\ g_editor_col_len' = IF ch = Newline THEN 0 ELSE g_editor_col_len + 1
  /\ UNCHANGED <<g_line_buffer, g_line_len, g_line_cursor, g_line_ready, screen,
                 vga, g_editor_active, hotkey>>
  /\ UNCHANGED hist /\ UNCHANGED run

\* (Mutant.) Backspace is bounded by the text, not by the line.
EditorBackspaceFar ==
  /\ Stroke /\ g_editor_active /\ g_editor_buffer # <<>>
  /\ g_editor_buffer' = Front(g_editor_buffer)
  /\ g_editor_col_len' = IF g_editor_col_len > 0 THEN g_editor_col_len - 1 ELSE 0
  /\ UNCHANGED <<g_line_buffer, g_line_len, g_line_cursor, g_line_ready, screen,
                 vga, g_editor_active, hotkey>>
  /\ UNCHANGED hist /\ UNCHANGED run

EditorBackspace ==
  /\ Stroke /\ g_editor_active /\ g_editor_col_len > 0 /\ g_editor_buffer # <<>>
  /\ g_editor_buffer' = Front(g_editor_buffer)
  /\ g_editor_col_len' = g_editor_col_len - 1
  /\ UNCHANGED <<g_line_buffer, g_line_len, g_line_cursor, g_line_ready, screen,
                 vga, g_editor_active, hotkey>>
  /\ UNCHANGED hist /\ UNCHANGED run

\* Esc: the file is deleted and written (MiniFS), and the prompt returns.
editor_save_and_exit ==
  /\ Stroke /\ g_editor_active
  /\ g_editor_active' = FALSE
  /\ screen' = Blank /\ vga' = 0
  /\ UNCHANGED <<g_line_buffer, g_line_len, g_line_cursor, g_line_ready,
                 g_editor_buffer, g_editor_col_len, hotkey>>
  /\ UNCHANGED hist /\ UNCHANGED run

\* Ctrl, Alt and T go down and up; Ctrl+Alt+T opens a terminal once a press.
\* (What T alone types is Insert.)
Hotkey(k) ==
  LET down == ~hotkey[k]
      held == hotkey.ctrl /\ hotkey.alt
  IN
  /\ Stroke
  /\ hotkey' = [hotkey EXCEPT ![k] = down,
                  !.fired = IF k = "t" /\ held THEN down ELSE @]
  /\ UNCHANGED <<g_line_buffer, g_line_len, g_line_cursor, g_line_ready, screen,
                 vga>>
  /\ UNCHANGED hist /\ UNCHANGED run /\ UNCHANGED editor

LineNext ==
  \/ \E ch \in Chars : Insert(ch) \/ EditorKey(ch)
  \/ EditorKey(Newline) \/ EditorBackspace \/ editor_save_and_exit
  \/ Backspace \/ Delete \/ Arrow(-1) \/ Arrow(1)
  \/ Enter \/ Browse(1) \/ Browse(-1) \/ Tab
  \/ Dispatch \/ \E file \in {<<>>, <<"e", Newline>>} : Done(file)
  \/ \E k \in {"ctrl", "alt", "t"} : Hotkey(k)

LineSpec == LineInit /\ [][LineNext]_lvars

-----------------------------------------------------------------------------
\* The screen shows the line being edited and the cursor where the next
\* character goes, after insertion, deletion in the middle, recall and
\* completion.
ScreenShowsLine ==
  ~g_line_ready /\ ~g_editor_active =>
    /\ vga = g_line_cursor
    /\ \A i \in DOMAIN screen :
         screen[i] = IF i < g_line_len THEN g_line_buffer[i] ELSE " "

\* Browsing finds the last HISTORY_MAX lines submitted, newest first.
HistoryIsTheLastLines ==
  /\ g_history_count = IF Len(lines) < HISTORY_MAX THEN Len(lines) ELSE HISTORY_MAX
  /\ \A b \in 0..g_history_count - 1 : Entry(b) = lines[Len(lines) - b]

\* The command that runs is the line as it was when Enter was pressed.
CommandIsWhatWasEntered == running => ran = entered

\* Backspace in the editor never joins two lines of the file.
EditorKeepsLines ==
  [][g_editor_active /\ g_editor_buffer # <<>>
       /\ g_editor_buffer' = Front(g_editor_buffer)
     => Last(g_editor_buffer) # Newline]_lvars

\* keyboard.h: "always 0 <= g_line_cursor <= g_line_len".
CursorInLine == g_line_cursor \in 0..g_line_len

\* isr.c: the guard of the Ctrl+Alt+T hotkey is "reset on T's own release".
HotkeyFollowsT == hotkey.fired => hotkey.t

=============================================================================
