----------------------------- MODULE MCDevices ------------------------------
(***************************************************************************)
(* Storage, windows and input for TLC: MiniFS, FAT32, the file interface   *)
(* with VFS and tmpfs, the disk drivers, the window server, the command    *)
(* line with the editor, USB and the PS/2 mouse.  The models share no state*)
(* and are explored one at a time: `part' says which one a behaviour is    *)
(* about.                                                                  *)
(***************************************************************************)
EXTENDS Disk, Integers, Sequences

VARIABLES
  part,
  sb, dirs, blocks, fsop, begun, stops, torn,                  \* MiniFS
  initialized, fat, area, job, fatops, fatstops, dropped,      \* Fat32
  volume, g_open_files, handles, dircur, shelljob, sectors,    \* Files
  calls, lost, lostdirs, acked,
  g_windows, g_window_zorder, g_focused_window_id,              \* Windows
  g_terminal_window_id, queue, head, tail, raised, popped, wm,
  buttons, exiting, steps,
  g_line_buffer, g_line_len, g_line_cursor, g_line_ready,       \* Line
  screen, vga, g_history, g_history_count, g_history_next,
  g_history_browse_index, lines, entered, ran, running,
  g_editor_active, g_editor_buffer, g_editor_col_len, hotkey, keys,
  board, port, plan, awaited, hwslot, rings, events, armed,     \* Usb
  present, g_periodic_ready, g_periodic_td, g_periodic_toggle,
  devtoggle, g_buf, unparsed, delivered, applied, ufaults,
  obuf, dev, init, g_mouse_has_wheel, g_packet, g_mouse,        \* Mouse
  g_mouse_wheel_delta, shell, taken, hand, moved, noise

-----------------------------------------------------------------------------
\* Two directory slots and five sectors: directories and the disk fill up.
M == INSTANCE MiniFS WITH
  KernelTasks <- {"shell"}, SystemCalls <- {"call"},
  Names <- {"a", "b"}, Paths <- {<<"a">>, <<"b">>, <<"a", "b">>}, Sizes <- {2},
  MAX_FILES <- 2, MAX_PATH_DEPTH <- 8, LastLba <- 5, CountModulus <- 16,
  WritesOverlap <- FALSE, MaxOps <- 4, MaxStops <- 1

\* Directories of one slot, so that they grow; four clusters; names that differ
\* in case only.
F == INSTANCE Fat32 WITH
  FatPaths <- {<<"a">>, <<"A">>, <<"b">>, <<"a", "b">>},
  Short <- [n \in {"a", "A", "b"} |-> IF n = "b" THEN "B" ELSE "A"],
  Clusters <- 2 .. 5, DirSlots <- 1, FatSizes <- {0, 2},
  MaxFatOps <- 5, MaxFatStops <- 1

\* A path of each mount, and two paths of one MiniFS file.
FilePaths == {"/system/a", "/apps/x", "/system/apps/x", "/temp/a"}
V == INSTANCE Files WITH
  Procs <- {1, 2}, Uid <- [p \in {1, 2} |-> p - 1], Paths <- FilePaths,
  Backend <- [p \in FilePaths |-> IF p = "/temp/a" THEN "tmpfs" ELSE "minifs"],
  FileOf <- [p \in FilePaths |-> IF p \in {"/system/a", "/temp/a"} THEN "a" ELSE "x"],
  InSystem <- [p \in FilePaths |-> p \in {"/system/a", "/system/apps/x"}],
  Cap <- [v \in {"minifs", "tmpfs", "fat32"} |-> IF v = "minifs" THEN 2 ELSE 1],
  Bytes <- {"b"}, FILE_MAX_SIZE <- 2, FILE_OBJECT_SLOTS <- 2,
  DIRECTORY_SLOTS <- 1, MinifsWrites <- 3, RawData <- {<<"b", "b">>, <<"b">>},
  Modes <- {2}, Moves <- {<<"/temp/a", "/system/a">>}, MaxCalls <- 4

\* A screen on which two windows overlap and meet every border.
Box(x, y, w, h) == [x |-> x, y |-> y, w |-> w, h |-> h]
W == INSTANCE Windows WITH
  WINDOW_SLOTS <- 2, FbWidth <- 4, FbHeight <- 3, TaskbarReserve <- 1,
  MinWidth <- 2, MinHeight <- 2, WINDOW_KEY_QUEUE_SIZE <- 3,
  Shapes <- {Box(0, 0, 3, 2), Box(1, 1, 2, 2)},
  Points <- {<<0, 0>>, <<1, 0>>, <<2, 1>>, <<2, 0>>, <<3, 2>>},
  MaxSteps <- 5, MaxEvents <- 4

\* Lines of three characters and a history of two, both of which fill up.
L == INSTANCE Line WITH
  Chars <- {"a", "e", " "}, LineMax <- 3, HISTORY_MAX <- 2,
  Commands <- {<<"e">>, <<"a", "e">>, <<"a", "a">>}, Entries <- {<<"a", "e">>},
  EditorMax <- 3, TypeAhead <- FALSE, MaxKeys <- 6

\* Rings that wrap; one controller, the other, and both with hubs plugged in.
Device(hc, kind) == [hc |-> hc, kind |-> kind]
U == INSTANCE Usb WITH
  Boards <- {<<Device("uhci", "mouse"), Device("uhci", "keyboard")>>,
             <<Device("xhci", "mouse"), Device("xhci", "keyboard")>>,
             <<Device("uhci", "hub"), Device("xhci", "hub"), Device("xhci", "mouse")>>},
  RING_SIZE <- 5, XHCI_MAX_SLOTS <- 2, Gets <- 1, Strays <- FALSE,
  Overrun <- FALSE, MaxReports <- 5, MaxFaults <- 1

\* Movements of every sign that reach the borders, a wheel that turns both ways,
\* noise that looks like a first byte and noise that does not.
Motion(dx, dy, down, wheel) == [dx |-> dx, dy |-> dy, buttons |-> down, wheel |-> wheel]
Y == INSTANCE Mouse WITH
  Width <- 800, Height <- 600,
  Moves <- {Motion(8, -8, 1, 1), Motion(-256, 255, 0, -1), Motion(255, -256, 4, 0)},
  Noise <- {0, 8, 170}, Callers <- {"syscall", "shell"}, KeysInInit <- FALSE,
  MovesInSettling <- FALSE, WheelOverlap <- FALSE, MaxMoves <- 3, MaxNoise <- 2

-----------------------------------------------------------------------------
minifs == <<sb, dirs, blocks, fsop, begun, stops, torn>>
fat32 == <<initialized, fat, area, job, fatops, fatstops, dropped>>
files == <<volume, g_open_files, handles, dircur, shelljob, sectors, calls, lost,
           lostdirs, acked>>
windows == <<g_windows, g_window_zorder, g_focused_window_id, g_terminal_window_id,
             queue, head, tail, raised, popped, wm, buttons, exiting, steps>>
line == <<g_line_buffer, g_line_len, g_line_cursor, g_line_ready, screen, vga,
          g_history, g_history_count, g_history_next, g_history_browse_index,
          lines, entered, ran, running, g_editor_active, g_editor_buffer,
          g_editor_col_len, hotkey, keys>>
usb == <<board, port, plan, awaited, hwslot, rings, events, armed, present,
         g_periodic_ready, g_periodic_td, g_periodic_toggle, devtoggle, g_buf,
         unparsed, delivered, applied, ufaults>>
mouse == <<obuf, dev, init, g_mouse_has_wheel, g_packet, g_mouse, g_mouse_wheel_delta,
           shell, taken, hand, moved, noise>>
mcvars == <<part, minifs, fat32, files, dvars, windows, line, usb, mouse>>

\* A part left alone starts in one of its initial states only.
MCInit ==
  /\ part \in {"minifs", "fat32", "files", "disk", "windows", "line", "usb", "mouse"}
  /\ M!Init /\ F!Init /\ V!Init /\ DiskInit
  /\ W!WindowsInit /\ L!LineInit /\ U!UsbInit /\ Y!MouseInit
  /\ part # "usb" => Len(board) = 3
  /\ part # "mouse" => dev.wheel

MCNext ==
  /\ UNCHANGED part
  /\ \/ part = "minifs" /\ M!Next
        /\ UNCHANGED <<fat32, files, dvars, windows, line, usb, mouse>>
     \/ part = "fat32" /\ F!Next
        /\ UNCHANGED <<minifs, files, dvars, windows, line, usb, mouse>>
     \/ part = "files" /\ V!Next
        /\ UNCHANGED <<minifs, fat32, dvars, windows, line, usb, mouse>>
     \/ part = "disk" /\ DiskNext
        /\ UNCHANGED <<minifs, fat32, files, windows, line, usb, mouse>>
     \/ part = "windows" /\ W!WindowsNext
        /\ UNCHANGED <<minifs, fat32, files, dvars, line, usb, mouse>>
     \/ part = "line" /\ L!LineNext
        /\ UNCHANGED <<minifs, fat32, files, dvars, windows, usb, mouse>>
     \/ part = "usb" /\ U!UsbNext
        /\ UNCHANGED <<minifs, fat32, files, dvars, windows, line, mouse>>
     \/ part = "mouse" /\ Y!MouseNext
        /\ UNCHANGED <<minifs, fat32, files, dvars, windows, line, usb>>

MCSpec == MCInit /\ [][MCNext]_mcvars

-----------------------------------------------------------------------------
(***************************************************************************)
(* The properties, each for the part it is about: the others stay as they  *)
(* began.                                                                  *)
(***************************************************************************)
\* Slots, sectors, clusters, cursors, ring positions and lengths of the file
\* systems, drivers, windows and line buffers stay inside their arrays.
TypesOK ==
  /\ part = "minifs" => M!TypeOK
  /\ part = "fat32" => F!TypeOK
  /\ part = "files" => V!TypeOK
  /\ DiskTypeOK
  /\ part = "windows" => W!WindowsTypeOK
  /\ part = "line" => L!LineTypeOK
  /\ part = "usb" => U!UsbTypeOK
  /\ part = "mouse" => Y!MouseTypeOK

\* MiniFS after any sequence of writes, deletions and formatting, with a stop
\* between any two sector writes: no two files share a sector, a file in a
\* directory has all its data on disk and a read returns the data of one write
\* (unless mkfs() was cut short), and without stops file_count is the number
\* of entries.
MinifsSound ==
  part = "minifs" => M!FilesWhole /\ M!ReadsAreWhole /\ M!CountExact

\* fat32_write(), fat32_mkdir() and fat32_delete(): a chain an entry names is
\* allocated, ends and is nobody else's; two entries of a directory differ in
\* their 8.3 names; and no cluster is lost, full volumes included, except by a
\* stop half-way or the deletion of a directory that has entries.
FatSound ==
  part = "fat32" => F!ChainsSound /\ F!NamesDistinct /\ F!NoClusterLost

\* What a write, a close or a copy of the shell reported stored is what a read
\* of the path finds, until somebody changes the file; seeks, reads, writes and
\* truncating opens in any order keep the cursor of an open file inside its data;
\* and every slot of g_open_files in use is held by a handle, or was left by a
\* failed read-only open, call 13 or an exit (file.c, vfs.c, tmpfs.c).
FilesSound ==
  part = "files" => V!AckedIsStored /\ V!CursorInside /\ V!FileSlotsAccounted

\* Whatever the mouse, the applications, F11 and the exit command do, in any
\* order: the z-order holds each open window once and no closed one; a window
\* lies on the screen with its body inside its content buffer; and the event
\* ring holds the newest events, in order, none read twice (window.c, isr.c).
WindowsSound ==
  part = "windows" => W!ZorderExact /\ W!WindowsOnScreen /\ W!EventsNewest

\* While no key comes before the command is through: the screen shows the line
\* and the cursor, through history, completion and edits in its middle; the
\* history is the last HISTORY_MAX lines submitted; the command run is the line
\* as it was at Enter (isr.c, shell.c, kmain.c); and Backspace in the editor never
\* joins two lines of the file (editor_handle_key()).
LineSound ==
  /\ [](part = "line" =>
          L!ScreenShowsLine /\ L!HistoryIsTheLastLines /\ L!CommandIsWhatWasEntered)
  /\ L!EditorKeepsLines

\* Each xHCI ring is seen alike by driver and controller across every wrap; with
\* no report during enumeration or before the last is parsed, each report is
\* applied once, in order, and an enumerated device always has a transfer
\* outstanding until one fails (xhci.c, uhci.c, usb_hid.c).  A PS/2 mouse that is
\* left alone while mouse_init() runs is followed exactly from then on, whatever
\* noise came before (mouse.c).
InputSound ==
  /\ part = "usb" => U!RingsAgree /\ U!ReportsApplied /\ U!TransferOutstanding
  /\ part = "mouse" => Y!MouseFollowsHand
=============================================================================
