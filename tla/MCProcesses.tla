---------------------------- MODULE MCProcesses ----------------------------
(***************************************************************************)
(* Processes and the desktop for TLC: the process table, the service       *)
(* manager (the shell's calls of which are left to MCProgress), the        *)
(* desktop shell with its clock, and the decoders of its images.  Services *)
(* has a process table of its own, in which spawning is one step, and the  *)
(* other models share no state, so they are explored one at a time: `part' *)
(* says which one a behaviour is about.                                    *)
(***************************************************************************)
EXTENDS Processes, Sequences, TLC

CONSTANTS t1, t2, t3, t4, s1, s2, worker

VARIABLES
  part,
  used, program, running, auto_restart, service_process,   \* Services
  pc, target, proc_index,
  chip, driver, requests, replies, mouse, desk, popups,    \* Desktop
  spawned, press, seen, ticks, presses,
  io, br, dst, final, tables, dyn, ipc,                    \* Inflate
  png, pngpos, ihdr, idat, total, scan, done, held, out,   \* Png
  ppc

S == INSTANCE Services WITH
  Names <- {s1, s2}, Slots <- 0 .. 2, Callers <- {}, Others <- TRUE,
  Worker <- worker, process_index <- service_process

\* The menu: presses enough to choose the same item twice; the mouse rests while
\* its button is down.
P == INSTANCE Desktop WITH
  Menu <- <<"terminal", "files">>, Starts <- {<<12, 0, 0, 9, 10, 26>>},
  MaxTicks <- 0, MaxPresses <- 4, Drag <- FALSE, Torn <- FALSE

\* The clock: every hour's last second, the last day of the century, in the
\* four formats of the chip, which does not count while it is read.
C == INSTANCE Desktop WITH
  Menu <- <<"terminal", "files">>,
  Starts <- {<<h, 59, 59, 31, 12, 99>> : h \in 0 .. 23},
  MaxTicks <- 2, MaxPresses <- 0, Drag <- FALSE, Torn <- FALSE

\* Bytes of two bits: symbols 0 to 3 are literals, 4 ends a block, 5 and 6 are
\* lengths, 7 has a fixed code and no meaning.  The first dynamic header gives a
\* code to a distance that has no meaning, the second repeats a length over the
\* border of the two alphabets, the third leaves out code length codes.
Token(sym, extra, dsym, dextra) ==
  [sym |-> sym, extra |-> extra, dsym |-> dsym, dextra |-> dextra]
Lit(v) == Token(v, 0, 0, 0)
Items(pairs) == [k \in 1 .. Len(pairs) |-> [sym |-> pairs[k][1], extra |-> pairs[k][2]]]
Dynamic(hlit, hdist, hclen, two, three, one, pairs) ==
  [hlit |-> hlit, hdist |-> hdist, hclen |-> hclen, items |-> Items(pairs),
   cl |-> [s \in 0 .. 7 |-> CASE s \in one -> 1 [] s \in two -> 2 [] s \in three -> 3
                               [] s \notin one \cup two \cup three -> 0]]
Head2 == Dynamic(7, 4, 8, {0, 2, 3}, {1, 6}, {},
  <<<<2, 0>>, <<6, 0>>, <<2, 0>>, <<2, 0>>, <<3, 0>>, <<3, 0>>, <<1, 0>>, <<2, 0>>, <<0, 0>>,
    <<2, 0>>>>)
Head3 == Dynamic(8, 3, 8, {2, 3, 5}, {1, 7}, {},
  <<<<3, 0>>, <<5, 1>>, <<2, 0>>, <<2, 0>>, <<7, 0>>, <<1, 0>>>>)
Head4 == Dynamic(8, 3, 5, {}, {}, {3, 5},
  <<<<3, 0>>, <<5, 1>>, <<5, 1>>, <<5, 1>>, <<3, 0>>>>)
Block(type, head2, bytes, tokens) ==
  [type |-> type, head |-> head2, bytes |-> bytes, tokens |-> tokens]
Stored(bytes) == Block(0, <<>>, bytes, <<>>)
Fixed(tokens) == Block(1, <<>>, <<>>, tokens)
UpTo(n, values) == UNION {[1 .. k -> values] : k \in 0 .. n}
FixedTokens ==
  {Lit(0), Lit(3), Token(5, 0, 0, 0), Token(6, 1, 2, 1), Token(7, 0, 0, 0)}
Dynamic2Tokens ==
  {Lit(0), Lit(3), Token(5, 0, 0, 0), Token(6, 0, 1, 0), Token(5, 0, 3, 0)}
I == INSTANCE Inflate WITH
  ByteBits <- 2, MAX_BITS <- 4,
  LENGTH_BASE <- [k \in 0 .. 1 |-> 2 + k], LENGTH_EXTRA <- [k \in 0 .. 1 |-> k],
  DIST_BASE <- [k \in 0 .. 2 |-> 1 + k], DIST_EXTRA <- [k \in 0 .. 2 |-> k \div 2],
  CL_ORDER <- <<5, 6, 7, 0, 3, 2, 4, 1>>, HlitBits <- 2, HdistBits <- 2, HclenBits <- 2,
  HclenMin <- 5, ClBits <- 2,
  Repeat <- <<[extra |-> 1, base |-> 2], [extra |-> 1, base |-> 2], [extra |-> 2, base |-> 4]>>,
  FixedLit <- [s \in 0 .. 7 |-> <<3, 3, 4, 4, 2, 2, 4, 4>>[s + 1]], FixedDistBits <- 2,
  MAX_LIT_SYMBOLS <- 8, MAX_DIST_SYMBOLS <- 3, Room <- 1,
  Streams <-
    {<<Fixed(t)>> : t \in UpTo(3, FixedTokens)}
    \cup {<<Block(2, Head2, <<>>, t)>> : t \in UpTo(2, Dynamic2Tokens)}
    \cup {<<Block(2, Head3, <<>>, <<Lit(1), Lit(2), Lit(3), Token(5, 0, 2, 0)>>)>>,
          <<Block(2, Head4, <<>>, <<Lit(1), Token(6, 1, 0, 0)>>)>>,
          <<Block(2, Head4, <<>>, <<Lit(2), Token(7, 0, 0, 0)>>)>>,
          <<Block(2, Head4, <<>>, <<Lit(1)>>), Block(2, Head2, <<>>, <<Token(5, 0, 0, 0)>>)>>,
          <<Fixed(<<Lit(1)>>), Block(3, <<>>, <<>>, <<>>)>>}
    \cup UNION {{<<Stored(b), Fixed(t)>>, <<Fixed(t), Stored(b)>>} :
                 b \in {<<>>, <<1, 2, 3>>}, t \in UpTo(1, FixedTokens)}

\* Two rows of two pixels of one colour, with and without alpha, under every
\* filter; one of them also split at every byte, damaged in every way, and
\* decoded with a heap that is full.
E == INSTANCE Png WITH Levels <- 4, Colours <- 1, Pngs <- {}
Rows(values, n) == [1 .. 2 -> [1 .. n -> values]]
Sample(step, n) == E!Encoded(<<<<1, 2>>, <<3, 1>>>>, <<2, 4>>, step, n)
G == INSTANCE Png WITH
  Levels <- 4, Colours <- 1,
  Pngs <- {E!Encoded(rows, t, 1, 3) : rows \in Rows({0, 1, 3}, 2), t \in [1 .. 2 -> 0 .. 4]}
          \cup {E!Encoded(rows, t, 2, 3) :
                  rows \in Rows({0, 3}, 4), t \in {<<1, 4>>, <<3, 4>>, <<4, 3>>}}
          \cup {Sample(1, n) : n \in 0 .. 8}
          \cup {[Sample(1, 3) EXCEPT !.oom = k] : k \in 1 .. 3}
          \cup UNION {E!Damaged(Sample(step, n)) : step \in {1, 2}, n \in {1, 3, 6}}

-----------------------------------------------------------------------------
services == <<used, program, running, auto_restart, service_process,
              pc, target, proc_index>>
desktop == <<chip, driver, requests, replies, mouse, desk, popups, spawned, press,
             seen, ticks, presses>>
inflate == <<io, br, dst, final, tables, dyn, ipc>>
images == <<png, pngpos, ihdr, idat, total, scan, done, held, out, ppc>>
mcvars == <<part, vars, services, desktop, inflate, images>>

\* A part left alone starts in one of its initial states only; the decoders have
\* no state outside a call.
MCInit ==
  /\ part \in {"processes", "services", "menu", "clock", "inflate", "png"}
  /\ Init /\ S!Init
  /\ IF part = "clock" THEN C!DesktopInit ELSE P!DesktopInit
  /\ part # "clock" => chip.bcd /\ chip.h24
  /\ IF part = "inflate" THEN I!InflateInit
     ELSE /\ io = 0 /\ br = 0 /\ dst = <<>> /\ final = FALSE
          /\ tables = <<>> /\ dyn = <<>> /\ ipc = "off"
  /\ IF part = "png" THEN G!PngInit
     ELSE /\ png = 0 /\ pngpos = 0 /\ ihdr = 0 /\ idat = <<>> /\ total = 0
          /\ scan = <<>> /\ done = 0 /\ held = {} /\ out = <<>> /\ ppc = "off"

MCNext ==
  /\ UNCHANGED part
  /\ \/ part = "processes" /\ Next /\ UNCHANGED <<services, desktop, inflate, images>>
     \/ part = "services" /\ S!Next /\ UNCHANGED <<vars, desktop, inflate, images>>
     \/ part = "menu" /\ P!DesktopNext /\ UNCHANGED <<vars, services, inflate, images>>
     \/ part = "clock" /\ C!DesktopNext /\ UNCHANGED <<vars, services, inflate, images>>
     \/ part = "inflate" /\ I!InflateNext /\ UNCHANGED <<vars, services, desktop, images>>
     \/ part = "png" /\ G!PngNext /\ UNCHANGED <<vars, services, desktop, inflate>>

MCSpec == MCInit /\ [][MCNext]_mcvars

TaskSymmetry == Permutations({t1, t2, t3, t4})

-----------------------------------------------------------------------------
\* The fields of the process and service tables hold slots, tasks or their
\* null values, and g_process_count stays inside the array; the channels of the
\* desktop, and the output of inflate(), stay inside theirs.
TypesOK ==
  /\ TypeOK /\ S!TypeOK /\ P!DesktopTypeOK
  /\ part = "inflate" => I!InflateTypeOK

\* service_start() through system calls and the worker's respawn together never
\* have two processes of one service alive, and a live one is never lost: some
\* row of g_services, or the worker about to write that row, names its slot.
ServicesSound == S!OneInstance /\ S!NoLostInstance

\* A wait on a process does not return while the process lives, even when its
\* slot is reused; and a service that was stopped and has exited comes back only
\* after service_restart() has set auto_restart again.
LifecyclesSound == WaitIsNotEarly /\ S!StoppedStaysDown

\* A press clicks at most one button, the one it was made on, across polls of
\* several buttons and a menu that comes and goes; each popup window is closed
\* and each application started at most once (desktop_shell.c, button.h); and
\* the taskbar shows an instant between request and answer, in whatever format
\* the chip counts (rtc_driver.c).
DesktopSound ==
  part \in {"menu", "clock"} => P!ClicksOnce /\ P!ShownIsCurrent

\* inflate() accepts exactly the streams that are whole, well formed and fit, and
\* writes what they stand for; png_decode() gives the picture a file was made of,
\* refuses a damaged one or still gives that picture, and keeps nothing of the
\* heap when it fails.
ImagesSound ==
  /\ part = "inflate" => I!InflateExact
  /\ part = "png" => G!PngExact
=============================================================================
