--------------------------- MODULE ProcessMemory ---------------------------
(***************************************************************************)
(* What a process may rely on: its memory is its own.  A fork gives the    *)
(* child a copy of the parent's pages as they are at that moment; what     *)
(* either of them writes afterwards the other never sees.                  *)
(***************************************************************************)
CONSTANTS Procs, Pages, Values, Zero, NONE

VARIABLE mem    \* mem[p][v]: what process p reads at page v, or NONE

NoPages == [v \in Pages |-> NONE]

Init == mem = [p \in Procs |-> NoPages]

\* A step changes the memory of one process only.
OnlyOf(p) ==
  /\ DOMAIN mem' = Procs
  /\ \A q \in Procs \ {p} : mem'[q] = mem[q]

\* A process starts with an image, fresh pages all.
Start(p) ==
  /\ mem[p] = NoPages
  /\ mem'[p] \in [Pages -> {Zero, NONE}]

\* It writes a page, or gets a new one.
Change(p, v) ==
  /\ mem[p] # NoPages
  /\ mem'[p][v] \in Values
  /\ mem'[p] = [mem[p] EXCEPT ![v] = mem'[p][v]]

\* It is created by another that forks.
Copy(p) ==
  /\ mem[p] = NoPages
  /\ \E parent \in Procs : mem'[p] = mem[parent]

Exit(p) == mem'[p] = NoPages

Next ==
  \E p \in Procs :
    /\ OnlyOf(p)
    /\ Start(p) \/ (\E v \in Pages : Change(p, v)) \/ Copy(p) \/ Exit(p)

Spec == Init /\ [][Next]_mem
=============================================================================
