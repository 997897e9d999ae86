------------------------------ MODULE Ownership ------------------------------
(***************************************************************************)
(* What a kernel mutex promises its users.  A free mutex is taken by one   *)
(* task; that task gives it back, or exits without doing so, and then the  *)
(* mutex is orphaned: it stays taken in the name of the exited task and    *)
(* nobody gets it any more.                                                *)
(***************************************************************************)
CONSTANTS Tasks, NONE

VARIABLES
  holder,     \* who has taken the mutex, NONE when it is free
  orphaned    \* whether that task has exited

Fresh == holder = NONE /\ orphaned = FALSE

Taken(t) ==
  /\ holder = NONE
  /\ holder' = t
  /\ UNCHANGED orphaned

GivenBack ==
  /\ holder # NONE
  /\ ~orphaned
  /\ holder' = NONE
  /\ UNCHANGED orphaned

LeftBehind ==
  /\ holder # NONE
  /\ ~orphaned
  /\ orphaned' = TRUE
  /\ UNCHANGED holder

Passes == GivenBack \/ LeftBehind \/ \E t \in Tasks : Taken(t)

Promise == Fresh /\ [][Passes]_<<holder, orphaned>>
=============================================================================
