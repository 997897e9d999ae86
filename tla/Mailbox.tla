------------------------------ MODULE Mailbox ------------------------------
(***************************************************************************)
(* What an IPC channel promises: a one-place mailbox.  Accepted messages   *)
(* are numbered 1, 2, 3, ...; each is delivered exactly once, in order,    *)
(* and the next is accepted only when the previous one has been delivered. *)
(***************************************************************************)
EXTENDS Naturals

VARIABLES
  accepted,   \* number of messages accepted from senders
  taken,      \* number of deliveries made to receivers
  last        \* the message the last delivery handed over

vars == <<accepted, taken, last>>

Init == accepted = 0 /\ taken = 0 /\ last = 0

Accept ==
  /\ accepted = taken
  /\ accepted' = accepted + 1
  /\ UNCHANGED <<taken, last>>

Deliver ==
  /\ taken < accepted
  /\ taken' = taken + 1
  /\ last' = taken + 1
  /\ UNCHANGED accepted

Next == Accept \/ Deliver

Spec == Init /\ [][Next]_vars
=============================================================================
