-------------------------------- MODULE Fifo --------------------------------
(***************************************************************************)
(* What a pipe promises: a bounded first-in first-out stream of bytes with *)
(* partial writes and partial reads.                                       *)
(***************************************************************************)
EXTENDS Naturals, Sequences

CONSTANTS Bytes, Capacity, MaxLen

VARIABLES
  queue,   \* bytes written and not yet read, oldest first
  out      \* what the last read returned

Lesser(a, b) == IF a < b THEN a ELSE b

Init == queue = <<>> /\ out = <<>>

\* As much of data as fits is appended.
Write(data) ==
  /\ queue' = queue \o SubSeq(data, 1,
                              Lesser(Len(data), Capacity - Len(queue)))
  /\ UNCHANGED out

\* At most n bytes leave, in the order in which they came.
Read(n) ==
  LET k == Lesser(n, Len(queue)) IN
  /\ out' = SubSeq(queue, 1, k)
  /\ queue' = SubSeq(queue, k + 1, Len(queue))

Next ==
  \/ \E len \in 0 .. MaxLen : \E data \in [1 .. len -> Bytes] : Write(data)
  \/ \E n \in 0 .. MaxLen : Read(n)

Spec == Init /\ [][Next]_<<queue, out>>
=============================================================================
