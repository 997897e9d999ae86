----------------------------- MODULE PipeProofs ------------------------------
(***************************************************************************)
(* A pipe is a first-in first-out stream, for buffers of any size, any     *)
(* bytes and transfers of any length, as long as nobody uses the pipe      *)
(* while the shell is inside pipe_write().                                 *)
(***************************************************************************)
EXTENDS Pipe, SequenceTheorems, TLAPS

\* A buffer of some size, and the shell alone in its pipe_write().
PipeUsual == PIPE_BUF_SIZE \in Nat \ {0} /\ MaxLen \in Nat /\ ~Overlap

-----------------------------------------------------------------------------
(***************************************************************************)
(* Positions of the ring.                                                  *)
(***************************************************************************)
\* Up to one turn, advancing wraps at most once, and stays in the buffer.
LEMMA AdvanceValue ==
  ASSUME PipeUsual, NEW p \in Positions, NEW k \in 0 .. PIPE_BUF_SIZE
  PROVE  /\ Advance(p, k) = IF p + k < PIPE_BUF_SIZE THEN p + k
                            ELSE p + k - PIPE_BUF_SIZE
         /\ Advance(p, k) \in Positions
<1>1. CASE p + k < PIPE_BUF_SIZE
  BY <1>1 DEF PipeUsual, Positions, Advance
<1>2. CASE p + k >= PIPE_BUF_SIZE
  <2>1. (p + k) % PIPE_BUF_SIZE = p + k - PIPE_BUF_SIZE
    BY <1>2 DEF PipeUsual, Positions
  <2> QED BY <1>2, <2>1 DEF PipeUsual, Positions, Advance
<1> QED BY <1>1, <1>2 DEF PipeUsual, Positions

\* Advancing by a and then by b is advancing by a + b.
LEMMA AdvanceAdds ==
  ASSUME PipeUsual, NEW p \in Positions, NEW a \in Nat, NEW b \in Nat, a + b <= PIPE_BUF_SIZE
  PROVE  Advance(Advance(p, a), b) = Advance(p, a + b)
<1>1. a \in 0 .. PIPE_BUF_SIZE /\ b \in 0 .. PIPE_BUF_SIZE /\ a + b \in 0 .. PIPE_BUF_SIZE
  BY DEF PipeUsual
<1>2. /\ Advance(p, a) = IF p + a < PIPE_BUF_SIZE THEN p + a ELSE p + a - PIPE_BUF_SIZE
      /\ Advance(p, a) \in Positions
  BY <1>1, AdvanceValue
<1> DEFINE q == Advance(p, a)
<1>3. Advance(q, b) = IF q + b < PIPE_BUF_SIZE THEN q + b ELSE q + b - PIPE_BUF_SIZE
  <2> HIDE DEF q
  <2>1. q \in Positions
    BY <1>2 DEF q
  <2> QED BY <1>1, <2>1, AdvanceValue
<1>4. Advance(p, a + b) = IF p + (a + b) < PIPE_BUF_SIZE THEN p + (a + b)
                          ELSE p + (a + b) - PIPE_BUF_SIZE
  BY <1>1, AdvanceValue
<1> HIDE DEF q
<1>5. q = IF p + a < PIPE_BUF_SIZE THEN p + a ELSE p + a - PIPE_BUF_SIZE
  BY <1>2 DEF q
<1>6. Advance(q, b) = Advance(p, a + b)
  BY <1>3, <1>4, <1>5 DEF PipeUsual, Positions
<1> QED BY <1>6 DEF q

\* Less than a turn apart, two positions differ.
LEMMA AdvanceDiffers ==
  ASSUME PipeUsual, NEW p \in Positions, NEW a \in 0 .. PIPE_BUF_SIZE - 1,
         NEW b \in 0 .. PIPE_BUF_SIZE - 1, Advance(p, a) = Advance(p, b)
  PROVE  a = b
<1>1. a \in 0 .. PIPE_BUF_SIZE /\ b \in 0 .. PIPE_BUF_SIZE
  BY DEF PipeUsual
<1>2. Advance(p, a) = IF p + a < PIPE_BUF_SIZE THEN p + a ELSE p + a - PIPE_BUF_SIZE
  BY <1>1, AdvanceValue
<1>3. Advance(p, b) = IF p + b < PIPE_BUF_SIZE THEN p + b ELSE p + b - PIPE_BUF_SIZE
  BY <1>1, AdvanceValue
<1>4. (IF p + a < PIPE_BUF_SIZE THEN p + a ELSE p + a - PIPE_BUF_SIZE)
        = (IF p + b < PIPE_BUF_SIZE THEN p + b ELSE p + b - PIPE_BUF_SIZE)
  BY <1>2, <1>3, Zenon
<1>5. p \in Int /\ a \in Int /\ b \in Int /\ PIPE_BUF_SIZE \in Int
      /\ p >= 0 /\ p < PIPE_BUF_SIZE
      /\ a >= 0 /\ a < PIPE_BUF_SIZE /\ b >= 0 /\ b < PIPE_BUF_SIZE
  BY DEF PipeUsual, Positions
<1> QED BY <1>4, <1>5

-----------------------------------------------------------------------------
(***************************************************************************)
(* Functions on 1 .. n as sequences.                                       *)
(***************************************************************************)
LEMMA FunctionIsSequence ==
  ASSUME NEW S, NEW n1 \in Nat, NEW f \in [1 .. n1 -> S]
  PROVE  f \in Seq(S) /\ Len(f) = n1
<1>1. f \in Seq(S)
  BY SeqDef
<1>2. DOMAIN f = 1 .. Len(f) /\ Len(f) \in Nat
  BY <1>1, LenProperties
<1>3. DOMAIN f = 1 .. n1
  OBVIOUS
<1> QED BY <1>1, <1>2, <1>3

\* What a sequence is that continues q with the first k elements of d.
LEMMA IsContinuation ==
  ASSUME NEW S, NEW q \in Seq(S), NEW d \in Seq(S), NEW k \in 0 .. Len(d),
         NEW r \in [1 .. Len(q) + k -> S],
         \A j \in 1 .. Len(q) : r[j] = q[j],
         \A j \in 1 .. k : r[Len(q) + j] = d[j]
  PROVE  r = q \o SubSeq(d, 1, k)
<1>1. Len(q) \in Nat /\ Len(d) \in Nat /\ k \in Nat
  BY LenProperties
<1>2. r \in Seq(S) /\ Len(r) = Len(q) + k
  <2> DEFINE m == Len(q) + k
  <2>1. m \in Nat
    BY <1>1
  <2>2. r \in [1 .. m -> S]
    OBVIOUS
  <2> HIDE DEF m
  <2>3. r \in Seq(S) /\ Len(r) = m
    BY <2>1, <2>2, FunctionIsSequence
  <2> QED BY <2>3 DEF m
<1> DEFINE t == SubSeq(d, 1, k)
<1>3. t \in Seq(S) /\ Len(t) = k /\ \A j \in 1 .. k : t[j] = d[j]
  <2>1. \A j \in 1 .. k : d[j] \in S
    BY <1>1, ElementOfSeq
  <2> QED BY <1>1, <2>1, SubSeqProperties
<1> HIDE DEF t
<1>4. /\ q \o t \in Seq(S) /\ Len(q \o t) = Len(q) + k
      /\ \A j \in 1 .. Len(q) + k : (q \o t)[j] = IF j <= Len(q) THEN q[j] ELSE t[j - Len(q)]
  BY <1>3, ConcatProperties, Zenon
<1>5. ASSUME NEW j \in 1 .. Len(q) + k PROVE r[j] = (q \o t)[j]
  <2>1. CASE j <= Len(q)
    BY <1>1, <1>4, <2>1
  <2>2. CASE j > Len(q)
    <3>1. j - Len(q) \in 1 .. k /\ j = Len(q) + (j - Len(q))
      BY <1>1, <2>2
    <3>2. r[j] = d[j - Len(q)]
      BY <3>1
    <3> QED BY <1>1, <1>3, <1>4, <2>2, <3>1, <3>2
  <2>3. j <= Len(q) \/ j > Len(q)
    BY <1>1
  <2> QED BY <2>1, <2>2, <2>3, Zenon
<1>6. r = q \o t
  BY <1>2, <1>4, <1>5, SeqEqual, Zenon
<1> QED BY <1>6 DEF t

\* What a part of q from position m + 1 on is.
LEMMA IsPart ==
  ASSUME NEW S, NEW q \in Seq(S), NEW m \in Nat, NEW k \in Nat, m + k <= Len(q),
         NEW r \in [1 .. k -> S], \A j \in 1 .. k : r[j] = q[m + j]
  PROVE  r = SubSeq(q, m + 1, m + k)
<1>1. Len(q) \in Nat
  BY LenProperties
<1>2. r \in Seq(S) /\ Len(r) = k
  BY FunctionIsSequence
<1> DEFINE t == SubSeq(q, m + 1, m + k)
<1>3. \A j \in m + 1 .. m + k : q[j] \in S
  BY <1>1, ElementOfSeq
<1>4. t \in Seq(S) /\ Len(t) = k /\ \A j \in 1 .. k : t[j] = q[m + j]
  <2>1. m + 1 \in Int /\ m + k \in Int
    OBVIOUS
  <2>2. /\ t \in Seq(S)
        /\ Len(t) = IF m + 1 <= m + k THEN (m + k) - (m + 1) + 1 ELSE 0
        /\ \A j \in 1 .. (m + k) - (m + 1) + 1 : t[j] = q[(m + 1) + j - 1]
    BY <1>3, <2>1, SubSeqProperties
  <2> HIDE DEF t
  <2>3. Len(t) = k /\ (m + k) - (m + 1) + 1 = k
    BY <2>2
  <2>4. \A j \in 1 .. k : (m + 1) + j - 1 = m + j
    OBVIOUS
  <2> QED BY <2>2, <2>3, <2>4
<1> HIDE DEF t
<1>5. r = t
  BY <1>2, <1>4, SeqEqual
<1> QED BY <1>5 DEF t

-----------------------------------------------------------------------------
(***************************************************************************)
(* The invariant.                                                          *)
(***************************************************************************)
\* Where the shell stands in pipe_write(): i of n bytes are stored, and what it
\* has loaded from the pipe is still there.
ShellAgrees ==
  /\ pipe_pc = "idle" => pipe_n = 0
  /\ pipe_pc # "idle" => pipe_n = Lesser(Len(data), Space)
  /\ pipe_i <= pipe_n
  /\ pipe_pc \in {"index", "byte", "load_pos", "store_pos"} => pipe_i < pipe_n
  /\ pipe_pc \in {"load_count", "store_count"} => pipe_i = pipe_n
  /\ pipe_pc \in {"byte", "store_pos"} => reg = write_pos
  /\ pipe_pc = "store_count" => reg = count

\* The write position is ahead of the read position by the bytes that count
\* and those of the shell that do not count yet, and there is room for the rest.
WriteAhead == count + pipe_n <= PIPE_BUF_SIZE /\ write_pos = Advance(read_pos, count + pipe_i)

\* The bytes the shell has stored follow those that count.
ShellStored ==
  \A j \in 1 .. pipe_n :
    j <= pipe_i \/ (j = pipe_i + 1 /\ pipe_pc \in {"load_pos", "store_pos"}) =>
      buffer[Advance(read_pos, count + j - 1)] = data[j]

PipeInv == PipeTypeOK /\ ShellAgrees /\ WriteAhead /\ ShellStored

\* c bytes of a ring b from position p on; and the stream as Fifo sees it.
Stream(b, p, c) == [j \in 1 .. c |-> b[Advance(p, j - 1)]]

Queue == Stream(buffer, read_pos, count)

\* A message is a sequence of at most MaxLen bytes.
LEMMA MessageIsSequence ==
  ASSUME PipeUsual, NEW d \in Messages
  PROVE  d \in Seq(Bytes) /\ Len(d) \in 0 .. MaxLen /\ d \in [1 .. Len(d) -> Bytes]
<1>1. PICK len \in 0 .. MaxLen : d \in [1 .. len -> Bytes]
  BY DEF Messages
<1>2. len \in Nat
  BY DEF PipeUsual
<1>3. d \in Seq(Bytes) /\ Len(d) = len
  BY <1>1, <1>2, FunctionIsSequence
<1> QED BY <1>1, <1>3

\* c bytes of a ring from position p on are a sequence.
LEMMA StreamIsSequence ==
  ASSUME PipeUsual, NEW b \in [Positions -> Bytes], NEW p \in Positions,
         NEW c \in 0 .. PIPE_BUF_SIZE
  PROVE  /\ Stream(b, p, c) \in [1 .. c -> Bytes]
         /\ Stream(b, p, c) \in Seq(Bytes) /\ Len(Stream(b, p, c)) = c
         /\ \A j \in 1 .. c : Stream(b, p, c)[j] = b[Advance(p, j - 1)]
<1>1. c \in Nat /\ c <= PIPE_BUF_SIZE
  BY DEF PipeUsual
<1>2. ASSUME NEW j \in 1 .. c PROVE Advance(p, j - 1) \in Positions
  <2>1. j - 1 \in 0 .. PIPE_BUF_SIZE
    BY <1>1 DEF PipeUsual
  <2> QED BY <2>1, AdvanceValue
<1>3. Stream(b, p, c) \in [1 .. c -> Bytes]
  BY <1>2 DEF Stream
<1>4. Stream(b, p, c) \in Seq(Bytes) /\ Len(Stream(b, p, c)) = c
  BY <1>1, <1>3, FunctionIsSequence
<1>5. \A j \in 1 .. c : Stream(b, p, c)[j] = b[Advance(p, j - 1)]
  BY DEF Stream
<1> QED BY <1>3, <1>4, <1>5

\* The two Lesser()s, and what they bound.
LEMMA LesserBounds ==
  ASSUME NEW a \in Nat, NEW b \in Nat
  PROVE  Lesser(a, b) \in Nat /\ Lesser(a, b) <= a /\ Lesser(a, b) <= b
BY DEF Lesser

-----------------------------------------------------------------------------
\* pipe_write() in a system call stores the bytes that fit behind the stream and
\* touches none of it.
LEMMA WriteStores ==
  ASSUME PipeUsual, PipeInv, NEW d \in Messages, pipe_write(d),
         NEW k, k = Lesser(Len(d), Space)
  PROVE  /\ k \in 0 .. Len(d) /\ count + k <= PIPE_BUF_SIZE /\ pipe_pc = "idle"
         /\ write_pos = Advance(read_pos, count)
         /\ buffer' \in [Positions -> Bytes]
         /\ \A j \in 1 .. count :
              buffer'[Advance(read_pos, j - 1)] = buffer[Advance(read_pos, j - 1)]
         /\ \A j \in 1 .. k : buffer'[Advance(read_pos, count + j - 1)] = d[j]
<1>1. count \in Nat /\ count <= PIPE_BUF_SIZE /\ Space \in Nat /\ read_pos \in Positions
      /\ buffer \in [Positions -> Bytes] /\ PIPE_BUF_SIZE \in Nat
  BY DEF PipeUsual, PipeInv, PipeTypeOK, Space
<1>2. pipe_pc = "idle"
  BY DEF PipeUsual, pipe_write
<1>3. d \in Seq(Bytes) /\ Len(d) \in Nat /\ d \in [1 .. Len(d) -> Bytes]
  BY MessageIsSequence DEF PipeUsual
<1>4. k \in Nat /\ k <= Len(d) /\ count + k <= PIPE_BUF_SIZE
  <2>1. k <= Space /\ k <= Len(d) /\ k \in Nat
    BY <1>1, <1>3, LesserBounds
  <2> QED BY <2>1, <1>1 DEF Space
<1>5. write_pos = Advance(read_pos, count)
  <2>1. pipe_n = 0 /\ pipe_i = 0
    BY <1>2 DEF PipeInv, ShellAgrees, PipeTypeOK
  <2>2. write_pos = Advance(read_pos, count + pipe_i) /\ count + pipe_i = count
    BY <2>1, <1>1 DEF PipeInv, WriteAhead
  <2> QED BY <2>2
<1>6. ASSUME NEW j \in 1 .. k
      PROVE  /\ Advance(write_pos, j - 1) = Advance(read_pos, count + j - 1)
             /\ count + j - 1 \in 0 .. PIPE_BUF_SIZE - 1
  <2>1. j - 1 \in Nat /\ count + (j - 1) <= PIPE_BUF_SIZE /\ count + (j - 1) = count + j - 1
    BY <1>1, <1>4
  <2>2. Advance(write_pos, j - 1) = Advance(read_pos, count + (j - 1))
    BY <1>1, <1>5, <2>1, AdvanceAdds
  <2>3. count + j - 1 \in 0 .. PIPE_BUF_SIZE - 1
    BY <1>1, <1>4
  <2> QED BY <2>1, <2>2, <2>3
<1>7. buffer' = [q \in Positions |->
                  IF StoredAt(k, q) = {} THEN buffer[q]
                  ELSE d[CHOOSE j \in StoredAt(k, q) : TRUE]]
  BY DEF pipe_write
<1>8. ASSUME NEW q \in Positions, StoredAt(k, q) # {}
      PROVE  (CHOOSE j \in StoredAt(k, q) : TRUE) \in StoredAt(k, q)
  BY <1>8
<1>9. buffer' \in [Positions -> Bytes]
  <2>1. ASSUME NEW q \in Positions, StoredAt(k, q) # {}
        PROVE  d[CHOOSE j \in StoredAt(k, q) : TRUE] \in Bytes
    <3>1. (CHOOSE j \in StoredAt(k, q) : TRUE) \in 1 .. k
      BY <1>8, <2>1 DEF StoredAt
    <3>2. (CHOOSE j \in StoredAt(k, q) : TRUE) \in 1 .. Len(d)
      BY <3>1, <1>3, <1>4
    <3> QED BY <3>2, <1>3
  <2> QED BY <1>1, <1>7, <2>1
<1>10. ASSUME NEW j \in 1 .. count
       PROVE  buffer'[Advance(read_pos, j - 1)] = buffer[Advance(read_pos, j - 1)]
  <2>1. j - 1 \in 0 .. PIPE_BUF_SIZE - 1 /\ j - 1 \in 0 .. PIPE_BUF_SIZE
    BY <1>1
  <2>2. Advance(read_pos, j - 1) \in Positions
    BY <1>1, <2>1, AdvanceValue
  <2>3. ASSUME NEW m \in 1 .. k, Advance(write_pos, m - 1) = Advance(read_pos, j - 1)
        PROVE  FALSE
    <3>1. Advance(read_pos, count + m - 1) = Advance(read_pos, j - 1)
          /\ count + m - 1 \in 0 .. PIPE_BUF_SIZE - 1
      BY <1>6, <2>3
    <3>2. count + m - 1 = j - 1
      BY <1>1, <2>1, <3>1, AdvanceDiffers
    <3> QED BY <1>1, <1>4, <3>2
  <2>4. StoredAt(k, Advance(read_pos, j - 1)) = {}
    BY <2>3 DEF StoredAt
  <2> QED BY <1>7, <2>2, <2>4
<1>11. ASSUME NEW j \in 1 .. k
       PROVE  buffer'[Advance(read_pos, count + j - 1)] = d[j]
  <2> DEFINE q == Advance(read_pos, count + j - 1)
  <2>1. count + j - 1 \in 0 .. PIPE_BUF_SIZE - 1 /\ count + j - 1 \in 0 .. PIPE_BUF_SIZE
    BY <1>1, <1>6
  <2>2. q \in Positions
    BY <1>1, <2>1, AdvanceValue
  <2>3. j \in StoredAt(k, q)
    BY <1>6 DEF StoredAt
  <2>4. ASSUME NEW m \in StoredAt(k, q) PROVE m = j
    <3>1. m \in 1 .. k /\ Advance(write_pos, m - 1) = q
      BY <2>4 DEF StoredAt
    <3>2. Advance(read_pos, count + m - 1) = Advance(read_pos, count + j - 1)
          /\ count + m - 1 \in 0 .. PIPE_BUF_SIZE - 1
      BY <1>6, <3>1
    <3>3. count + m - 1 = count + j - 1
      BY <1>1, <2>1, <3>2, AdvanceDiffers
    <3> QED BY <1>1, <1>4, <3>1, <3>3
  <2> HIDE DEF q
  <2>5. (CHOOSE m \in StoredAt(k, q) : TRUE) = j
    BY <1>8, <2>2, <2>3, <2>4
  <2>6. buffer'[q] = d[j]
    BY <1>7, <2>2, <2>3, <2>5
  <2> QED BY <2>6 DEF q
<1> QED BY <1>2, <1>3, <1>4, <1>5, <1>9, <1>10, <1>11

-----------------------------------------------------------------------------
(***************************************************************************)
(* The invariant is kept.                                                  *)
(***************************************************************************)
\* A pipe fresh from alloc_pipe() satisfies the invariant.
LEMMA PipeInitInv == PipeUsual /\ PipeInit => PipeInv
<1> SUFFICES ASSUME PipeUsual, PipeInit PROVE PipeInv
  OBVIOUS
<1>1. <<>> \in Messages
  <2>1. <<>> \in [1 .. 0 -> Bytes] /\ 0 \in 0 .. MaxLen
    BY DEF PipeUsual
  <2> QED BY <2>1 DEF Messages
<1>2. PipeTypeOK
  BY <1>1 DEF PipeUsual, PipeInit, PipeTypeOK, Positions
<1>3. ShellAgrees
  BY DEF PipeInit, ShellAgrees
<1>4. WriteAhead
  <2>1. 0 \in Positions /\ 0 \in 0 .. PIPE_BUF_SIZE /\ 0 < PIPE_BUF_SIZE
    BY DEF PipeUsual, Positions
  <2>2. Advance(0, 0) = 0
    BY <2>1, AdvanceValue
  <2> QED BY <2>1, <2>2 DEF PipeUsual, PipeInit, WriteAhead
<1>5. ShellStored
  BY DEF PipeInit, ShellStored
<1> QED BY <1>2, <1>3, <1>4, <1>5 DEF PipeInv

\* pipe_write() in a system call.
LEMMA WriteInv == ASSUME PipeUsual, PipeInv, NEW d \in Messages, pipe_write(d) PROVE PipeInv'
<1> DEFINE k == Lesser(Len(d), Space)
<1>1. /\ k \in 0 .. Len(d) /\ count + k <= PIPE_BUF_SIZE /\ pipe_pc = "idle"
      /\ write_pos = Advance(read_pos, count)
      /\ buffer' \in [Positions -> Bytes]
  BY WriteStores
<1>2. write_pos' = Advance(write_pos, k) /\ count' = count + k
      /\ UNCHANGED <<read_pos, out, pipe_pc, data, pipe_n, pipe_i, reg>>
  BY DEF pipe_write, shell
<1>3. count \in Nat /\ k \in Nat /\ read_pos \in Positions /\ PIPE_BUF_SIZE \in Nat
      /\ pipe_n = 0 /\ pipe_i = 0
  BY <1>1, MessageIsSequence DEF PipeUsual, PipeInv, PipeTypeOK, ShellAgrees
<1> HIDE DEF k
<1>4. write_pos' = Advance(read_pos, count + k) /\ write_pos' \in Positions
  <2>1. write_pos' = Advance(read_pos, count + k)
    BY <1>1, <1>2, <1>3, AdvanceAdds
  <2>2. count + k \in 0 .. PIPE_BUF_SIZE
    BY <1>1, <1>3
  <2> QED BY <1>3, <2>1, <2>2, AdvanceValue
<1>5. PipeTypeOK'
  BY <1>1, <1>2, <1>3, <1>4 DEF PipeInv, PipeTypeOK
<1>6. ShellAgrees'
  BY <1>1, <1>2 DEF PipeInv, ShellAgrees
<1>7. WriteAhead'
  <2>1. count' + pipe_n' = count + k /\ count' + pipe_i' = count + k
    BY <1>2, <1>3
  <2> QED BY <1>1, <1>2, <1>4, <2>1 DEF WriteAhead
<1>8. ShellStored'
  BY <1>2, <1>3 DEF ShellStored
<1> QED BY <1>5, <1>6, <1>7, <1>8 DEF PipeInv

\* pipe_read() takes k bytes from the front of the stream.
LEMMA ReadTakes ==
  ASSUME PipeUsual, PipeInv, NEW max_len \in 0 .. MaxLen, pipe_read(max_len),
         NEW k, k = Lesser(max_len, count)
  PROVE  /\ k \in Nat /\ k <= count /\ k <= MaxLen /\ pipe_pc = "idle"
         /\ write_pos = Advance(read_pos, count)
         /\ read_pos' = Advance(read_pos, k) /\ read_pos' \in Positions
         /\ count' = count - k
         /\ out' = [j \in 1 .. k |-> buffer[Advance(read_pos, j - 1)]]
         /\ out' \in [1 .. k -> Bytes]
<1>1. count \in Nat /\ count <= PIPE_BUF_SIZE /\ read_pos \in Positions
      /\ buffer \in [Positions -> Bytes] /\ PIPE_BUF_SIZE \in Nat /\ max_len \in Nat
      /\ MaxLen \in Nat
  BY DEF PipeUsual, PipeInv, PipeTypeOK
<1>2. pipe_pc = "idle"
  BY DEF PipeUsual, pipe_read
<1>3. k \in Nat /\ k <= count /\ k <= max_len
  BY <1>1, LesserBounds
<1>4. k <= MaxLen
  BY <1>1, <1>3
<1>5. write_pos = Advance(read_pos, count)
  <2>1. pipe_n = 0 /\ pipe_i = 0
    BY <1>2 DEF PipeInv, ShellAgrees, PipeTypeOK
  <2>2. write_pos = Advance(read_pos, count + pipe_i) /\ count + pipe_i = count
    BY <2>1, <1>1 DEF PipeInv, WriteAhead
  <2> QED BY <2>2
<1>6. read_pos' = Advance(read_pos, k) /\ count' = count - k
      /\ out' = [j \in 1 .. k |-> buffer[Advance(read_pos, j - 1)]]
  BY DEF pipe_read
<1>7. ASSUME NEW j \in 1 .. k PROVE buffer[Advance(read_pos, j - 1)] \in Bytes
  <2>1. j - 1 \in 0 .. PIPE_BUF_SIZE
    BY <1>1, <1>3
  <2>2. Advance(read_pos, j - 1) \in Positions
    BY <1>1, <2>1, AdvanceValue
  <2> QED BY <1>1, <2>2
<1>8. out' \in [1 .. k -> Bytes]
  BY <1>6, <1>7
<1>9. read_pos' \in Positions
  <2>1. k \in 0 .. PIPE_BUF_SIZE
    BY <1>1, <1>3
  <2> QED BY <1>1, <1>6, <2>1, AdvanceValue
<1> QED BY <1>2, <1>3, <1>4, <1>5, <1>6, <1>8, <1>9

\* pipe_read() in a system call.
LEMMA ReadInv ==
  ASSUME PipeUsual, PipeInv, NEW max_len \in 0 .. MaxLen, pipe_read(max_len) PROVE PipeInv'
<1> DEFINE k == Lesser(max_len, count)
<1>1. /\ k \in Nat /\ k <= count /\ k <= MaxLen /\ pipe_pc = "idle"
      /\ write_pos = Advance(read_pos, count)
      /\ read_pos' = Advance(read_pos, k) /\ read_pos' \in Positions
      /\ count' = count - k
      /\ out' \in [1 .. k -> Bytes]
  BY ReadTakes
<1>2. UNCHANGED <<buffer, write_pos, pipe_pc, data, pipe_n, pipe_i, reg>>
  BY DEF pipe_read, shell
<1>3. count \in Nat /\ count <= PIPE_BUF_SIZE /\ read_pos \in Positions
      /\ PIPE_BUF_SIZE \in Nat /\ pipe_n = 0 /\ pipe_i = 0 /\ MaxLen \in Nat
  BY <1>1 DEF PipeUsual, PipeInv, PipeTypeOK, ShellAgrees
<1> HIDE DEF k
<1>4. write_pos = Advance(read_pos', count - k)
  <2>1. count - k \in Nat /\ k + (count - k) = count
    BY <1>1, <1>3
  <2>2. Advance(Advance(read_pos, k), count - k) = Advance(read_pos, k + (count - k))
    BY <1>1, <1>3, <2>1, AdvanceAdds
  <2> QED BY <1>1, <2>1, <2>2
<1>5. out' \in Messages
  <2>1. k \in 0 .. MaxLen
    BY <1>1, <1>3
  <2> QED BY <1>1, <2>1 DEF Messages
<1>6. PipeTypeOK'
  BY <1>1, <1>2, <1>3, <1>5 DEF PipeInv, PipeTypeOK
<1>7. ShellAgrees'
  BY <1>1, <1>2 DEF PipeInv, ShellAgrees
<1>8. WriteAhead'
  <2>1. count' + pipe_n' = count - k /\ count' + pipe_i' = count - k
    BY <1>1, <1>2, <1>3
  <2>2. count - k <= PIPE_BUF_SIZE
    BY <1>1, <1>3
  <2> QED BY <1>2, <1>4, <2>1, <2>2 DEF WriteAhead
<1>9. ShellStored'
  BY <1>2, <1>3 DEF ShellStored
<1> QED BY <1>6, <1>7, <1>8, <1>9 DEF PipeInv

\* The shell enters pipe_write(): it computes how much fits.
LEMMA ShellWriteInv ==
  ASSUME PipeUsual, PipeInv, NEW d \in Messages, ShellWrite(d) PROVE PipeInv'
<1>1. pipe_pc = "idle" /\ pipe_pc' = "test" /\ data' = d /\ pipe_n' = Lesser(Len(d), Space) /\ pipe_i' = 0
      /\ UNCHANGED <<buffer, read_pos, write_pos, count, out, reg>>
  BY DEF ShellWrite, pipe
<1>2. count \in Nat /\ Space \in Nat /\ PIPE_BUF_SIZE \in Nat /\ MaxLen \in Nat
      /\ Len(d) \in 0 .. MaxLen /\ Len(d) \in Nat /\ pipe_n = 0 /\ pipe_i = 0 /\ count + pipe_i = count
  BY <1>1, MessageIsSequence DEF PipeUsual, PipeInv, PipeTypeOK, ShellAgrees, Space
<1>3. pipe_n' \in Nat /\ pipe_n' <= Len(d) /\ pipe_n' <= Space
  BY <1>1, <1>2, LesserBounds
<1>4. PipeTypeOK'
  BY <1>1, <1>2, <1>3 DEF PipeInv, PipeTypeOK
<1>5. ShellAgrees'
  BY <1>1, <1>3 DEF ShellAgrees, Space
<1>6. WriteAhead'
  BY <1>1, <1>2, <1>3 DEF PipeInv, WriteAhead, Space
<1>7. ShellStored'
  BY <1>1 DEF ShellStored
<1> QED BY <1>4, <1>5, <1>6, <1>7 DEF PipeInv

\* The test and the three loads.
LEMMA ShellLoadInv ==
  ASSUME PipeUsual, PipeInv, ShellTest \/ ShellIndex \/ ShellLoadPos \/ ShellLoadCount PROVE PipeInv'
<1>1. UNCHANGED <<buffer, read_pos, write_pos, count, out, data, pipe_n, pipe_i>>
  BY DEF ShellTest, ShellIndex, ShellLoadPos, ShellLoadCount, ShellLoad, pipe
<1>2. PipeTypeOK'
  BY <1>1 DEF PipeUsual, PipeInv, PipeTypeOK, Positions, ShellTest, ShellIndex, ShellLoadPos,
              ShellLoadCount, ShellLoad
<1>3. pipe_i \in Nat /\ pipe_n \in Nat
  BY DEF PipeUsual, PipeInv, PipeTypeOK
<1>4. ShellAgrees'
  BY <1>1, <1>3 DEF PipeInv, ShellAgrees, Space, ShellTest, ShellIndex, ShellLoadPos,
                    ShellLoadCount, ShellLoad
<1>5. WriteAhead'
  BY <1>1 DEF PipeInv, WriteAhead
<1>6. ShellStored'
  BY <1>1, <1>3 DEF PipeInv, ShellStored, ShellTest, ShellIndex, ShellLoadPos,
                    ShellLoadCount, ShellLoad
<1> QED BY <1>2, <1>4, <1>5, <1>6 DEF PipeInv

\* The shell stores a byte behind the stream and behind what it has stored.
LEMMA ByteStored ==
  ASSUME PipeUsual, PipeInv, ShellByte
  PROVE  /\ buffer' \in [Positions -> Bytes]
         /\ buffer'[Advance(read_pos, count + pipe_i)] = data[pipe_i + 1]
         /\ \A m \in 0 .. count + pipe_i - 1 :
              buffer'[Advance(read_pos, m)] = buffer[Advance(read_pos, m)]
<1>1. count \in Nat /\ pipe_i \in Nat /\ pipe_n \in Nat /\ PIPE_BUF_SIZE \in Nat /\ pipe_i < pipe_n
      /\ count + pipe_n <= PIPE_BUF_SIZE /\ read_pos \in Positions
      /\ buffer \in [Positions -> Bytes] /\ data \in Messages
      /\ pipe_n = Lesser(Len(data), Space) /\ Space \in Nat
  BY DEF PipeUsual, PipeInv, PipeTypeOK, ShellAgrees, WriteAhead, ShellByte, Space
<1>2. reg = Advance(read_pos, count + pipe_i)
  BY DEF PipeInv, ShellAgrees, WriteAhead, ShellByte
<1>3. count + pipe_i \in 0 .. PIPE_BUF_SIZE - 1 /\ count + pipe_i \in 0 .. PIPE_BUF_SIZE
  BY <1>1
<1>4. reg \in Positions
  BY <1>1, <1>2, <1>3, AdvanceValue
<1>5. data[pipe_i + 1] \in Bytes
  <2>1. data \in [1 .. Len(data) -> Bytes] /\ Len(data) \in Nat
    BY <1>1, MessageIsSequence DEF PipeUsual
  <2>2. pipe_n <= Len(data)
    BY <1>1, <2>1, LesserBounds
  <2> QED BY <1>1, <2>1, <2>2
<1>6. buffer' = [buffer EXCEPT ![reg] = data[pipe_i + 1]]
  BY DEF ShellByte
<1>7. ASSUME NEW m \in 0 .. count + pipe_i - 1
      PROVE  buffer'[Advance(read_pos, m)] = buffer[Advance(read_pos, m)]
  <2>1. m \in 0 .. PIPE_BUF_SIZE - 1 /\ m \in 0 .. PIPE_BUF_SIZE /\ m # count + pipe_i
    BY <1>1
  <2>2. Advance(read_pos, m) \in Positions
    BY <1>1, <2>1, AdvanceValue
  <2>3. Advance(read_pos, m) # reg
    BY <1>1, <1>2, <1>3, <2>1, AdvanceDiffers
  <2> QED BY <1>1, <1>6, <2>2, <2>3
<1>8. buffer' \in [Positions -> Bytes] /\ buffer'[reg] = data[pipe_i + 1]
  BY <1>1, <1>4, <1>5, <1>6
<1> QED BY <1>2, <1>7, <1>8

LEMMA ShellByteInv == ASSUME PipeUsual, PipeInv, ShellByte PROVE PipeInv'
<1>1. pipe_pc = "byte" /\ pipe_pc' = "load_pos"
      /\ UNCHANGED <<read_pos, write_pos, count, out, data, pipe_n, pipe_i, reg>>
  BY DEF ShellByte
<1>2. count \in Nat /\ pipe_i \in Nat /\ pipe_n \in Nat
  BY DEF PipeUsual, PipeInv, PipeTypeOK
<1>3. PipeTypeOK'
  BY <1>1, ByteStored DEF PipeInv, PipeTypeOK
<1>4. ShellAgrees'
  BY <1>1 DEF PipeInv, ShellAgrees, Space
<1>5. WriteAhead'
  BY <1>1 DEF PipeInv, WriteAhead
<1>6. ShellStored'
  <2> SUFFICES ASSUME NEW j \in 1 .. pipe_n, j <= pipe_i \/ j = pipe_i + 1
               PROVE  buffer'[Advance(read_pos, count + j - 1)] = data[j]
    BY <1>1 DEF ShellStored
  <2>1. CASE j = pipe_i + 1
    <3>1. count + j - 1 = count + pipe_i
      BY <1>2, <2>1
    <3> QED BY <2>1, <3>1, ByteStored
  <2>2. CASE j <= pipe_i
    <3>1. count + j - 1 \in 0 .. count + pipe_i - 1
      BY <1>2, <2>2
    <3>2. buffer[Advance(read_pos, count + j - 1)] = data[j]
      BY <2>2 DEF PipeInv, ShellStored
    <3> QED BY <3>1, <3>2, ByteStored
  <2> QED BY <2>1, <2>2
<1> QED BY <1>3, <1>4, <1>5, <1>6 DEF PipeInv

LEMMA ShellStorePosInv == ASSUME PipeUsual, PipeInv, ShellStorePos PROVE PipeInv'
<1>1. pipe_pc = "store_pos" /\ pipe_pc' = "test" /\ pipe_i' = pipe_i + 1 /\ write_pos' = Advance(reg, 1)
      /\ UNCHANGED <<buffer, read_pos, count, out, data, pipe_n, reg>>
  BY DEF ShellStorePos
<1>2. count \in Nat /\ pipe_i \in Nat /\ pipe_n \in 0 .. MaxLen /\ MaxLen \in Nat /\ pipe_i < pipe_n
      /\ PIPE_BUF_SIZE \in Nat /\ count + pipe_n <= PIPE_BUF_SIZE /\ read_pos \in Positions
      /\ reg = Advance(read_pos, count + pipe_i)
  BY <1>1 DEF PipeUsual, PipeInv, PipeTypeOK, ShellAgrees, WriteAhead
<1>3. write_pos' = Advance(read_pos, count + pipe_i + 1) /\ write_pos' \in Positions
  <2>1. count + pipe_i \in Nat /\ 1 \in Nat /\ (count + pipe_i) + 1 <= PIPE_BUF_SIZE
    BY <1>2
  <2>2. Advance(Advance(read_pos, count + pipe_i), 1) = Advance(read_pos, (count + pipe_i) + 1)
    BY <1>2, <2>1, AdvanceAdds
  <2>3. count + pipe_i + 1 \in 0 .. PIPE_BUF_SIZE
    BY <1>2
  <2>4. Advance(read_pos, count + pipe_i + 1) \in Positions
    BY <1>2, <2>3, AdvanceValue
  <2> QED BY <1>1, <1>2, <2>2, <2>4
<1>4. PipeTypeOK'
  BY <1>1, <1>2, <1>3 DEF PipeInv, PipeTypeOK
<1>5. ShellAgrees'
  BY <1>1, <1>2 DEF PipeInv, ShellAgrees, Space
<1>6. WriteAhead'
  <2>1. count' + pipe_i' = count + pipe_i + 1
    BY <1>1, <1>2
  <2> QED BY <1>1, <1>2, <1>3, <2>1 DEF WriteAhead
<1>7. ShellStored'
  <2> SUFFICES ASSUME NEW j \in 1 .. pipe_n, j <= pipe_i + 1
               PROVE  buffer[Advance(read_pos, count + j - 1)] = data[j]
    BY <1>1 DEF ShellStored
  <2>1. j <= pipe_i \/ j = pipe_i + 1
    BY <1>2
  <2> QED BY <1>1, <2>1 DEF PipeInv, ShellStored
<1> QED BY <1>4, <1>5, <1>6, <1>7 DEF PipeInv

\* The shell's bytes count from now on.
LEMMA ShellStoreCountInv == ASSUME PipeUsual, PipeInv, ShellStoreCount PROVE PipeInv'
<1>1. pipe_pc = "store_count" /\ pipe_pc' = "idle" /\ count' = reg + pipe_n
      /\ data' = <<>> /\ pipe_n' = 0 /\ pipe_i' = 0 /\ reg' = 0
      /\ UNCHANGED <<buffer, read_pos, write_pos, out>>
  BY DEF ShellStoreCount
<1>2. count \in Nat /\ pipe_n \in Nat /\ pipe_i = pipe_n /\ reg = count /\ MaxLen \in Nat
      /\ PIPE_BUF_SIZE \in Nat /\ count + pipe_n <= PIPE_BUF_SIZE
  BY <1>1 DEF PipeUsual, PipeInv, PipeTypeOK, ShellAgrees, WriteAhead
<1>3. <<>> \in Messages
  <2>1. <<>> \in [1 .. 0 -> Bytes] /\ 0 \in 0 .. MaxLen
    BY DEF PipeUsual
  <2> QED BY <2>1 DEF Messages
<1>4. PipeTypeOK'
  BY <1>1, <1>2, <1>3 DEF PipeInv, PipeTypeOK
<1>5. ShellAgrees'
  BY <1>1 DEF ShellAgrees
<1>6. WriteAhead'
  <2>1. count' + pipe_n' = count + pipe_n /\ count' + pipe_i' = count + pipe_i
    BY <1>1, <1>2
  <2> QED BY <1>1, <1>2, <2>1 DEF PipeInv, WriteAhead
<1>7. ShellStored'
  BY <1>1 DEF ShellStored
<1> QED BY <1>4, <1>5, <1>6, <1>7 DEF PipeInv

\* Every step keeps the invariant.
LEMMA PipeNextInv == PipeUsual /\ PipeInv /\ [PipeNext]_pipe_vars => PipeInv'
<1> SUFFICES ASSUME PipeUsual, PipeInv, [PipeNext]_pipe_vars PROVE PipeInv'
  OBVIOUS
<1>1. CASE UNCHANGED pipe_vars
  BY <1>1 DEF pipe_vars, pipe, shell, PipeInv, PipeTypeOK, ShellAgrees, WriteAhead, ShellStored, Space
<1>2. CASE PipeNext
  BY <1>2, WriteInv, ReadInv, ShellWriteInv, ShellLoadInv, ShellByteInv,
     ShellStorePosInv, ShellStoreCountInv DEF PipeNext
<1> QED BY <1>1, <1>2

-----------------------------------------------------------------------------
(***************************************************************************)
(* The steps of Fifo.                                                      *)
(***************************************************************************)
\* If k bytes of a message have come to stand behind the stream, it was written.
LEMMA WrittenIsAppended ==
  ASSUME PipeUsual, PipeInv, NEW d \in Messages, NEW k, k = Lesser(Len(d), Space),
         count + k <= PIPE_BUF_SIZE, k \in 0 .. Len(d),
         buffer' \in [Positions -> Bytes], read_pos' = read_pos, count' = count + k,
         \A j \in 1 .. count :
           buffer'[Advance(read_pos, j - 1)] = buffer[Advance(read_pos, j - 1)],
         \A j \in 1 .. k : buffer'[Advance(read_pos, count + j - 1)] = d[j]
  PROVE  Queue' = Queue \o SubSeq(d, 1, Lesser(Len(d), PIPE_BUF_SIZE - Len(Queue)))
<1>1. count \in Nat /\ PIPE_BUF_SIZE \in Nat /\ read_pos \in Positions
  BY DEF PipeUsual, PipeInv, PipeTypeOK
<1>2. d \in Seq(Bytes) /\ Len(d) \in Nat /\ k \in Nat
  BY MessageIsSequence DEF PipeUsual
<1>3. Queue \in Seq(Bytes) /\ Len(Queue) = count
      /\ \A j \in 1 .. count : Queue[j] = buffer[Advance(read_pos, j - 1)]
  BY StreamIsSequence, Zenon DEF PipeInv, PipeTypeOK, Queue
<1>4. Queue' = Stream(buffer', read_pos, count + k) /\ count + k \in 0 .. PIPE_BUF_SIZE
  <2>1. read_pos' = read_pos /\ count' = count + k
    OBVIOUS
  <2>2. Queue' = Stream(buffer', read_pos', count')
    BY ONLY DEF Queue
  <2>3. Queue' = Stream(buffer', read_pos, count + k)
    BY ONLY <2>1, <2>2
  <2>4. count + k <= PIPE_BUF_SIZE
    OBVIOUS
  <2>5. count + k \in 0 .. PIPE_BUF_SIZE
    BY ONLY <1>1, <1>2, <2>4
  <2> QED BY ONLY <2>3, <2>5
<1>5. Queue' \in [1 .. count + k -> Bytes]
      /\ \A j \in 1 .. count + k : Queue'[j] = buffer'[Advance(read_pos, j - 1)]
  BY <1>1, <1>4, StreamIsSequence, Zenon
<1>6. \A j \in 1 .. Len(Queue) : Queue'[j] = Queue[j]
  <2> SUFFICES ASSUME NEW j \in 1 .. count PROVE Queue'[j] = Queue[j]
    BY <1>3
  <2>1. j \in 1 .. count + k
    BY <1>1, <1>2
  <2>2. Queue'[j] = buffer'[Advance(read_pos, j - 1)]
    BY <1>5, <2>1
  <2>3. Queue[j] = buffer[Advance(read_pos, j - 1)]
    BY <1>3
  <2>4. buffer'[Advance(read_pos, j - 1)] = buffer[Advance(read_pos, j - 1)]
    OBVIOUS
  <2> QED BY <2>2, <2>3, <2>4
<1>7. \A j \in 1 .. k : Queue'[Len(Queue) + j] = d[j]
  <2> SUFFICES ASSUME NEW j \in 1 .. k PROVE Queue'[count + j] = d[j]
    BY <1>3
  <2>1. count + j \in 1 .. count + k
    BY <1>1, <1>2
  <2>2. Queue'[count + j] = buffer'[Advance(read_pos, (count + j) - 1)]
    BY <1>5, <2>1
  <2>3. buffer'[Advance(read_pos, count + j - 1)] = d[j]
    OBVIOUS
  <2>4. (count + j) - 1 = count + j - 1
    BY <1>1
  <2> QED BY <2>2, <2>3, <2>4
<1>8. Queue' = Queue \o SubSeq(d, 1, k)
  <2> DEFINE q == Queue r == Queue'
  <2>1. q \in Seq(Bytes) /\ r \in [1 .. Len(q) + k -> Bytes]
        /\ (\A j \in 1 .. Len(q) : r[j] = q[j]) /\ (\A j \in 1 .. k : r[Len(q) + j] = d[j])
    BY <1>3, <1>5, <1>6, <1>7
  <2>2. d \in Seq(Bytes) /\ k \in 0 .. Len(d)
    BY <1>2
  <2> HIDE DEF q, r
  <2>3. r = q \o SubSeq(d, 1, k)
    BY ONLY <2>1, <2>2, IsContinuation
  <2> QED BY <2>3 DEF q, r
<1>9. k = Lesser(Len(d), PIPE_BUF_SIZE - Len(Queue))
  BY <1>3 DEF Space
<1> QED BY <1>8, <1>9

\* A write of a process is a write to the stream.
LEMMA WriteRefines ==
  ASSUME PipeUsual, PipeInv, NEW d \in Messages, pipe_write(d) PROVE F!Write(d)
<1> DEFINE k == Lesser(Len(d), Space)
<1>1. read_pos' = read_pos /\ count' = count + k /\ out' = out
  BY DEF pipe_write
<1>2. Queue' = Queue \o SubSeq(d, 1, Lesser(Len(d), PIPE_BUF_SIZE - Len(Queue)))
  BY <1>1, WriteStores, WrittenIsAppended, Zenon
<1> QED BY <1>1, <1>2, Zenon DEF F!Write, F!Lesser, Lesser, Queue, Stream

\* So is the store of count that ends the shell's pipe_write().
LEMMA StoreCountRefines ==
  ASSUME PipeUsual, PipeInv, ShellStoreCount PROVE F!Write(data) /\ data \in Messages
<1>1. pipe_pc = "store_count" /\ count' = reg + pipe_n /\ UNCHANGED <<buffer, read_pos, out>>
  BY DEF ShellStoreCount
<1>2. count \in Nat /\ pipe_n \in Nat /\ pipe_i = pipe_n /\ reg = count /\ data \in Messages
      /\ PIPE_BUF_SIZE \in Nat /\ count + pipe_n <= PIPE_BUF_SIZE /\ Space \in Nat
      /\ pipe_n = Lesser(Len(data), Space) /\ buffer \in [Positions -> Bytes]
  BY <1>1 DEF PipeUsual, PipeInv, PipeTypeOK, ShellAgrees, WriteAhead, Space
<1>3. pipe_n \in 0 .. Len(data)
  <2>1. Len(data) \in Nat
    BY <1>2, MessageIsSequence DEF PipeUsual
  <2> QED BY <1>2, <2>1, LesserBounds
<1>4. \A j \in 1 .. pipe_n : buffer[Advance(read_pos, count + j - 1)] = data[j]
  BY <1>2 DEF PipeInv, ShellStored
<1>5. Queue' = Queue \o SubSeq(data, 1, Lesser(Len(data), PIPE_BUF_SIZE - Len(Queue)))
  BY <1>1, <1>2, <1>3, <1>4, WrittenIsAppended, Zenon
<1> QED BY <1>1, <1>2, <1>5 DEF F!Write, F!Lesser, Lesser, Queue, Stream

\* A read of a process takes the front of the stream.
LEMMA ReadRefines ==
  ASSUME PipeUsual, PipeInv, NEW max_len \in 0 .. MaxLen, pipe_read(max_len)
  PROVE  F!Read(max_len)
<1> DEFINE k == Lesser(max_len, count)
           q == Queue
<1>1. /\ k \in Nat /\ k <= count
      /\ read_pos' = Advance(read_pos, k) /\ read_pos' \in Positions
      /\ count' = count - k
      /\ out' = [j \in 1 .. k |-> buffer[Advance(read_pos, j - 1)]]
      /\ out' \in [1 .. k -> Bytes]
  BY ReadTakes
<1>2. count \in Nat /\ count <= PIPE_BUF_SIZE /\ read_pos \in Positions
      /\ PIPE_BUF_SIZE \in Nat /\ buffer \in [Positions -> Bytes] /\ buffer' = buffer
  BY DEF PipeUsual, PipeInv, PipeTypeOK, pipe_read
<1>3. q \in Seq(Bytes) /\ Len(q) = count
      /\ \A j \in 1 .. count : q[j] = buffer[Advance(read_pos, j - 1)]
  BY StreamIsSequence DEF PipeInv, PipeTypeOK, Queue
<1>4. k = F!Lesser(max_len, Len(q))
  BY <1>3 DEF F!Lesser, Lesser
<1> HIDE DEF k, q
<1>5. out' = SubSeq(q, 1, k)
  <2> DEFINE r == out'
  <2>1. 0 \in Nat /\ 0 + k <= Len(q) /\ r \in [1 .. k -> Bytes]
        /\ \A j \in 1 .. k : r[j] = q[0 + j]
    BY <1>1, <1>2, <1>3
  <2> HIDE DEF r
  <2>2. r = SubSeq(q, 0 + 1, 0 + k)
    BY <1>1, <1>3, <2>1, IsPart
  <2> QED BY <1>1, <2>2 DEF r
<1>6. Queue' = Stream(buffer, read_pos', count - k) /\ count - k \in 0 .. PIPE_BUF_SIZE
  BY <1>1, <1>2 DEF Queue
<1>7. Queue' \in [1 .. count - k -> Bytes]
      /\ \A j \in 1 .. count - k : Queue'[j] = buffer[Advance(read_pos', j - 1)]
  BY <1>1, <1>2, <1>6, StreamIsSequence, Zenon
<1>8. ASSUME NEW j \in 1 .. count - k PROVE Queue'[j] = q[k + j]
  <2>1. k + j \in 1 .. count /\ j - 1 \in Nat /\ k + (j - 1) <= PIPE_BUF_SIZE
        /\ k + (j - 1) = (k + j) - 1
    BY <1>1, <1>2
  <2>2. Advance(Advance(read_pos, k), j - 1) = Advance(read_pos, k + (j - 1))
    BY <1>1, <1>2, <2>1, AdvanceAdds
  <2>3. Queue'[j] = buffer[Advance(read_pos', j - 1)]
    BY <1>7
  <2> QED BY <1>1, <1>3, <2>1, <2>2, <2>3
<1>9. Queue' = SubSeq(q, k + 1, Len(q))
  <2> DEFINE r == Queue' m == count - k
  <2>1. m \in Nat /\ k + m <= Len(q) /\ k + m = Len(q)
    BY <1>1, <1>2, <1>3
  <2>2. r \in [1 .. m -> Bytes] /\ \A j \in 1 .. m : r[j] = q[k + j]
    BY <1>7, <1>8
  <2> HIDE DEF r, m
  <2>3. r = SubSeq(q, k + 1, k + m)
    BY <1>1, <1>3, <2>1, <2>2, IsPart
  <2> QED BY <2>1, <2>3, Zenon DEF r
<1> QED BY <1>4, <1>5, <1>9, Zenon DEF q, Queue, Stream, F!Read

\* The other steps of the shell leave the stream as it is.
LEMMA ShellStutters ==
  ASSUME PipeUsual, PipeInv,
         \/ \E d \in Messages : ShellWrite(d)
         \/ ShellTest \/ ShellIndex \/ ShellLoadPos \/ ShellLoadCount
         \/ ShellByte \/ ShellStorePos
  PROVE  Queue' = Queue /\ out' = out
<1>1. CASE ShellByte
  <2>1. count \in 0 .. PIPE_BUF_SIZE /\ count \in Nat /\ pipe_i \in Nat
        /\ read_pos \in Positions /\ buffer \in [Positions -> Bytes]
    BY DEF PipeUsual, PipeInv, PipeTypeOK
  <2>2. count' = count /\ read_pos' = read_pos /\ out' = out
    BY <1>1 DEF ShellByte
  <2>3. ASSUME NEW j \in 1 .. count
        PROVE  buffer'[Advance(read_pos, j - 1)] = buffer[Advance(read_pos, j - 1)]
    <3>1. j - 1 \in 0 .. count + pipe_i - 1
      BY <2>1
    <3> QED BY <1>1, <3>1, ByteStored
  <2> QED BY <2>2, <2>3 DEF Queue, Stream
<1>2. CASE ~ShellByte
  <2>1. UNCHANGED <<buffer, read_pos, count, out>>
    BY <1>2 DEF ShellWrite, ShellTest, ShellIndex, ShellLoadPos, ShellLoadCount, ShellLoad,
           ShellStorePos, pipe
  <2> QED BY <2>1 DEF Queue
<1> QED BY <1>1, <1>2

-----------------------------------------------------------------------------
\* Between two writes of the shell, count is the distance from the read to the
\* write position of g_pipes[i], and all positions stay inside the buffer.
THEOREM CountIsExact ==
  ASSUME PipeUsual
  PROVE  PipeSpec => [](PipeTypeOK /\ CountExact)
<1>1. PipeInv => PipeTypeOK /\ CountExact
  <2> SUFFICES ASSUME PipeInv PROVE PipeTypeOK /\ CountExact
    OBVIOUS
  <2>1. ASSUME pipe_pc = "idle" PROVE write_pos = Advance(read_pos, count)
    <3>1. pipe_i = 0 /\ count + pipe_i = count
      BY <2>1 DEF PipeUsual, PipeInv, PipeTypeOK, ShellAgrees
    <3> QED BY <3>1 DEF PipeInv, WriteAhead
  <2> QED BY <2>1 DEF PipeInv, CountExact
<1>2. PipeInit => PipeInv
  BY PipeInitInv
<1>3. PipeInv /\ [PipeNext]_pipe_vars => PipeInv'
  BY PipeNextInv
<1> QED BY <1>1, <1>2, <1>3, PTL DEF PipeSpec

\* pipe_write() and pipe_read() implement a first-in first-out stream: no byte is
\* lost, repeated or reordered, over any number of turns of the ring.
THEOREM FifoRefinement ==
  ASSUME PipeUsual
  PROVE  PipeSpec => ImplementsFifo
<1>1. PipeInit => F!Init
  <2> SUFFICES ASSUME PipeInit PROVE Queue = <<>> /\ out = <<>>
    BY DEF F!Init, Queue, Stream
  <2>1. PipeTypeOK /\ count = 0
    BY PipeInitInv DEF PipeInv, PipeInit
  <2>2. Queue \in Seq(Bytes) /\ Len(Queue) = 0
    BY <2>1, StreamIsSequence DEF PipeTypeOK, Queue
  <2>3. Queue = <<>>
    BY <2>2, EmptySeq
  <2> QED BY <2>3 DEF PipeInit
<1>2. PipeInv /\ [PipeNext]_pipe_vars => [F!Next]_<<Queue, out>>
  <2> SUFFICES ASSUME PipeInv, [PipeNext]_pipe_vars
               PROVE  F!Next \/ (Queue' = Queue /\ out' = out)
    OBVIOUS
  <2>1. ASSUME NEW d \in Messages, F!Write(d) PROVE F!Next
    BY <2>1 DEF F!Next, Messages
  <2>2. ASSUME NEW d \in Messages, pipe_write(d) PROVE F!Next
    BY <2>1, <2>2, WriteRefines
  <2>3. CASE ShellStoreCount
    BY <2>1, <2>3, StoreCountRefines
  <2>4. ASSUME NEW max_len \in 0 .. MaxLen, pipe_read(max_len) PROVE F!Next
    BY <2>4, ReadRefines DEF F!Next
  <2>5. CASE \/ \E d \in Messages : ShellWrite(d)
             \/ ShellTest \/ ShellIndex \/ ShellLoadPos \/ ShellLoadCount
             \/ ShellByte \/ ShellStorePos
    BY <2>5, ShellStutters
  <2>6. CASE UNCHANGED pipe_vars
    BY <2>6 DEF pipe_vars, pipe, Queue
  <2> QED BY <2>2, <2>3, <2>4, <2>5, <2>6 DEF PipeNext
<1>3. PipeInit => PipeInv
  BY PipeInitInv
<1>4. PipeInv /\ [PipeNext]_pipe_vars => PipeInv'
  BY PipeNextInv
<1> QED BY <1>1, <1>2, <1>3, <1>4, PTL DEF PipeSpec, ImplementsFifo, F!Spec, Queue, Stream
=============================================================================
