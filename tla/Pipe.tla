-------------------------------- MODULE Pipe --------------------------------
(***************************************************************************)
(* A pipe (proc/ipc/pipe/pipe.c): a ring buffer with a read position, a    *)
(* write position and a count.  A process fills it with system call 53 and *)
(* drains it with 54; neither yields and interrupts are off, so each is    *)
(* one step.  The shell's ring3pipe command calls pipe_write() directly,   *)
(* with interrupts on: that call is a step per access to the pipe.         *)
(***************************************************************************)
EXTENDS Naturals, Sequences

CONSTANTS
  PIPE_BUF_SIZE,
  Bytes,
  MaxLen,     \* bound on the length of one read or write
  Overlap     \* whether a process may use the pipe while the shell writes

VARIABLES
  buffer, read_pos, write_pos, count,   \* fields of g_pipes[i]
  out,                                  \* what the last pipe_read() returned
  pipe_pc, data, pipe_n, pipe_i, reg    \* the shell inside pipe_write()

pipe == <<buffer, read_pos, write_pos, count>>
shell == <<pipe_pc, data, pipe_n, pipe_i, reg>>
pipe_vars == <<pipe, out, shell>>

Positions == 0 .. PIPE_BUF_SIZE - 1
Messages == UNION {[1 .. len -> Bytes] : len \in 0 .. MaxLen}

\* Positions stay inside the buffer, which holds at most its size.
PipeTypeOK ==
  /\ buffer \in [Positions -> Bytes]
  /\ read_pos \in Positions
  /\ write_pos \in Positions
  /\ count \in 0 .. PIPE_BUF_SIZE
  /\ out \in Messages
  /\ pipe_pc \in {"idle", "test", "index", "byte", "load_pos", "store_pos",
             "load_count", "store_count"}
  /\ data \in Messages
  /\ pipe_n \in 0 .. MaxLen
  /\ pipe_i \in 0 .. MaxLen
  /\ reg \in 0 .. PIPE_BUF_SIZE

\* alloc_pipe(); the buffer itself is not cleared.
PipeInit ==
  /\ buffer \in [Positions -> Bytes]
  /\ read_pos = 0
  /\ write_pos = 0
  /\ count = 0
  /\ out = <<>>
  /\ pipe_pc = "idle" /\ data = <<>> /\ pipe_n = 0 /\ pipe_i = 0 /\ reg = 0

-----------------------------------------------------------------------------
Lesser(a, b) == IF a < b THEN a ELSE b

AdvanceUnwrapped(pos, k) == pos + k

\* k times pos = (pos + 1) % PIPE_BUF_SIZE.
Advance(pos, k) == (pos + k) % PIPE_BUF_SIZE

SpaceOneMore == PIPE_BUF_SIZE - count + 1

Space == PIPE_BUF_SIZE - count

\* The byte of d that a write of k <= PIPE_BUF_SIZE bytes puts at q, if any.
StoredAt(k, q) == {j \in 1 .. k : Advance(write_pos, j - 1) = q}

pipe_write(d) ==
  LET k == Lesser(Len(d), Space) IN
  /\ Overlap \/ pipe_pc = "idle"
  /\ buffer' = [q \in Positions |->
                  IF StoredAt(k, q) = {} THEN buffer[q]
                  ELSE d[CHOOSE j \in StoredAt(k, q) : TRUE]]
  /\ write_pos' = Advance(write_pos, k)
  /\ count' = count + k
  /\ UNCHANGED <<read_pos, out, shell>>

pipe_read(max_len) ==
  LET k == Lesser(max_len, count) IN
  /\ Overlap \/ pipe_pc = "idle"
  /\ out' = [j \in 1 .. k |-> buffer[Advance(read_pos, j - 1)]]
  /\ read_pos' = Advance(read_pos, k)
  /\ count' = count - k
  /\ UNCHANGED <<buffer, write_pos, shell>>

-----------------------------------------------------------------------------
(***************************************************************************)
(* pipe_write() as called by the shell, one step per load or store of a    *)
(* field of the pipe: the build compiles without optimisation, so each     *)
(* statement reads its operands from memory and writes its result back.    *)
(***************************************************************************)
ShellWrite(d) ==
  /\ pipe_pc = "idle"
  /\ data' = d
  /\ pipe_n' = Lesser(Len(d), Space)
  /\ pipe_i' = 0
  /\ pipe_pc' = "test"
  /\ UNCHANGED <<pipe, out, reg>>

\* while (i < n)
ShellTest ==
  /\ pipe_pc = "test"
  /\ pipe_pc' = IF pipe_i < pipe_n THEN "index" ELSE "load_count"
  /\ UNCHANGED <<pipe, out, data, pipe_n, pipe_i, reg>>

ShellLoad(at, to, value) ==
  /\ pipe_pc = at
  /\ reg' = value
  /\ pipe_pc' = to
  /\ UNCHANGED <<pipe, out, data, pipe_n, pipe_i>>

ShellIndex == ShellLoad("index", "byte", write_pos)
ShellLoadPos == ShellLoad("load_pos", "store_pos", write_pos)
ShellLoadCount == ShellLoad("load_count", "store_count", count)

ShellByte ==
  /\ pipe_pc = "byte"
  /\ buffer' = [buffer EXCEPT ![reg] = data[pipe_i + 1]]
  /\ pipe_pc' = "load_pos"
  /\ UNCHANGED <<read_pos, write_pos, count, out, data, pipe_n, pipe_i, reg>>

ShellStorePos ==
  /\ pipe_pc = "store_pos"
  /\ write_pos' = Advance(reg, 1)
  /\ pipe_i' = pipe_i + 1
  /\ pipe_pc' = "test"
  /\ UNCHANGED <<buffer, read_pos, count, out, data, pipe_n, reg>>

ShellStoreCount ==
  /\ pipe_pc = "store_count"
  /\ count' = reg + pipe_n
  /\ pipe_pc' = "idle"
  /\ data' = <<>> /\ pipe_n' = 0 /\ pipe_i' = 0 /\ reg' = 0
  /\ UNCHANGED <<buffer, read_pos, write_pos, out>>

PipeNext ==
  \/ \E d \in Messages : pipe_write(d)
  \/ \E max_len \in 0 .. MaxLen : pipe_read(max_len)
  \/ \E d \in Messages : ShellWrite(d)
  \/ ShellTest
  \/ ShellIndex
  \/ ShellByte
  \/ ShellLoadPos
  \/ ShellStorePos
  \/ ShellLoadCount
  \/ ShellStoreCount

PipeSpec == PipeInit /\ [][PipeNext]_pipe_vars

-----------------------------------------------------------------------------
(***************************************************************************)
(* "A real byte-stream FIFO": across wrap-around, full and empty, partial  *)
(* writes and reads, no byte is lost, repeated or reordered.  The bytes of *)
(* the shell's write become part of the stream when count is stored.       *)
(***************************************************************************)
F == INSTANCE Fifo WITH
  Capacity <- PIPE_BUF_SIZE,
  queue <- [j \in 1 .. count |-> buffer[Advance(read_pos, j - 1)]]

ImplementsFifo == F!Spec

\* count is the number of "bytes currently buffered": between two shell
\* writes it agrees with the distance from the read to the write position.
CountExact == pipe_pc = "idle" => write_pos = Advance(read_pos, count)
=============================================================================
