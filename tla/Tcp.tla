--------------------------------- MODULE Tcp ---------------------------------
(***************************************************************************)
(* kernel/net/tcp with proc/ipc/socket and its system calls: client        *)
(* streams, one-shot fetches, and server connections.  Every task that     *)
(* waits polls the one receive ring between yields and drops the frames    *)
(* that are not its own.                                                   *)
(*                                                                         *)
(* The remote ends are external: each is a TCP that accepts data in order  *)
(* only, acknowledges, keeps one segment outstanding and repeats it when   *)
(* it was lost.  A segment is handled by the remote end when it is sent,   *)
(* unless the network loses it; the answer waits in the ring.  Sequence    *)
(* numbers are relative to the initial ones, and a byte of a stream is its *)
(* position in it.                                                         *)
(***************************************************************************)
EXTENDS Naturals, Sequences, FiniteSets

CONSTANTS
  Conns, Kind,             \* connections; "stream", "fetch" or "server"
  TCP_CONNECTION_SLOTS, TCP_LISTENER_SLOTS, SOCKET_SLOTS, TCP_MAX_ATTEMPTS,
  PENDING,                 \* bytes of pending_buf
  MaxLen,                  \* bytes a receive or a fetch asks for
  Chunk,                   \* bytes of a segment of the remote end
  Sends,                   \* bound: segments this host sends
  Late,                    \* bound: frames in the ring when a wait runs out
  LoseSent,                \* whether segments of this host are lost as well
  Scenarios                \* bounds: the connections that take part, the ones
                           \* refused, the bytes each remote end sends, the
                           \* segments lost

VARIABLES
  ring,      \* frames received and not yet polled
  pool,      \* used slots of g_tcp_connections
  task,      \* the task behind each connection
  remote,    \* the remote end of each connection
  listeners, sockets,      \* slots in use
  orphans,   \* history: connection slots nobody will close
  losses     \* segments the network may still lose

tvars == <<ring, pool, task, remote, listeners, sockets, orphans, losses>>

Waiting == {"syn", "sending", "receiving", "closing", "wait_syn", "wait_ack",
            "server_receive", "server_close"}
Reliable == {"syn", "sending", "closing"}
Fresh == [pc |-> "idle", my_seq |-> 0, peer_seq |-> 0, pending |-> <<>>,
          finished |-> FALSE, attempt |-> 0, slot |-> 0, got |-> <<>>,
          sent |-> 0]
Remote == [st |-> "listen", rcv |-> 0, una |-> 0, nxt |-> 0, left |-> 0,
           fin |-> FALSE]

TcpInit ==
  \E sc \in Scenarios :
    /\ ring = <<>> /\ pool = {} /\ losses = sc.losses
    /\ task = [c \in Conns |-> [Fresh EXCEPT
                 !.pc = IF c \in sc.conns THEN "idle" ELSE "done"]]
    /\ remote = [c \in Conns |-> [Remote EXCEPT !.left = sc.bytes,
                   !.st = IF c \in sc.refusing THEN "refuse" ELSE "listen"]]
    /\ listeners = 0 /\ sockets = 0 /\ orphans = {}

\* Slots, attempts and buffers within their limits.
TcpTypeOK ==
  /\ pool \subseteq 1 .. TCP_CONNECTION_SLOTS
  /\ listeners <= TCP_LISTENER_SLOTS /\ sockets <= SOCKET_SLOTS
  /\ \A c \in Conns : /\ task[c].pc \in Waiting \cup {"idle", "est", "request",
                                                     "close", "listen", "done"}
                      /\ Len(task[c].pending) <= PENDING
                      /\ task[c].attempt <= TCP_MAX_ATTEMPTS

Least(a, b) == IF a < b THEN a ELSE b
Segment(c, kind, seq, ack, len) ==
  [c |-> c, kind |-> kind, seq |-> seq, ack |-> ack, len |-> len]
BytesOf(s) == [i \in 1 .. s.len |-> s.seq + i - 1]
IsAck(s) == s.kind \in {"SYNACK", "ACK", "FIN"}

-----------------------------------------------------------------------------
(***************************************************************************)
(* (External.)  The remote end's reaction to a segment: its new state, and *)
(* the segments it answers with.  It may put data on an acknowledgement.   *)
(***************************************************************************)
Sent(r) == Least(Chunk, r.left)
AfterData(r) == [r EXCEPT !.nxt = @ + Sent(r), !.left = @ - Sent(r)]
AckWith(c, r, fuse) ==
  IF fuse /\ r.una = r.nxt /\ r.left > 0
  THEN [r |-> AfterData(r), out |-> <<Segment(c, "ACK", r.nxt, r.rcv, Sent(r))>>]
  ELSE [r |-> r, out |-> <<Segment(c, "ACK", r.nxt, r.rcv, 0)>>]

Answer(c, s, fuse) ==
  LET p == remote[c]
      r == [p EXCEPT !.una = IF s.ack > @ THEN s.ack ELSE @,
                     !.st = IF @ = "syn" /\ s.ack >= 1 THEN "est" ELSE @]
  IN CASE p.st = "refuse" ->
            [r |-> p, out |-> <<Segment(c, "RST", 0, 0, 0)>>]
       [] s.kind = "SYN" /\ p.st \in {"listen", "syn"} ->
            [r |-> [p EXCEPT !.st = "syn", !.rcv = 1, !.nxt = 1],
             out |-> <<Segment(c, "SYNACK", 0, 1, 0)>>]
       [] s.kind = "SYNACK" ->
            [r |-> [r EXCEPT !.st = "est", !.rcv = 1],
             out |-> <<Segment(c, "ACK", 1, 1, 0)>>]
       [] s.len > 0 \/ s.kind = "FIN" ->
            AckWith(c, IF s.seq # r.rcv THEN r
                       ELSE [r EXCEPT !.rcv = @ + (IF s.kind = "FIN" THEN 1
                                                   ELSE s.len)], fuse)
       [] OTHER -> [r |-> r, out |-> <<>>]

\* netdev_send() of a segment, the ring being left at rest.
Send(c, s, rest) ==
  \/ /\ LoseSent /\ losses > 0
     /\ losses' = losses - 1
     /\ ring' = rest /\ UNCHANGED remote
  \/ \E fuse \in BOOLEAN :
       LET a == Answer(c, s, fuse) IN
       /\ remote' = [remote EXCEPT ![c] = a.r]
       /\ \/ ring' = rest \o a.out /\ UNCHANGED losses
          \/ /\ a.out # <<>> /\ losses > 0
             /\ losses' = losses - 1
             /\ ring' = rest

\* (External.)  Data, the end of the stream, and the client of a server.
PeerSend(c) ==
  LET r == remote[c] IN
  /\ r.st = "est" /\ r.una = r.nxt /\ ~r.fin
  /\ IF r.left > 0
     THEN /\ remote' = [remote EXCEPT ![c] = AfterData(r)]
          /\ ring' = Append(ring, Segment(c, "ACK", r.nxt, r.rcv, Sent(r)))
     ELSE /\ remote' = [remote EXCEPT ![c].fin = TRUE, ![c].nxt = @ + 1]
          /\ ring' = Append(ring, Segment(c, "FIN", r.nxt, r.rcv, 0))
  /\ UNCHANGED <<pool, task, listeners, sockets, orphans, losses>>

\* The outstanding segment again, when neither it nor its acknowledgement is
\* under way.
PeerRepeat(c) ==
  LET r == remote[c]
      fin == r.fin /\ r.una = r.nxt - 1
  IN
  /\ r.st = "est" /\ r.una < r.nxt
  /\ \A i \in DOMAIN ring : ring[i].c # c
  /\ ring' = Append(ring, Segment(c, IF fin THEN "FIN" ELSE "ACK", r.una, r.rcv,
                                  IF fin THEN 0 ELSE r.nxt - r.una))
  /\ UNCHANGED <<pool, task, remote, listeners, sockets, orphans, losses>>

PeerConnect(c) ==
  /\ Kind[c] = "server" /\ task[c].pc # "done"
  /\ remote[c].st \in {"listen", "connect"}
  /\ \A i \in DOMAIN ring : ring[i].c # c
  /\ remote' = [remote EXCEPT ![c].st = "connect", ![c].nxt = 1]
  /\ ring' = Append(ring, Segment(c, "SYN", 0, 0, 0))
  /\ UNCHANGED <<pool, task, listeners, sockets, orphans, losses>>

-----------------------------------------------------------------------------
(***************************************************************************)
(* The client: tcp_stream_*() and tcp_fetch().                             *)
(***************************************************************************)
FreeSlot == CHOOSE i \in (1 .. TCP_CONNECTION_SLOTS) \ pool :
              \A j \in (1 .. TCP_CONNECTION_SLOTS) \ pool : i <= j
IsClient(c) == Kind[c] # "server"
Becomes(c, t) == task' = [task EXCEPT ![c] = t]

\* tcp_conn_open() and the first SYN.
Open(c) ==
  LET t == [Fresh EXCEPT !.pc = "syn", !.slot = FreeSlot, !.attempt = 1] IN
  /\ IsClient(c) /\ task[c].pc = "idle"
  /\ pool # 1 .. TCP_CONNECTION_SLOTS
  /\ pool' = pool \cup {FreeSlot}
  /\ Becomes(c, t)
  /\ Send(c, Segment(c, "SYN", 0, 0, 0), ring)
  /\ UNCHANGED <<listeners, sockets, orphans>>

\* The segment that tcp_send_reliable() repeats in each state.
Repeated(c) ==
  LET t == task[c] IN
  CASE t.pc = "syn" -> Segment(c, "SYN", 0, 0, 0)
    [] t.pc = "sending" -> Segment(c, "ACK", t.my_seq, t.peer_seq, 1)
    [] t.pc = "closing" -> Segment(c, "FIN", t.my_seq, t.peer_seq, 0)

\* tcp_stream_send(), and the request of a fetch.
StartSend(c) ==
  /\ \/ Kind[c] = "stream" /\ task[c].pc = "est" /\ task[c].sent < Sends
     \/ task[c].pc = "request"
  /\ Becomes(c, [task[c] EXCEPT !.pc = "sending", !.attempt = 1])
  /\ Send(c, Segment(c, "ACK", task[c].my_seq, task[c].peer_seq, 1), ring)
  /\ UNCHANGED <<pool, listeners, sockets, orphans>>

\* (Mutant.) The bytes handed over stay pending.
DrainKeeping(c) ==
  LET t == task[c]
      n == Least(Len(t.pending), MaxLen)
  IN
  /\ Kind[c] = "stream" /\ t.pc = "est" /\ t.pending # <<>>
  /\ Becomes(c, [t EXCEPT !.got = @ \o SubSeq(t.pending, 1, n)])
  /\ UNCHANGED <<ring, pool, remote, listeners, sockets, orphans, losses>>

\* tcp_stream_receive() when bytes are pending, and when it has to wait.
Drain(c) ==
  LET t == task[c]
      n == Least(Len(t.pending), MaxLen)
  IN
  /\ Kind[c] = "stream" /\ t.pc = "est" /\ t.pending # <<>>
  /\ Becomes(c, [t EXCEPT !.got = @ \o SubSeq(t.pending, 1, n),
                          !.pending = SubSeq(@, n + 1, Len(@))])
  /\ UNCHANGED <<ring, pool, remote, listeners, sockets, orphans, losses>>

StartReceive(c) ==
  LET t == task[c] IN
  /\ Kind[c] = "stream" /\ t.pc = "est" /\ t.pending = <<>> /\ ~t.finished
  /\ Becomes(c, [t EXCEPT !.pc = "receiving"])
  /\ UNCHANGED <<ring, pool, remote, listeners, sockets, orphans, losses>>

StartClose(c) ==
  /\ Kind[c] = "stream" /\ task[c].pc = "est"
  /\ Becomes(c, [task[c] EXCEPT !.pc = "closing", !.attempt = 1])
  /\ Send(c, Segment(c, "FIN", task[c].my_seq, task[c].peer_seq, 0), ring)
  /\ UNCHANGED <<pool, listeners, sockets, orphans>>

\* tcp_conn_close() at the end of whatever the task was doing.
Ends(c) ==
  /\ Becomes(c, [task[c] EXCEPT !.pc = "done", !.slot = 0])
  /\ pool' = pool \ {task[c].slot}

\* What the task keeps of a segment's payload: a stream stashes what the
\* caller has no room for, a fetch drops it.  A receive gets MaxLen bytes at
\* once, a fetch in all.
Stashed(t, b) == SubSeq(b, 1, Least(Len(b), PENDING - Len(t.pending)))
Accept(c, t, s) ==
  LET b == BytesOf(s)
      room == IF Kind[c] = "fetch" THEN MaxLen - Len(t.got) ELSE MaxLen
      n == Least(Len(b), room)
      fin == IF s.kind = "FIN" THEN 1 ELSE 0
      u == [t EXCEPT !.peer_seq = @ + s.len + fin, !.finished = @ \/ fin = 1]
  IN IF Kind[c] = "stream" /\ t.pc = "sending"
     THEN [u EXCEPT !.pending = @ \o Stashed(t, b)]
     ELSE [u EXCEPT !.got = @ \o SubSeq(b, 1, n),
                    !.pending = IF Kind[c] = "stream"
                                THEN SubSeq(b, n + 1, Len(b)) ELSE @]

\* Where a fetch goes on after a segment.
FetchNext(t) == IF t.finished \/ Len(t.got) >= MaxLen THEN "close" ELSE "receiving"

\* (Mutant.) A refused connection keeps its slot.
OnSynKept(c, s, rest) ==
  LET t == task[c]
      up == [t EXCEPT !.pc = IF Kind[c] = "fetch" THEN "request" ELSE "est",
                      !.my_seq = 1, !.peer_seq = s.seq + 1]
  IN IF s.kind = "SYNACK" /\ s.ack = t.my_seq + 1
     THEN /\ Becomes(c, up)
          /\ Send(c, Segment(c, "ACK", 1, s.seq + 1, 0), rest)
          /\ UNCHANGED pool
     ELSE /\ Becomes(c, [t EXCEPT !.pc = "done", !.slot = 0])
          /\ ring' = rest /\ UNCHANGED <<pool, remote, losses>>

\* The answer to a SYN: anything but the matching SYN-ACK fails the open.
OnSyn(c, s, rest) ==
  LET t == task[c]
      up == [t EXCEPT !.pc = IF Kind[c] = "fetch" THEN "request" ELSE "est",
                      !.my_seq = 1, !.peer_seq = s.seq + 1]
  IN IF s.kind = "SYNACK" /\ s.ack = t.my_seq + 1
     THEN /\ Becomes(c, up)
          /\ Send(c, Segment(c, "ACK", 1, s.seq + 1, 0), rest)
          /\ UNCHANGED pool
     ELSE Ends(c) /\ ring' = rest /\ UNCHANGED <<remote, losses>>

\* The answer to a data segment, and a segment received: whatever arrives for
\* the ports counts, in whatever order.  A bare acknowledgement of a send is
\* not answered.
OnData(c, s, rest) ==
  LET t == Accept(c, task[c], s)
      my == IF task[c].pc = "sending" THEN task[c].my_seq + 1 ELSE task[c].my_seq
      pc == IF Kind[c] = "fetch" THEN FetchNext(t) ELSE "est"
  IN /\ Becomes(c, [t EXCEPT !.my_seq = my, !.pc = pc, !.sent = my - 1])
     /\ IF task[c].pc = "receiving" \/ s.len > 0 \/ s.kind = "FIN"
        THEN Send(c, Segment(c, "ACK", my, t.peer_seq, 0), rest)
        ELSE ring' = rest /\ UNCHANGED <<remote, losses>>
     /\ UNCHANGED pool

\* The close of a fetch.
FetchClose(c) ==
  /\ task[c].pc = "close"
  /\ Becomes(c, [task[c] EXCEPT !.pc = "closing", !.attempt = 1])
  /\ Send(c, Segment(c, "FIN", task[c].my_seq, task[c].peer_seq, 0), ring)
  /\ UNCHANGED <<pool, listeners, sockets, orphans>>

\* The answer to the FIN: a client whose peer had finished ignores it.
OnClosing(c, s, rest) ==
  /\ Ends(c)
  /\ IF s.kind = "FIN" /\ (~task[c].finished \/ Kind[c] = "server")
     THEN Send(c, Segment(c, "ACK", task[c].my_seq + 1, s.seq + 1, 0), rest)
     ELSE ring' = rest /\ UNCHANGED <<remote, losses>>

-----------------------------------------------------------------------------
(***************************************************************************)
(* The server: tcp_listen(), tcp_accept(), tcp_server_*() and sockets.     *)
(***************************************************************************)
FreeListener == listeners < TCP_LISTENER_SLOTS
FreeSocket == sockets < SOCKET_SLOTS

\* socket_create_listener(): the listener is not given back without a socket.
Listen(c) ==
  /\ Kind[c] = "server" /\ task[c].pc = "idle"
  /\ FreeListener
  /\ listeners' = listeners + 1
  /\ sockets' = IF FreeSocket THEN sockets + 1 ELSE sockets
  /\ Becomes(c, [task[c] EXCEPT !.pc = IF FreeSocket THEN "listen" ELSE "idle"])
  /\ UNCHANGED <<ring, pool, remote, orphans, losses>>

StartAccept(c) ==
  /\ task[c].pc = "listen"
  /\ Becomes(c, [task[c] EXCEPT !.pc = "wait_syn"])
  /\ UNCHANGED <<ring, pool, remote, listeners, sockets, orphans, losses>>

OnWaitSyn(c, s, rest) ==
  IF s.kind # "SYN" THEN ring' = rest /\ UNCHANGED <<pool, task, remote, losses>>
  ELSE IF pool = 1 .. TCP_CONNECTION_SLOTS
  THEN /\ Becomes(c, [task[c] EXCEPT !.pc = "listen"])
       /\ ring' = rest /\ UNCHANGED <<pool, remote, losses>>
  ELSE /\ pool' = pool \cup {FreeSlot}
       /\ Becomes(c, [task[c] EXCEPT !.pc = "wait_ack", !.slot = FreeSlot,
                        !.my_seq = 0, !.peer_seq = s.seq + 1])
       /\ Send(c, Segment(c, "SYNACK", 0, s.seq + 1, 0), rest)

\* tcp_conn_close() on a failed accept.
Refuse(c) ==
  /\ pool' = pool \ {task[c].slot}
  /\ Becomes(c, [task[c] EXCEPT !.pc = "listen", !.slot = 0])

\* socket_accept(): without a free slot the connection is left behind.
Accepted(c) ==
  IF FreeSocket
  THEN /\ Becomes(c, [task[c] EXCEPT !.pc = "est", !.my_seq = 1])
       /\ sockets' = sockets + 1 /\ UNCHANGED <<pool, orphans>>
  ELSE /\ Becomes(c, [task[c] EXCEPT !.pc = "listen", !.slot = 0])
       /\ orphans' = orphans \cup {task[c].slot}
       /\ UNCHANGED <<pool, sockets>>

\* The last step of the handshake.
OnWaitAck(c, s, rest) ==
  /\ ring' = rest /\ UNCHANGED <<remote, losses>>
  /\ \/ IsAck(s) /\ s.ack = task[c].my_seq + 1 /\ Accepted(c)
     \/ /\ ~(IsAck(s) /\ s.ack = task[c].my_seq + 1)
        /\ Refuse(c) /\ UNCHANGED <<sockets, orphans>>

ServerSend(c) ==
  LET t == task[c] IN
  /\ Kind[c] = "server" /\ t.pc = "est" /\ t.my_seq <= Sends
  /\ Becomes(c, [t EXCEPT !.my_seq = @ + 1])
  /\ Send(c, Segment(c, "ACK", t.my_seq, t.peer_seq, 1), ring)
  /\ UNCHANGED <<pool, listeners, sockets, orphans>>

StartServerReceive(c) ==
  /\ Kind[c] = "server" /\ task[c].pc = "est"
  /\ Becomes(c, [task[c] EXCEPT !.pc = "server_receive"])
  /\ UNCHANGED <<ring, pool, remote, listeners, sockets, orphans, losses>>

\* A bare acknowledgement is skipped.  The acknowledgement of a FIN is sent
\* before peer_seq counts it.
OnServerData(c, s, rest) ==
  LET t == task[c]
      b == BytesOf(s)
      peer == t.peer_seq + s.len
  IN IF s.len = 0 /\ s.kind # "FIN"
     THEN ring' = rest /\ UNCHANGED <<pool, task, remote, losses>>
     ELSE /\ Becomes(c, [t EXCEPT !.pc = "est",
                  !.got = @ \o SubSeq(b, 1, Least(Len(b), MaxLen)),
                  !.peer_seq = IF s.kind = "FIN" THEN peer + 1 ELSE peer,
                  !.finished = @ \/ s.kind = "FIN"])
          /\ Send(c, Segment(c, "ACK", t.my_seq, peer, 0), rest)
          /\ UNCHANGED pool

StartServerClose(c) ==
  /\ Kind[c] = "server" /\ task[c].pc = "est"
  /\ Becomes(c, [task[c] EXCEPT !.pc = "server_close"])
  /\ Send(c, Segment(c, "FIN", task[c].my_seq, task[c].peer_seq, 0), ring)
  /\ UNCHANGED <<pool, listeners, sockets, orphans>>

OnServerClose(c, s, rest) ==
  /\ OnClosing(c, s, rest)
  /\ sockets' = sockets - 1

\* Closing the listening socket gives its slot back, not the listener's.
CloseListener(c) ==
  /\ task[c].pc = "listen"
  /\ sockets' = sockets - 1
  /\ Becomes(c, [task[c] EXCEPT !.pc = "idle"])
  /\ UNCHANGED <<ring, pool, remote, listeners, orphans, losses>>

-----------------------------------------------------------------------------
\* A turn of tcp_wait_segment() or tcp_wait_syn(): the frame at the head of the
\* ring is taken, and dropped when it is for another connection.
Poll(c) ==
  LET s == Head(ring)
      rest == Tail(ring)
      pc == task[c].pc
  IN
  /\ pc \in Waiting /\ ring # <<>>
  /\ \/ /\ s.c # c
        /\ ring' = rest
        /\ UNCHANGED <<pool, task, remote, losses, sockets, orphans>>
     \/ /\ s.c = c
        /\ \/ pc = "syn" /\ OnSyn(c, s, rest) /\ UNCHANGED <<sockets, orphans>>
           \/ /\ pc \in {"sending", "receiving"}
              /\ OnData(c, s, rest) /\ UNCHANGED <<sockets, orphans>>
           \/ pc = "closing" /\ OnClosing(c, s, rest) /\ UNCHANGED <<sockets, orphans>>
           \/ pc = "wait_syn" /\ OnWaitSyn(c, s, rest) /\ UNCHANGED <<sockets, orphans>>
           \/ pc = "wait_ack" /\ OnWaitAck(c, s, rest)
           \/ /\ pc = "server_receive"
              /\ OnServerData(c, s, rest) /\ UNCHANGED <<sockets, orphans>>
           \/ pc = "server_close" /\ OnServerClose(c, s, rest) /\ UNCHANGED orphans
  /\ UNCHANGED listeners

\* An RTO passes: the same segment again.
Resend(c) ==
  LET t == task[c] IN
  /\ t.pc \in Reliable /\ t.attempt < TCP_MAX_ATTEMPTS
  /\ Becomes(c, [t EXCEPT !.attempt = @ + 1])
  /\ Send(c, Repeated(c), ring)
  /\ UNCHANGED <<pool, listeners, sockets, orphans>>

\* The last wait runs out; an answer may still come, or wait in the ring.
GiveUp(c) ==
  LET t == task[c] IN
  /\ t.pc \in Waiting
  /\ t.pc \in Reliable => t.attempt = TCP_MAX_ATTEMPTS
  /\ Len(ring) <= Late
  /\ CASE t.pc = "wait_ack" -> Refuse(c) /\ UNCHANGED sockets
       [] t.pc \in {"syn", "closing"} \/ (t.pc = "sending" /\ Kind[c] = "fetch") ->
            Ends(c) /\ UNCHANGED sockets
       [] t.pc = "server_close" -> Ends(c) /\ sockets' = sockets - 1
       [] t.pc = "wait_syn" -> /\ Becomes(c, [t EXCEPT !.pc = "listen"])
                               /\ UNCHANGED <<pool, sockets>>
       [] t.pc = "receiving" /\ Kind[c] = "fetch" ->
            Becomes(c, [t EXCEPT !.pc = "close"]) /\ UNCHANGED <<pool, sockets>>
       [] OTHER -> /\ Becomes(c, [t EXCEPT !.pc = "est"])
                   /\ UNCHANGED <<pool, sockets>>
  /\ UNCHANGED <<ring, remote, listeners, orphans, losses>>

TcpNext ==
  \E c \in Conns :
    \/ PeerSend(c) \/ PeerRepeat(c) \/ PeerConnect(c)
    \/ Open(c) \/ StartSend(c) \/ Drain(c) \/ StartReceive(c) \/ StartClose(c)
    \/ FetchClose(c)
    \/ Listen(c) \/ StartAccept(c) \/ ServerSend(c) \/ StartServerReceive(c)
    \/ StartServerClose(c) \/ CloseListener(c)
    \/ Poll(c) \/ Resend(c) \/ GiveUp(c)

TcpSpec == TcpInit /\ [][TcpNext]_tvars

-----------------------------------------------------------------------------
\* The bytes a client is given are the bytes the remote end sent, in order,
\* none missing and none twice, whatever other waiting tasks drop from the
\* shared ring and however often segments are repeated.  It rests on the
\* acknowledgements not being lost (LoseSent): seq is not compared with
\* peer_seq, so data repeated for want of one counts again.
StreamIsPrefix ==
  \A c \in Conns :
    IsClient(c) => \A i \in DOMAIN task[c].got : task[c].got[i] = i

\* A client never acknowledges more than the remote end has sent, nor, on a
\* stream, a byte that it neither delivered nor keeps pending: as long as no
\* send (Sends) brings more than the pending buffer has room for.
AcksAreHonest ==
  \A c \in Conns :
    IsClient(c) /\ task[c].peer_seq > 0 =>
      /\ task[c].peer_seq <= remote[c].nxt
      /\ Kind[c] = "stream" =>
           task[c].peer_seq <= 1 + Len(task[c].got) + Len(task[c].pending)
                               + (IF task[c].finished THEN 1 ELSE 0)

\* A connection slot in use is that of exactly one task that will close it,
\* or was left by an accept that found no socket: no failure of a handshake,
\* a send or a close leaks a slot or frees another task's.
ConnectionsAccounted ==
  /\ pool = orphans \cup ({task[c].slot : c \in Conns} \ {0})
  /\ \A c, d \in Conns : task[c].slot = task[d].slot => c = d \/ task[c].slot = 0
  /\ \A c \in Conns : task[c].slot \notin orphans

\* tcp_fetch_conn(): the first reply is "needed internally to know the data
\* segment was actually acked, not lost".  A send that succeeded has reached
\* the remote end.
SentIsDelivered ==
  \A c \in Conns : task[c].sent > 0 => remote[c].rcv > task[c].sent

\* tcp_server_receive(): "ACK what was just received, keeping seq state honest
\* for later calls".
ServerAcksAreHonest ==
  \A c \in Conns : task[c].peer_seq <= remote[c].nxt \/ Kind[c] # "server"

=============================================================================
