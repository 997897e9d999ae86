------------------------------- MODULE Tls ----------------------------------
(***************************************************************************)
(* The TLS 1.2 client of kernel/net/tls/tls.c under its one caller, the    *)
(* https branch of http_fetch(): connect, one request, records until the   *)
(* buffer is full or a receive fails, close.                               *)
(*                                                                         *)
(* Keys, hashes and the encryption are symbolic: a pseudo-random value is  *)
(* the tuple of what it is computed from, so two are equal exactly when    *)
(* their inputs are, and a record opens under the key it was sealed with.  *)
(* tcp.c compares no sequence numbers and acknowledges bytes its stash has *)
(* no room for, so the stream under TLS may repeat, lose and damage        *)
(* records; up to MaxFaults of them do.                                    *)
(***************************************************************************)
EXTENDS Naturals, Sequences, SequencesExt

CONSTANTS
  TLS_MAX_RECORD_LEN,  \* bytes of content this client handles in a record
  Room,                \* max_len, the caller's buffer
  AppData,             \* the records of the server's answer: a sequence of sequences
  Certs,               \* certificates: "rsa", "small", "long", "broken"
  Flights,             \* how a server cuts its flight: "one", "each", "cut"
  MaxFaults            \* records the stream repeats, loses or damages

VARIABLES
  tpc,       \* where tls_connect(), or its caller, stands
  conn,      \* tls_conn_t and the locals of tls_connect()
  stream,    \* the TCP connection: "none", "open", "closed"
  toServer,  \* records on their way, oldest first
  toClient,
  srv,       \* the server
  response,  \* response_buf of http_fetch()
  mishaps    \* stream faults so far

tlsvars == <<tpc, conn, stream, toServer, toClient, srv, response, mishaps>>

-----------------------------------------------------------------------------
(***************************************************************************)
(* Records.  A handshake record carries messages; a sealed one carries its *)
(* content, the key and the MAC.                                           *)
(***************************************************************************)
Record(type, body) == [type |-> type, sealed |-> FALSE, body |-> body]
Message(hs, with) == [hs |-> hs, with |-> with]
Damaged == Record("damaged", <<>>)

\* "part" is one piece of a message that the server spread over two records.
Part == Message("part", "")

\* length > max_payload_len
TooLong(r) ==
  IF r.sealed THEN r.type = "application" /\ Len(r.body.content) > TLS_MAX_RECORD_LEN
              ELSE Contains(r.body, Message("Certificate", "long"))

tls_prf(secret, label, seed) == <<secret, label, seed>>

\* (Mutant.) The sequence number is left out of the MAC.
compute_record_mac_unnumbered(key, seq_num, type, content) == <<key, type, content>>
compute_record_mac(key, seq_num, type, content) == <<key, seq_num, type, content>>

Sealed(key, seq_num, type, content) ==
  [type |-> type, sealed |-> TRUE,
   body |-> [key |-> key, content |-> content,
             mac |-> compute_record_mac(key, seq_num, type, content)]]

\* receive_encrypted_record(): decryption and MAC, under the next number.
Opens(r, key, seq_num) ==
  /\ ~TooLong(r)
  /\ r.sealed
  /\ r.body.key = key
  /\ r.body.mac = compute_record_mac(key, seq_num, r.type, r.body.content)

derive_keys(pms, client_random, server_random) ==
  LET master == tls_prf(pms, "master secret", <<client_random, server_random>>)
      block == tls_prf(master, "key expansion", <<server_random, client_random>>)
  IN  [master |-> master, client |-> <<block, 1>>, server |-> <<block, 2>>]

Finished(keys, label, transcript) ==
  Message("Finished", tls_prf(keys.master, label, transcript))

-----------------------------------------------------------------------------
(***************************************************************************)
(* The client.                                                             *)
(***************************************************************************)
NoKeys == [master |-> <<>>, client |-> <<>>, server |-> <<>>]

TlsInit ==
  /\ tpc = "start"
  /\ conn = [client_random |-> "unset", server_random |-> "unset", cert |-> "none",
             got_done |-> FALSE, keys |-> NoKeys, client_seq |-> 0, server_seq |-> 0,
             transcript |-> <<>>]
  /\ stream = "none"
  /\ toServer = <<>> /\ toClient = <<>>
  /\ srv = [pc |-> "hello", client_random |-> "unset", keys |-> NoKeys,
            transcript |-> <<>>, cert |-> "none", seq |-> 0, next |-> 1]
  /\ response = <<>>
  /\ mishaps = 0

\* (Mutant.) A connect that fails leaves its connection open.
GivenUpOpen == UNCHANGED stream
\* tcp_stream_close() on the way out.
GivenUp == stream' = "closed"

\* return false of tls_connect(), after the close.
ConnectFails ==
  /\ tpc' = "failed"
  /\ GivenUp

\* tls_send_record(): sent, or tcp_stream_send() heard no acknowledgement, of a
\* segment that may all the same have arrived.
tls_send_record(r, next) ==
  \/ toServer' = Append(toServer, r) /\ tpc' = next /\ UNCHANGED stream
  \/ toServer' \in {toServer, Append(toServer, r)} /\ ConnectFails

\* tcp_stream_open() at the top of tls_connect().
Open ==
  /\ tpc = "start"
  /\ \/ tpc' = "hello" /\ stream' = "open"
     \/ tpc' = "failed" /\ UNCHANGED stream
  /\ UNCHANGED <<conn, toServer, toClient, srv, response, mishaps>>

send_client_hello ==
  /\ tpc = "hello"
  /\ LET msg == Message("ClientHello", "cr")
     IN  /\ conn' = [conn EXCEPT !.client_random = "cr", !.transcript = <<msg>>]
         /\ tls_send_record(Record("handshake", <<msg>>), "flight")
  /\ UNCHANGED <<toClient, srv, response, mishaps>>

\* tls_read_record(): the next record; a timeout or an overlong one is no record.
tls_read_record ==
  /\ toClient # <<>>
  /\ ~TooLong(Head(toClient))
  /\ toClient' = Tail(toClient)

\* The messages of one record of receive_server_flight(), in order.
Certificates(body) == SelectSeq(body, LAMBDA m : m.hs = "Certificate")
Hellos(body) == SelectSeq(body, LAMBDA m : m.hs = "ServerHello")

Flight(c, body) ==
  [c EXCEPT
     !.transcript = @ \o body,
     !.server_random = IF Hellos(body) = <<>> THEN @ ELSE Last(Hellos(body)).with,
     !.cert = IF Certificates(body) = <<>> THEN @ ELSE Last(Certificates(body)).with,
     !.got_done = @ \/ Contains(body, Message("ServerHelloDone", ""))]

\* A record of another type, a message that is not whole, a certificate
\* x509_extract_rsa_pubkey() cannot read.
FlightRejected(r) ==
  \/ r.type # "handshake"
  \/ r.sealed
  \/ Contains(r.body, Part)
  \/ Contains(r.body, Message("Certificate", "broken"))

FlightEnds(c) == c.got_done /\ c.cert # "none"

\* One turn of the loop of receive_server_flight().
receive_server_flight ==
  /\ tpc = "flight"
  /\ tls_read_record
  /\ LET r == Head(toClient)
     IN   IF FlightRejected(r)
          THEN ConnectFails /\ UNCHANGED conn
          ELSE /\ conn' = Flight(conn, r.body)
               /\ IF ~conn'.got_done THEN UNCHANGED <<tpc, stream>>
                  ELSE IF FlightEnds(conn') THEN tpc' = "kex" /\ UNCHANGED stream
                  ELSE ConnectFails
  /\ UNCHANGED <<toServer, srv, response, mishaps>>

\* The modulus must have room for the padding.
send_client_key_exchange ==
  /\ tpc = "kex"
  /\ LET msg == Message("ClientKeyExchange", <<conn.cert, "pms">>)
     IN  IF conn.cert = "small"
         THEN ConnectFails /\ UNCHANGED <<conn, toServer>>
         ELSE /\ conn' = [conn EXCEPT !.transcript = Append(@, msg)]
              /\ tls_send_record(Record("handshake", <<msg>>), "ccs")
  /\ UNCHANGED <<toClient, srv, response, mishaps>>

\* derive_keys(), then the record itself.
send_change_cipher_spec ==
  /\ tpc = "ccs"
  /\ conn' = [conn EXCEPT !.keys = derive_keys("pms", conn.client_random, conn.server_random)]
  /\ tls_send_record(Record("ccs", <<>>), "finish")
  /\ UNCHANGED <<toClient, srv, response, mishaps>>

\* Sends under the client's key and moves client_seq_num on, even if the send fails.
send_encrypted_record(c, type, content, next) ==
  /\ conn' = [c EXCEPT !.client_seq = @ + 1]
  /\ tls_send_record(Sealed(c.keys.client, c.client_seq, type, content), next)

send_finished ==
  /\ tpc = "finish"
  /\ LET msg == Finished(conn.keys, "client finished", conn.transcript)
     IN  send_encrypted_record([conn EXCEPT !.transcript = Append(@, msg)],
                               "handshake", msg, "server ccs")
  /\ UNCHANGED <<toClient, srv, response, mishaps>>

\* The two records of receive_server_change_cipher_spec_and_finished().
ReceiveServerCcs ==
  /\ tpc = "server ccs"
  /\ tls_read_record
  /\ LET r == Head(toClient)
     IN  IF r.type = "ccs" THEN tpc' = "server finished" /\ UNCHANGED stream
                           ELSE ConnectFails
  /\ UNCHANGED <<conn, toServer, srv, response, mishaps>>

Verified(r) ==
  /\ Opens(r, conn.keys.server, conn.server_seq)
  /\ r.type = "handshake"
  /\ r.body.content = Finished(conn.keys, "server finished", conn.transcript)

ReceiveServerFinished ==
  /\ tpc = "server finished"
  /\ tls_read_record
  /\ LET r == Head(toClient)
     IN  IF Verified(r)
          THEN /\ conn' = [conn EXCEPT !.server_seq = @ + 1]
               /\ tpc' = "connected" /\ UNCHANGED stream
          ELSE ConnectFails /\ UNCHANGED conn
  /\ UNCHANGED <<toServer, srv, response, mishaps>>

\* A read of the handshake that ends without a record: the timeout, or a length
\* above the buffer.
HandshakeReadFails ==
  /\ tpc \in {"flight", "server ccs", "server finished"}
  /\ ConnectFails
  /\ UNCHANGED <<conn, toServer, toClient, srv, response, mishaps>>

-----------------------------------------------------------------------------
(***************************************************************************)
(* http_fetch() with the connection: tls_send(), tls_receive() until it    *)
(* fails or the buffer is full, tls_close().                               *)
(***************************************************************************)
\* The request is at most 512 bytes, so that tls_send() never refuses its length.
\* A failed send ends in tls_close() and false, as a failed connect does.
tls_send ==
  /\ tpc = "connected"
  /\ send_encrypted_record(conn, "application", <<"GET">>, "receiving")
  /\ UNCHANGED <<toClient, srv, response, mishaps>>

\* What fits of the record; the rest of it is gone.
Kept(content) == SubSeq(content, 1, Min({Len(content), Room - Len(response)}))

\* One record read by tls_receive(): data is handed up, an alert or a record that
\* does not open ends the fetch, anything else is skipped.
tls_receive ==
  /\ tpc = "receiving"
  /\ Len(response) < Room
  /\ tls_read_record
  /\ LET r == Head(toClient)
     IN  IF ~Opens(r, conn.keys.server, conn.server_seq)
          THEN tpc' = "closing" /\ UNCHANGED <<conn, response>>
          ELSE /\ conn' = [conn EXCEPT !.server_seq = @ + 1]
               /\ CASE r.type = "application" ->
                         response' = response \o Kept(r.body.content) /\ UNCHANGED tpc
                    [] r.type = "alert" -> tpc' = "closing" /\ UNCHANGED response
                    [] OTHER -> UNCHANGED <<tpc, response>>
  /\ UNCHANGED <<stream, toServer, srv, mishaps>>

\* The buffer is full, tls_receive() timed out, or the peer closed.
ReceiveEnds ==
  /\ tpc = "receiving"
  /\ tpc' = "closing"
  /\ UNCHANGED <<conn, stream, toServer, toClient, srv, response, mishaps>>

tls_close ==
  /\ tpc = "closing"
  /\ tpc' = "fetched"
  /\ stream' = "closed"
  /\ UNCHANGED <<conn, toServer, toClient, srv, response, mishaps>>

-----------------------------------------------------------------------------
(***************************************************************************)
(* The server, which keeps to the protocol, and the stream.                *)
(***************************************************************************)
ServerMessages(cert) ==
  <<Message("ServerHello", "sr"), Message("Certificate", cert), Message("ServerHelloDone", "")>>

InRecords(cut, msgs) ==
  CASE cut = "one" -> <<Record("handshake", msgs)>>
    [] cut = "each" -> [i \in DOMAIN msgs |-> Record("handshake", <<msgs[i]>>)]
    [] cut = "cut" -> <<Record("handshake", <<msgs[1], Part>>),
                        Record("handshake", <<Part, msgs[3]>>)>>

ServerReads ==
  /\ toServer # <<>>
  /\ toServer' = Tail(toServer)

ServerHello ==
  /\ srv.pc = "hello"
  /\ ServerReads
  /\ \E cert \in Certs, cut \in Flights :
       /\ srv' = [srv EXCEPT !.pc = "kex", !.cert = cert,
                             !.client_random = Head(toServer).body[1].with,
                             !.transcript = Head(toServer).body \o ServerMessages(cert)]
       /\ toClient' = toClient \o InRecords(cut, ServerMessages(cert))
  /\ UNCHANGED <<tpc, conn, stream, response, mishaps>>

\* It can read what was encrypted to the key of its own certificate.
ServerKeyExchange ==
  /\ srv.pc = "kex"
  /\ ServerReads
  /\ LET r == Head(toServer)
     IN  srv' = [srv EXCEPT !.pc = "ccs", !.transcript = @ \o r.body,
                             !.keys = IF r.body[1].with[1] = srv.cert
                                      THEN derive_keys(r.body[1].with[2], srv.client_random, "sr")
                                      ELSE NoKeys]
  /\ UNCHANGED <<tpc, conn, stream, toClient, response, mishaps>>

ServerCcs ==
  /\ srv.pc = "ccs"
  /\ ServerReads
  /\ srv' = [srv EXCEPT !.pc = "finished"]
  /\ UNCHANGED <<tpc, conn, stream, toClient, response, mishaps>>

ServerFinished ==
  /\ srv.pc = "finished"
  /\ ServerReads
  /\ LET r == Head(toServer)
     IN  IF /\ Opens(r, srv.keys.client, 0)
             /\ r.body.content = Finished(srv.keys, "client finished", srv.transcript)
          THEN LET heard == Append(srv.transcript, r.body.content)
                   msg == Finished(srv.keys, "server finished", heard)
               IN  /\ srv' = [srv EXCEPT !.pc = "established", !.transcript = heard, !.seq = 1]
                   /\ toClient' = toClient \o <<Record("ccs", <<>>),
                                                Sealed(srv.keys.server, 0, "handshake", msg)>>
          ELSE /\ srv' = [srv EXCEPT !.pc = "closed"]
               /\ toClient' = Append(toClient, Record("alert", <<>>))
  /\ UNCHANGED <<tpc, conn, stream, response, mishaps>>

ServerRequest ==
  /\ srv.pc = "established"
  /\ ServerReads
  /\ Opens(Head(toServer), srv.keys.client, 1)
  /\ srv' = [srv EXCEPT !.pc = "answering"]
  /\ UNCHANGED <<tpc, conn, stream, toClient, response, mishaps>>

ServerSends(type, content) ==
  toClient' = Append(toClient, Sealed(srv.keys.server, srv.seq, type, content))

\* The answer, in it at most one handshake record (a HelloRequest) before the
\* data, and close_notify at the end.
ServerAnswers ==
  /\ srv.pc = "answering"
  /\ \/ /\ srv.seq = 1 /\ srv.next = 1
        /\ ServerSends("handshake", Message("HelloRequest", ""))
        /\ srv' = [srv EXCEPT !.seq = @ + 1]
     \/ /\ srv.next <= Len(AppData)
        /\ ServerSends("application", AppData[srv.next])
        /\ srv' = [srv EXCEPT !.seq = @ + 1, !.next = @ + 1]
     \/ /\ srv.next > Len(AppData)
        /\ ServerSends("alert", "close_notify")
        /\ srv' = [srv EXCEPT !.seq = @ + 1, !.pc = "closed"]
  /\ UNCHANGED <<tpc, conn, stream, toServer, response, mishaps>>

StreamFault ==
  /\ mishaps < MaxFaults
  /\ mishaps' = mishaps + 1
  /\ \E i \in DOMAIN toClient :
       \/ toClient' = RemoveAt(toClient, i)
       \/ toClient' = InsertAt(toClient, i, toClient[i])
       \/ toClient' = [toClient EXCEPT ![i] = Damaged]
  /\ UNCHANGED <<tpc, conn, stream, toServer, srv, response>>

TlsNext ==
  \/ Open \/ send_client_hello \/ receive_server_flight \/ send_client_key_exchange
  \/ send_change_cipher_spec \/ send_finished \/ ReceiveServerCcs
  \/ ReceiveServerFinished \/ HandshakeReadFails
  \/ tls_send \/ tls_receive \/ ReceiveEnds \/ tls_close
  \/ ServerHello \/ ServerKeyExchange \/ ServerCcs \/ ServerFinished
  \/ ServerRequest \/ ServerAnswers \/ StreamFault

-----------------------------------------------------------------------------
\* Record numbers, buffer and messages stay in their ranges.
TlsTypeOK ==
  /\ tpc \in {"start", "hello", "flight", "kex", "ccs", "finish", "server ccs",
              "server finished", "connected", "receiving", "closing", "fetched", "failed"}
  /\ stream \in {"none", "open", "closed"}
  /\ Len(response) <= Room
  /\ conn.client_seq \in 0..2 /\ conn.server_seq \in 0..(Len(AppData) + 3)
  /\ conn.cert \in Certs \cup {"none"}
  /\ mishaps \in 0..MaxFaults

\* tls_connect() returns true only if both ends hold the same keys over the same
\* transcript and the server has accepted the client's Finished, whatever the
\* stream repeated, lost or damaged.
ConnectedMeansAgreed ==
  tpc \in {"connected", "receiving", "closing", "fetched"} =>
     /\ conn.keys = srv.keys /\ conn.cert = srv.cert
     /\ srv.pc \in {"established", "answering", "closed"}
     /\ conn.transcript = srv.transcript

\* What tls_receive() has handed up is the beginning of what the server sent: the
\* numbers in the MACs turn a repeated or a lost record into the end of the data.
ResponseIsPrefix == IsPrefix(response, FlattenSeq(AppData))

\* Every way out of tls_connect() and of the fetch closes the connection it opened.
NothingLeftOpen == tpc \in {"failed", "fetched"} => stream # "open"
=============================================================================
