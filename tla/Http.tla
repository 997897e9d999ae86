------------------------------- MODULE Http ---------------------------------
(***************************************************************************)
(* kernel/net/http/http.c: http_fetch() with the parser of the response,   *)
(* and the server of the httpserve command.  Both are run by the shell,    *)
(* one at a time, and share nothing.                                       *)
(*                                                                         *)
(* A message is a sequence of pieces, each one unit of buffer space: a     *)
(* line with its CR LF, or one byte of a body.  A connection hands pieces  *)
(* over in any portions and may end at any point.                          *)
(***************************************************************************)
EXTENDS Naturals, Sequences, SequencesExt

CONSTANTS
  HTTP_MAX_HEADERS,  \* headers the parser keeps
  Room,              \* max_len of http_fetch()
  Urls,              \* [scheme, host ("ip", "name"), long]
  Answers,           \* what servers answer: [status, headers, payload]
  Requests,          \* what clients of httpserve send: sequences of pieces
  RequestRoom,       \* buf of http_serve_request()
  HTTPSERVE_MAX_CONNECTIONS

VARIABLES
  fetch,     \* http_fetch() and http_parse_response(): a record, see HttpInit
  peer,      \* the answer the server of the fetch gives
  incoming,  \* pieces of it not yet received
  raw,       \* response_buf
  serve,     \* cmd_httpserve() and http_serve_request()
  visitor,   \* the client it serves: [asks, left, heard]
  answered   \* history: one entry per connection served

httpvars == <<fetch, peer, incoming, raw, serve, visitor, answered>>

-----------------------------------------------------------------------------
Line(kind, value) == [kind |-> kind, value |-> value]
Byte(v) == Line("byte", v)
Crlf == Line("crlf", 0)
Blank == Line("blank", 0)
CHUNKED == 1  \* "chunked" as the value of Transfer-Encoding; anything else is ignored
Bytes(payload) == [i \in DOMAIN payload |-> Byte(payload[i])]

\* Where the first header of this name stands in a list, 0 if nowhere.
IndexOfHeader(headers, name) ==
  LET at == {i \in DOMAIN headers : headers[i].kind = name}
  IN  IF at = {} THEN 0 ELSE Min(at)

\* A body in chunks of at most two bytes, with the final chunk.
Chunked(payload) ==
  LET half == IF Len(payload) <= 2 THEN Len(payload) ELSE 2
      chunk(bytes) == IF bytes = <<>> THEN <<>>
                      ELSE <<Line("size", Len(bytes))>> \o Bytes(bytes) \o <<Crlf>>
  IN  chunk(SubSeq(payload, 1, half)) \o chunk(SubSeq(payload, half + 1, Len(payload)))
        \o <<Line("size", 0), Blank>>

IsChunked(answer) == Contains(answer.headers, Line("Transfer-Encoding", CHUNKED))

\* The pieces a server sends.
Encoded(answer) ==
  <<Line("status", answer.status)>> \o answer.headers \o <<Blank>>
    \o (IF IsChunked(answer) THEN Chunked(answer.payload) ELSE Bytes(answer.payload))

-----------------------------------------------------------------------------
(***************************************************************************)
(* http_fetch().                                                           *)
(***************************************************************************)
Fetch(pc) ==
  [pc |-> pc, url |-> "none", conn |-> FALSE, status |-> 0, headers |-> <<>>,
   body |-> 0, body_len |-> 0, read_pos |-> 0]

HttpInit ==
  /\ fetch \in {[Fetch("url") EXCEPT !.url = u] : u \in Urls}
  /\ peer \in Answers
  /\ incoming = Encoded(peer)
  /\ raw = <<>>
  /\ serve = [pc |-> "listen", served |-> 0, buf |-> <<>>, conn |-> FALSE]
  /\ visitor = [asks |-> <<>>, left |-> <<>>, heard |-> <<>>]
  /\ answered = <<>>

served == <<serve, visitor, answered>>

Fails == fetch' = [fetch EXCEPT !.pc = "failed"]
Goes(pc) == fetch' = [fetch EXCEPT !.pc = pc]

\* The scheme picks TLS or TCP; a host that is no address is looked up; the
\* request must fit its 512 bytes.
ParseUrl ==
  /\ fetch.pc = "url"
  /\ \/ fetch.url.scheme = "other" /\ Fails
     \/ fetch.url.scheme # "other" /\ fetch.url.host = "name" /\ Fails  \* dns_resolve_a()
     \/ fetch.url.scheme # "other" /\ IF fetch.url.long THEN Fails ELSE Goes("open")
  /\ UNCHANGED <<peer, incoming, raw, served>>

\* tcp_stream_open() or tls_connect().
OpenConnection ==
  /\ fetch.pc = "open"
  /\ \/ fetch' = [fetch EXCEPT !.pc = "send", !.conn = TRUE]
     \/ Fails
  /\ UNCHANGED <<peer, incoming, raw, served>>

\* Sent, or not: then the connection is closed and the fetch has failed.
SendRequest ==
  /\ fetch.pc = "send"
  /\ \/ Goes("receive")
     \/ fetch' = [fetch EXCEPT !.pc = "failed", !.conn = FALSE]
  /\ UNCHANGED <<peer, incoming, raw, served>>

\* Up to max_len - total_received more; TLS drops what is over, TCP keeps it, and
\* either way the buffer is then full.
ReceiveSome ==
  /\ fetch.pc = "receive"
  /\ \E n \in 1..Len(incoming) :
       /\ n <= Room - Len(raw)
       /\ raw' = raw \o SubSeq(incoming, 1, n)
       /\ incoming' = SubSeq(incoming, n + 1, Len(incoming))
  /\ UNCHANGED <<fetch, peer, served>>

\* The buffer is full, or a receive failed: the end of the stream or a timeout.
ReceiveEnds ==
  /\ fetch.pc = "receive"
  /\ fetch' = [fetch EXCEPT !.pc = IF raw = <<>> THEN "failed" ELSE "parse", !.conn = FALSE]
  /\ UNCHANGED <<peer, incoming, raw, served>>

-----------------------------------------------------------------------------
(***************************************************************************)
(* http_parse_response().                                                  *)
(***************************************************************************)
\* find_bytes(CR LF CR LF): where the header block ends, 0 if it does not.
HeaderEnd == IndexOfHeader(raw, "blank")

\* parse_header_line() for each line, as far as HTTP_MAX_HEADERS.
Kept(lines) == SubSeq(lines, 1, Min({Len(lines), HTTP_MAX_HEADERS}))

\* The first header of that name among those kept, as a sequence of at most one.
http_find_header(headers, name) ==
  LET i == IndexOfHeader(headers, name) IN IF i = 0 THEN <<>> ELSE <<headers[i].value>>

ParseHead ==
  /\ fetch.pc = "parse"
  /\ IF HeaderEnd = 0 \/ raw[1].kind # "status" \/ raw[1].value = 0
     THEN Fails
     ELSE fetch' = [fetch EXCEPT !.pc = "frame", !.status = raw[1].value,
                                 !.headers = Kept(SubSeq(raw, 2, HeaderEnd - 1)),
                                 !.body = HeaderEnd + 1, !.read_pos = HeaderEnd + 1]
  /\ UNCHANGED <<peer, incoming, raw, served>>

Available == Len(raw) - (fetch.body - 1)

BodyLength(content_length) == Min({content_length, Available})

\* Transfer-Encoding goes before Content-Length, and without either the body is
\* what came.
ParseFraming ==
  /\ fetch.pc = "frame"
  /\ LET te == http_find_header(fetch.headers, "Transfer-Encoding")
         cl == http_find_header(fetch.headers, "Content-Length")
     IN  IF te = <<CHUNKED>> THEN Goes("chunks")
         ELSE fetch' = [fetch EXCEPT !.pc = "ok",
                          !.body_len = IF cl = <<>> THEN Available ELSE BodyLength(cl[1])]
  /\ UNCHANGED <<peer, incoming, raw, served>>

\* The end of the line at read_pos, 0 if it has not arrived.
SizeLineEnd ==
  LET ends == {i \in fetch.read_pos..Len(raw) : raw[i].kind # "byte"}
  IN  IF ends = {} THEN 0 ELSE Min(ends)

\* Hexadecimal digits up to the first character that is none.
ChunkSize == IF raw[fetch.read_pos].kind = "size" THEN raw[fetch.read_pos].value ELSE 0

\* The data from position data on, and the CR LF after it.
ChunkArrived(data, size) == data + size <= Len(raw)

\* The copy, inside the buffer that is still being read.
Moved(data, size) ==
  LET to == fetch.body + fetch.body_len
  IN  [i \in DOMAIN raw |-> IF i \in to..(to + size - 1) THEN raw[data + (i - to)] ELSE raw[i]]

\* (Mutant.) A body that stops between two chunks counts as whole.
RanOutQuietly == Goes("ok")
\* if (!done) after the loop.
RanOut == Fails

\* One turn of the dechunking loop; body_len is write_len.
Dechunk ==
  /\ fetch.pc = "chunks"
  /\ LET data == SizeLineEnd + 1
     IN  IF fetch.read_pos > Len(raw) THEN RanOut /\ UNCHANGED raw
         ELSE IF SizeLineEnd = 0 THEN Fails /\ UNCHANGED raw
         ELSE IF ChunkSize = 0 THEN Goes("ok") /\ UNCHANGED raw
         ELSE IF ~ChunkArrived(data, ChunkSize) THEN Fails /\ UNCHANGED raw
         ELSE /\ raw' = Moved(data, ChunkSize)
              /\ fetch' = [fetch EXCEPT !.body_len = @ + ChunkSize,
                                       !.read_pos = data + ChunkSize + 1]
  /\ UNCHANGED <<peer, incoming, served>>

-----------------------------------------------------------------------------
(***************************************************************************)
(* cmd_httpserve() and http_serve_request().                               *)
(***************************************************************************)
fetched == <<fetch, peer, incoming, raw>>

Listen ==
  /\ serve.pc = "listen"
  /\ \E pc \in {"accept", "stopped"} : serve' = [serve EXCEPT !.pc = pc]
  /\ UNCHANGED <<fetched, visitor, answered>>

\* A connection, or the end of the command: all served, or none came in time.
Accept ==
  /\ serve.pc = "accept"
  /\ \/ /\ serve.served < HTTPSERVE_MAX_CONNECTIONS
        /\ serve' = [serve EXCEPT !.pc = "request", !.buf = <<>>, !.conn = TRUE]
        /\ \E r \in Requests : visitor' = [asks |-> r, left |-> r, heard |-> <<>>]
     \/ serve' = [serve EXCEPT !.pc = "stopped"] /\ UNCHANGED visitor
  /\ UNCHANGED <<fetched, answered>>

GotHeaders == IndexOfHeader(serve.buf, "blank") # 0

\* tcp_server_receive() into what is left of buf.
ReadRequest ==
  /\ serve.pc = "request" /\ ~GotHeaders
  /\ \E n \in 1..Len(visitor.left) :
       /\ n <= RequestRoom - Len(serve.buf)
       /\ serve' = [serve EXCEPT !.buf = @ \o SubSeq(visitor.left, 1, n)]
       /\ visitor' = [visitor EXCEPT !.left = SubSeq(@, n + 1, Len(@))]
  /\ UNCHANGED <<fetched, answered>>

Served(status) ==
  /\ serve' = [serve EXCEPT !.pc = "accept", !.conn = FALSE, !.served = @ + 1]
  /\ answered' = Append(answered, [asks |-> visitor.asks, status |-> status])

\* No complete request: nothing came in time, or buf is full.
DropRequest ==
  /\ serve.pc = "request" /\ ~GotHeaders
  /\ Served(0)
  /\ UNCHANGED <<fetched, visitor>>

\* The path between the first two blanks of the request line; ROOT is "/".
ROOT == 1
Status(line) == IF line = Line("get", ROOT) THEN 200 ELSE 404

\* The answer is sent once, whether it arrives or not, and the connection closed.
ServeRequest ==
  /\ serve.pc = "request" /\ GotHeaders
  /\ Served(Status(serve.buf[1]))
  /\ \/ visitor' = [visitor EXCEPT !.heard = Append(@, Status(serve.buf[1]))]
     \/ UNCHANGED visitor
  /\ UNCHANGED fetched

FetchNext ==
  \/ ParseUrl \/ OpenConnection \/ SendRequest \/ ReceiveSome \/ ReceiveEnds
  \/ ParseHead \/ ParseFraming \/ Dechunk

ServeNext == Listen \/ Accept \/ ReadRequest \/ DropRequest \/ ServeRequest

-----------------------------------------------------------------------------
\* Buffers and positions of the parser and the server stay inside their arrays.
HttpTypeOK ==
  /\ fetch.pc \in {"url", "open", "send", "receive", "parse", "frame", "chunks", "ok",
                   "failed"}
  /\ Len(raw) <= Room /\ Len(fetch.headers) <= HTTP_MAX_HEADERS
  /\ fetch.body # 0 => fetch.body - 1 + fetch.body_len <= Len(raw)
  /\ Len(serve.buf) <= RequestRoom /\ serve.served <= HTTPSERVE_MAX_CONNECTIONS

Body == SubSeq(raw, fetch.body, fetch.body - 1 + fetch.body_len)

\* The header that says how the body is framed is among those the parser keeps.
FramingKept == \A i \in DOMAIN peer.headers : i > HTTP_MAX_HEADERS => peer.headers[i].kind = "Other"

\* A fetch that succeeds hands up the status and the body the server sent: all of
\* a chunked body, of another one the beginning, and never a byte of the framing
\* (http_parse_response()).
BodyIsWhatWasSent ==
  fetch.pc = "ok" /\ FramingKept =>
    /\ fetch.status = peer.status
    /\ IsPrefix(Body, Bytes(peer.payload))
    /\ IsChunked(peer) => Body = Bytes(peer.payload)

\* The dechunking loop writes only what it has read: the rest of the buffer is as
\* it came.
UnreadIsUntouched ==
  fetch.pc = "chunks" =>
    \A i \in fetch.read_pos..Len(raw) : raw[i] = Encoded(peer)[i]

\* The fetch closes what it opened; httpserve has one connection at a time, closes
\* each, and answers a request once, by its path, if it arrived whole.
ConnectionsClosed ==
  /\ fetch.pc \in {"url", "open", "parse", "frame", "chunks", "ok", "failed"} => ~fetch.conn
  /\ serve.conn <=> serve.pc = "request"
  /\ Len(visitor.heard) <= 1
  /\ Len(answered) = serve.served
  /\ \A i \in DOMAIN answered :
       answered[i].status # 0 =>
         /\ IndexOfHeader(answered[i].asks, "blank") \in 1..RequestRoom
         /\ answered[i].status = 200 <=> answered[i].asks[1].value = ROOT
=============================================================================
