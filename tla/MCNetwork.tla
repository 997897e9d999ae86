----------------------------- MODULE MCNetwork ------------------------------
(***************************************************************************)
(* The network for TLC: TCP with sockets, configuration and address        *)
(* resolution, the e1000 rings, WiFi, TLS with its modular arithmetic, and *)
(* HTTP.  The models share no state and are explored one at a time: `part' *)
(* says which one a behaviour is about.                                    *)
(***************************************************************************)
EXTENDS Nic

VARIABLES
  part,
  ring, pool, task, remote, listeners, sockets, orphans,       \* Tcp
  losses,
  g_ip_configured, address, router6, cache, air, rxring, nt,   \* Resolve
  drops, stale,
  g_chip_ready, tuned, rxq, onair, ap, g_scan_cache, wk,       \* Wifi
  g_wifi_requests, plan, g_wifi_state, g_wifi_connected_ssid,
  ccmp, sent, got, nonces, faults,
  tpc, conn, stream, toServer, toClient, srv, response,        \* Tls
  mishaps,
  fetch, peer, incoming, raw, serve, visitor, answered,        \* Http
  num, acc, bit                                                \* Bignum

-----------------------------------------------------------------------------
\* A stream, a fetch and a server, one at a time with losses, one refused, and
\* two that take each other's frames from the ring.
Scenario(conns, refusing, bytes, lossy) ==
  [conns |-> conns, refusing |-> refusing, bytes |-> bytes, losses |-> lossy]
T == INSTANCE Tcp WITH
  Conns <- {"s", "f", "v"},
  Kind <- [c \in {"s", "f", "v"} |-> CASE c = "s" -> "stream" [] c = "f" -> "fetch"
                                       [] c = "v" -> "server"],
  TCP_CONNECTION_SLOTS <- 2, TCP_LISTENER_SLOTS <- 2, SOCKET_SLOTS <- 2,
  TCP_MAX_ATTEMPTS <- 2, PENDING <- 3, MaxLen <- 2, Chunk <- 3, Sends <- 1,
  Late <- 1, LoseSent <- FALSE,
  Scenarios <- {Scenario({"s"}, {}, 3, 2), Scenario({"f"}, {}, 3, 2),
                Scenario({"v"}, {}, 2, 1), Scenario({"s"}, {"s"}, 0, 0),
                Scenario({"f", "v"}, {}, 1, 0)}

\* A name lookup beside a ping, two pings in a row, and autoconfiguration beside
\* two IPv6 pings; caches of one entry.
NetTasks == {"d", "p", "r", "s", "q"}
R == INSTANCE Resolve WITH
  Tasks <- NetTasks, Groups <- {{"d", "p"}, {"r"}, {"s", "q"}},
  Job <- [t \in NetTasks |-> CASE t = "d" -> "dns" [] t \in {"p", "r"} -> "ping"
                               [] t = "s" -> "slaac" [] t = "q" -> "ping6"],
  Questions <- [t \in NetTasks |->
                  CASE t = "d" -> <<"h">> [] t = "p" -> <<"x">>
                    [] t = "r" -> <<"x", "y">> [] t = "s" -> <<"none">>
                    [] t = "q" -> <<"far", "local">>],
  Answering <- {"gateway", "dns", "local", "router"}, Servers <- {"s1", "s2"},
  ARP_CACHE_SIZE <- 1, DHCP_MAX_ATTEMPTS <- 2, NDP_RS_MAX_ATTEMPTS <- 2,
  ConfigOverlaps <- FALSE, MaxDrops <- 1

\* A keyed and an open network on the last channel scanned, one on another.
W == INSTANCE Wifi WITH
  Aps <- {"open", "home", "far"},
  Channel <- [a \in {"open", "home", "far"} |-> IF a = "far" THEN 1 ELSE 11],
  HasRsn <- [a \in {"open", "home", "far"} |-> a = "home"],
  Secret <- [a \in {"open", "home", "far"} |-> "right"],
  Scanned <- <<1, 11>>,
  Plans <- {<<<<"home", "right">>, <<"home", "right">>>>,
            <<<<"home", "wrong">>, <<"open", "x">>>>,
            <<<<"home", "right">>, <<"open", "x">>>>,
            <<<<>>, <<"far", "x">>>>},
  SCAN_CACHE_SIZE <- 2, WIFI_REQUEST_SLOTS <- 1, RX_RING_DEPTH <- 4,
  MaxSent <- 2, MaxData <- 1, MaxFaults <- 1

\* An answer of three records, the last of which the buffer has no room for.
S == INSTANCE Tls WITH
  TLS_MAX_RECORD_LEN <- 2, Room <- 4, AppData <- <<<<1, 2>>, <<3>>, <<4, 5>>>>,
  Certs <- {"rsa", "small", "long", "broken"}, Flights <- {"one", "each", "cut"},
  MaxFaults <- 2

\* Every framing: chunks, a length, neither, one after the headers that are kept.
Head1(kind, value) == [kind |-> kind, value |-> value]
Answer(status, headers, payload) ==
  [status |-> status, headers |-> headers, payload |-> payload]
H == INSTANCE Http WITH
  HTTP_MAX_HEADERS <- 2, Room <- 9,
  Urls <- [scheme : {"http", "https", "other"}, host : {"ip", "name"}, long : BOOLEAN],
  Answers <-
    {Answer(200, <<Head1("Transfer-Encoding", 1)>>, <<1, 2, 3>>),
     Answer(200, <<Head1("Transfer-Encoding", 1), Head1("Content-Length", 9)>>, <<1>>),
     Answer(200, <<Head1("Transfer-Encoding", 0), Head1("Content-Length", 1)>>, <<1>>),
     Answer(200, <<Head1("Other", 0), Head1("Content-Length", 2)>>, <<1, 2, 3>>),
     Answer(404, <<Head1("Content-Length", 3)>>, <<1, 2, 3>>),
     Answer(200, <<Head1("Other", 0)>>, <<1, 2>>),
     Answer(200, <<Head1("Other", 0), Head1("Other", 0), Head1("Transfer-Encoding", 1)>>, <<1>>),
     Answer(0, <<Head1("Other", 0)>>, <<1>>)},
  Requests <-
    {<<Head1("get", 1), Head1("blank", 0)>>,
     <<Head1("get", 2), Head1("Other", 0), Head1("blank", 0)>>,
     <<Head1("get", 1), Head1("Other", 0), Head1("Other", 0), Head1("blank", 0)>>},
  RequestRoom <- 3, HTTPSERVE_MAX_CONNECTIONS <- 2

\* Limbs of two bits; moduli with a full, an empty and a short top
\* limb, of one bit and of all bits.
B == INSTANCE Bignum WITH
  LimbBits <- 2, ByteBits <- 1, BIGNUM_LIMBS <- 3,
  Moduli <- {3, 8, 15, 16, 21, 48, 63}

-----------------------------------------------------------------------------
tcp == <<ring, pool, task, remote, listeners, sockets, orphans, losses>>
resolve == <<g_ip_configured, address, router6, cache, air, rxring, nt, drops,
             stale>>
wifi == <<g_chip_ready, tuned, rxq, onair, ap, g_scan_cache, wk, g_wifi_requests,
          plan, g_wifi_state, g_wifi_connected_ssid, ccmp, sent, got, nonces,
          faults>>
tls == <<tpc, conn, stream, toServer, toClient, srv, response, mishaps>>
http == <<fetch, peer, incoming, raw, serve, visitor, answered>>
bignum == <<num, acc, bit>>
mcvars == <<part, tcp, resolve, nicvars, wifi, tls, http, bignum>>

\* A part left alone starts in one of its initial states only; the arithmetic has
\* no state outside a call.
MCInit ==
  /\ part \in {"tcp", "resolve", "nic", "wifi", "tls", "fetch", "serve", "bignum"}
  /\ T!TcpInit /\ R!ResolveInit /\ NicInit /\ W!WifiInit /\ S!TlsInit /\ H!HttpInit
  /\ part # "tcp" => task["s"].pc = "idle" /\ losses = 2
  /\ part # "resolve" => nt["d"].pc = "idle"
  /\ part # "wifi" => plan[1] = <<>>
  /\ part # "fetch" => /\ fetch.url = [scheme |-> "other", host |-> "ip", long |-> FALSE]
                       /\ peer.status = 404
  /\ IF part = "bignum" THEN B!BignumInit ELSE num = 0 /\ acc = 0 /\ bit = 0

MCNext ==
  /\ UNCHANGED part
  /\ \/ part = "tcp" /\ T!TcpNext /\ UNCHANGED <<resolve, nicvars, wifi, tls, http, bignum>>
     \/ part = "resolve" /\ R!ResolveNext /\ UNCHANGED <<tcp, nicvars, wifi, tls, http, bignum>>
     \/ part = "nic" /\ NicNext /\ UNCHANGED <<tcp, resolve, wifi, tls, http, bignum>>
     \/ part = "wifi" /\ W!WifiNext /\ UNCHANGED <<tcp, resolve, nicvars, tls, http, bignum>>
     \/ part = "tls" /\ S!TlsNext /\ UNCHANGED <<tcp, resolve, nicvars, wifi, http, bignum>>
     \/ part = "fetch" /\ H!FetchNext /\ UNCHANGED <<tcp, resolve, nicvars, wifi, tls, bignum>>
     \/ part = "serve" /\ H!ServeNext /\ UNCHANGED <<tcp, resolve, nicvars, wifi, tls, bignum>>
     \/ part = "bignum" /\ B!bignum_modexp /\ UNCHANGED <<tcp, resolve, nicvars, wifi, tls, http>>

MCSpec == MCInit /\ [][MCNext]_mcvars

-----------------------------------------------------------------------------
(***************************************************************************)
(* The properties, each for the part it is about: the others stay as they  *)
(* began.                                                                  *)
(***************************************************************************)
\* Sequence numbers, slots, ring positions and caches of the drivers and
\* protocols stay inside their ranges and arrays.
TypesOK ==
  /\ part = "tcp" => T!TcpTypeOK
  /\ part = "resolve" => R!ResolveTypeOK
  /\ NicTypeOK
  /\ part = "wifi" => W!WifiTypeOK
  /\ part = "tls" => S!TlsTypeOK
  /\ part \in {"fetch", "serve"} => H!HttpTypeOK

\* Client streams of tcp.c deliver the peer's bytes in order, none missing and
\* none twice, and acknowledge only what was sent, kept or delivered, while
\* segments are lost and repeated and other tasks take from the same ring; and
\* whatever fails, every slot of g_tcp_connections in use belongs to exactly one
\* task that will close it, or to an accept that found no socket slot.
TcpSound ==
  part = "tcp" => T!StreamIsPrefix /\ T!AcksAreHonest /\ T!ConnectionsAccounted

\* With one task at a time in dhcp_client(): nobody uses 0.0.0.0, the lease is
\* that of the server asked, and arp, ndp, dns and ping hand back the answer to
\* the question asked, until a DNS query times out.
ResolutionSound ==
  part = "resolve" => R!AddressIsValid /\ R!LeaseIsTheOneRequested /\ R!AnswerIsMine

\* While connected to a keyed network, the key in use is the one the access
\* point has for this association (wpa2.c, wifi_manager_connect()); under one key
\* no packet number is used twice and no frame accepted twice
\* (rtw89_send_data_frame(), rtw89_recv_data_frame()).
WifiSound == part = "wifi" => W!KeysAgree /\ W!FramesOnce

\* tls_connect() succeeds only if both ends agree on keys and transcript, and what
\* a fetch hands up is what the server sent, over a stream that may repeat, lose
\* or damage records; every connection opened is closed.
FetchSound ==
  /\ part = "tls" => S!ConnectedMeansAgreed /\ S!ResponseIsPrefix /\ S!NothingLeftOpen
  /\ part \in {"fetch", "serve"} =>
       H!BodyIsWhatWasSent /\ H!UnreadIsUntouched /\ H!ConnectionsClosed

\* After each round of bignum_modexp() the accumulator is the base to the power
\* of the exponent's bits seen so far, modulo the modulus, whatever carries,
\* borrows and shifts cross the limbs; and it survives the way through the bytes
\* that go into a handshake message.
PowerExact == part = "bignum" => B!PowerExact
=============================================================================
