------------------------------- MODULE Resolve -------------------------------
(***************************************************************************)
(* Configuration and address resolution: kernel/net/ip and dhcp            *)
(* (ensure_ip_configured, dhcp_client), arp and ndp with their caches,     *)
(* udp and dns, and the two pings with IPv6 autoconfiguration.             *)
(*                                                                         *)
(* Several kernel tasks use them at once, and every wait is a bounded poll *)
(* of the one receive ring in which a frame for somebody else is dropped.  *)
(* The network (external) answers a request with frames that arrive in any *)
(* order, late or not at all.                                              *)
(***************************************************************************)
EXTENDS Naturals, Sequences, FiniteSets

CONSTANTS
  Tasks, Job,          \* "dns", "ping", "slaac" or "ping6"
  Groups,              \* sets of tasks that run together
  Questions,           \* the hosts, or targets, each task asks about in turn
  Answering,           \* addresses that answer an ARP or NDP request
  Servers,             \* DHCP servers that answer
  ARP_CACHE_SIZE, DHCP_MAX_ATTEMPTS, NDP_RS_MAX_ATTEMPTS,
  ConfigOverlaps,      \* a task may start while another runs DHCP
  MaxDrops             \* bound: frames the network loses

VARIABLES
  g_ip_configured,
  address,       \* g_my_ip and g_gateway_ip: "zero", "static" or a server's
  router6,       \* g_ipv6_default_router, "none" until g_ipv6_global_valid
  cache,         \* addresses in the ARP and in the NDP cache, in order
  air, rxring,   \* frames under way, and received
  nt,            \* the tasks: pc, attempts, the offer, the result
  drops, stale   \* frames that may still be lost; history: a query timed out

nvars == <<g_ip_configured, address, router6, cache, air, rxring, nt, drops,
           stale>>

NoOffer == "none"
Start == [pc |-> "idle", attempt |-> 0, offer |-> NoOffer, result |-> "none",
          used |-> "none", round |-> 1]
Question(t) == Questions[t][nt[t].round]
Polling == {"discover", "request", "arp_wait", "ndp_wait", "query", "query6",
            "solicit"}

ResolveInit ==
  /\ g_ip_configured = FALSE /\ address = "zero" /\ router6 = "none"
  /\ cache = [arp |-> <<>>, ndp |-> <<>>]
  /\ air = {} /\ rxring = <<>>
  /\ \E g \in Groups :
       nt = [t \in Tasks |-> IF t \in g THEN Start
               ELSE [Start EXCEPT !.pc = "done", !.round = Len(Questions[t])]]
  /\ drops = MaxDrops /\ stale = FALSE

\* The caches within their size, the tasks at a step they have.
ResolveTypeOK ==
  /\ address \in {"zero", "static"} \cup Servers
  /\ Len(cache.arp) <= ARP_CACHE_SIZE /\ Len(cache.ndp) <= ARP_CACHE_SIZE
  /\ \A t \in Tasks : nt[t].pc \in Polling \cup {"idle", "arp", "ndp", "done"}

-----------------------------------------------------------------------------
(***************************************************************************)
(* The network.  Frames carry what the pollers compare.                    *)
(***************************************************************************)
Frame(kind, of) == [kind |-> kind, of |-> of]
Offers == {Frame("offer", s) : s \in Servers}
Replies(kind, to) == IF to \in Answering THEN {Frame(kind, to)} ELSE {}

Deliver(f) ==
  /\ f \in air
  /\ air' = air \ {f}
  /\ rxring' = Append(rxring, f)
  /\ UNCHANGED <<g_ip_configured, address, router6, cache, nt, drops, stale>>

Drop(f) ==
  /\ f \in air /\ drops > 0
  /\ air' = air \ {f} /\ drops' = drops - 1
  /\ UNCHANGED <<g_ip_configured, address, router6, cache, rxring, nt, stale>>

\* netdev_receive(): a frame is taken from the ring for good.
Takes(t, f) ==
  /\ rxring # <<>> /\ f = Head(rxring)
  /\ rxring' = Tail(rxring)
Becomes(t, r) == nt' = [nt EXCEPT ![t] = r]
At(t, pc) == [nt[t] EXCEPT !.pc = pc, !.attempt = 1]

-----------------------------------------------------------------------------
(***************************************************************************)
(* ensure_ip_configured() and dhcp_client().                               *)
(***************************************************************************)
Configuring == {t \in Tasks : nt[t].pc \in {"discover", "request"}}

\* The REQUEST names the server of the OFFER, which alone answers.
Request(t, f) ==
  /\ Becomes(t, [At(t, "request") EXCEPT !.offer = f.of])
  /\ air' = air \cup {Frame("ack", f.of)}
  /\ UNCHANGED <<address, drops>>

\* What is acknowledged is used; ip_init() has the static addresses.
Lease(t, f) ==
  /\ address' = f.of
  /\ Becomes(t, At(t, "arp")) /\ UNCHANGED <<air, drops>>
ip_init == address' = "static"

\* The flag is raised before DHCP is through.
Begin(t) ==
  /\ nt[t].pc = "idle" /\ Job[t] \in {"dns", "ping"}
  /\ ConfigOverlaps \/ Configuring = {}
  /\ g_ip_configured' = TRUE
  /\ IF g_ip_configured
     THEN Becomes(t, At(t, "arp")) /\ UNCHANGED air
     ELSE Becomes(t, At(t, "discover")) /\ air' = air \cup Offers
  /\ UNCHANGED <<address, router6, cache, rxring, drops, stale>>

\* dhcp_wait_reply(): of the frames only a reply of the expected type counts.
DhcpPoll(t) ==
  \E f \in {rxring[i] : i \in DOMAIN rxring} :
    /\ nt[t].pc \in {"discover", "request"}
    /\ Takes(t, f)
    /\ \/ nt[t].pc = "discover" /\ f.kind = "offer" /\ Request(t, f)
       \/ nt[t].pc = "request" /\ f.kind = "ack" /\ Lease(t, f)
       \/ /\ f.kind # (IF nt[t].pc = "discover" THEN "offer" ELSE "ack")
          /\ UNCHANGED <<address, air, nt, drops>>
    /\ UNCHANGED <<g_ip_configured, router6, cache, stale>>

\* An attempt times out; after the last one the static addresses are used.
DhcpTimeout(t) ==
  LET n == nt[t]
      again == n.attempt < DHCP_MAX_ATTEMPTS
  IN
  /\ n.pc \in {"discover", "request"} /\ rxring = <<>>
  /\ IF again
     THEN /\ Becomes(t, [n EXCEPT !.attempt = @ + 1])
          /\ air' = air \cup (IF n.pc = "discover" THEN Offers
                              ELSE {Frame("ack", n.offer)})
          /\ UNCHANGED address
     ELSE /\ Becomes(t, At(t, "arp"))
          /\ ip_init /\ UNCHANGED air
  /\ UNCHANGED <<g_ip_configured, router6, cache, rxring, drops, stale>>

-----------------------------------------------------------------------------
(***************************************************************************)
(* arp_resolve() and ndp_resolve(): the cache, one request, a bounded poll.*)
(***************************************************************************)
InCache(c, a) == \E i \in DOMAIN cache[c] : cache[c][i] = a
\* (Mutant.) The cache is not seen to be full.
InsertedAnyway(c, a) == [cache EXCEPT ![c] = Append(@, a)]
Inserted(c, a) ==
  IF Len(cache[c]) >= ARP_CACHE_SIZE THEN cache
  ELSE [cache EXCEPT ![c] = Append(@, a)]

\* The next hop: the DNS server or the gateway of the configuration in force;
\* nothing answers for 0.0.0.0.
Hop(t) == IF address = "zero" THEN "zero"
          ELSE IF Job[t] = "dns" THEN "dns" ELSE "gateway"
arp_send_request(t) == air' = air \cup Replies("arp", Hop(t))

\* The question itself, answered by whoever it reaches.
dns_build_query(t) == {Frame("dns", Question(t))}
Echo(t) == {Frame("echo", Question(t))}
Echo6(t) == {Frame("echo6", Question(t))}
Asks(t) == IF Job[t] = "dns" THEN dns_build_query(t) ELSE Echo(t)

arp_resolve(t) ==
  /\ nt[t].pc = "arp"
  /\ IF InCache("arp", Hop(t))
     THEN /\ Becomes(t, [At(t, "query") EXCEPT !.used = address])
          /\ air' = air \cup Asks(t)
     ELSE /\ Becomes(t, [At(t, "arp_wait") EXCEPT !.used = address])
          /\ arp_send_request(t)
  /\ UNCHANGED <<g_ip_configured, address, router6, cache, rxring, drops, stale>>

ArpPoll(t) ==
  \E f \in {rxring[i] : i \in DOMAIN rxring} :
    /\ nt[t].pc = "arp_wait"
    /\ Takes(t, f)
    /\ IF f = Frame("arp", Hop(t))
       THEN /\ cache' = Inserted("arp", f.of)
            /\ Becomes(t, At(t, "query"))
            /\ air' = air \cup Asks(t)
       ELSE UNCHANGED <<cache, nt, air>>
    /\ UNCHANGED <<g_ip_configured, address, router6, drops, stale>>

\* Link-local targets are asked for directly, others through the router of an
\* advertisement, and not at all without one.
Hop6(t) == IF Question(t) = "local" THEN "local" ELSE router6
ndp_send_neighbor_solicitation(t) == air' = air \cup Replies("na", Hop6(t))
ndp_resolve(t) ==
  /\ nt[t].pc = "idle" /\ Job[t] = "ping6"
  /\ CASE Hop6(t) = "none" -> Becomes(t, At(t, "done")) /\ UNCHANGED air
       [] Hop6(t) # "none" /\ InCache("ndp", Hop6(t)) ->
            /\ Becomes(t, At(t, "query6"))
            /\ air' = air \cup Echo6(t)
       [] OTHER -> /\ Becomes(t, At(t, "ndp_wait"))
                   /\ ndp_send_neighbor_solicitation(t)
  /\ UNCHANGED <<g_ip_configured, address, router6, cache, rxring, drops, stale>>

NdpPoll(t) ==
  \E f \in {rxring[i] : i \in DOMAIN rxring} :
    /\ nt[t].pc = "ndp_wait"
    /\ Takes(t, f)
    /\ IF f = Frame("na", Hop6(t))
       THEN /\ cache' = Inserted("ndp", f.of)
            /\ Becomes(t, At(t, "query6"))
            /\ air' = air \cup Echo6(t)
       ELSE UNCHANGED <<cache, nt, air>>
    /\ UNCHANGED <<g_ip_configured, address, router6, drops, stale>>

ndp_send_router_solicitation ==
  air' = air \cup {Frame("ra", "router"), Frame("ra", "bare")}
Autoconfigured(t, f) == router6' = f.of /\ Becomes(t, At(t, "done"))

\* ndp_do_slaac(): an advertisement without a prefix is passed over.
Solicit(t) ==
  /\ nt[t].pc = "idle" /\ Job[t] = "slaac"
  /\ Becomes(t, At(t, "solicit"))
  /\ ndp_send_router_solicitation
  /\ UNCHANGED <<g_ip_configured, address, router6, cache, rxring, drops, stale>>

SolicitPoll(t) ==
  \E f \in {rxring[i] : i \in DOMAIN rxring} :
    /\ nt[t].pc = "solicit"
    /\ Takes(t, f)
    /\ IF f = Frame("ra", "router")
       THEN Autoconfigured(t, f)
       ELSE UNCHANGED <<router6, nt>>
    /\ UNCHANGED <<g_ip_configured, address, cache, air, drops, stale>>

-----------------------------------------------------------------------------
(***************************************************************************)
(* The questions.  A DNS answer is known by the fixed ports and the fixed  *)
(* id alone; an echo by target, identifier and sequence.                   *)
(***************************************************************************)
\* (Mutant.) Any echo reply will do.
MatchesAny(t, f) ==
  CASE nt[t].pc = "query" /\ Job[t] = "dns" -> f.kind = "dns"
    [] nt[t].pc = "query" -> f.kind = "echo"
    [] OTHER -> f.kind = "echo6"

DnsReply(f) == f.kind = "dns"
EchoReply(t, f) == f = Frame("echo", Question(t))
Echo6Reply(t, f) == f = Frame("echo6", Question(t))
Matches(t, f) ==
  CASE nt[t].pc = "query" /\ Job[t] = "dns" -> DnsReply(f)
    [] nt[t].pc = "query" -> EchoReply(t, f)
    [] OTHER -> Echo6Reply(t, f)

QueryPoll(t) ==
  \E f \in {rxring[i] : i \in DOMAIN rxring} :
    /\ nt[t].pc \in {"query", "query6"}
    /\ Takes(t, f)
    /\ IF Matches(t, f)
       THEN Becomes(t, [At(t, "done") EXCEPT !.result = f.of])
       ELSE UNCHANGED nt
    /\ UNCHANGED <<g_ip_configured, address, router6, cache, air, drops, stale>>

\* The wait for a reply of any kind runs out, and the call fails; SLAAC tries
\* again.  The answer may still come, for whoever polls then.
Timeout(t) ==
  LET n == nt[t] IN
  /\ n.pc \in Polling \ {"discover", "request"} /\ rxring = <<>>
  /\ IF n.pc = "solicit" /\ n.attempt < NDP_RS_MAX_ATTEMPTS
     THEN /\ Becomes(t, [n EXCEPT !.attempt = @ + 1])
          /\ ndp_send_router_solicitation
     ELSE Becomes(t, At(t, "done")) /\ UNCHANGED air
  /\ stale' = (stale \/ (n.pc = "query" /\ Job[t] = "dns"))
  /\ UNCHANGED <<g_ip_configured, address, router6, cache, rxring, drops>>

\* The next request of the task's caller.
Again(t) ==
  /\ nt[t].pc = "done" /\ nt[t].round < Len(Questions[t])
  /\ Becomes(t, [Start EXCEPT !.round = nt[t].round + 1])
  /\ UNCHANGED <<g_ip_configured, address, router6, cache, air, rxring, drops,
                 stale>>

ResolveNext ==
  \/ \E t \in Tasks :
       \/ Begin(t) \/ DhcpPoll(t) \/ DhcpTimeout(t)
       \/ arp_resolve(t) \/ ArpPoll(t) \/ ndp_resolve(t) \/ NdpPoll(t)
       \/ Solicit(t) \/ SolicitPoll(t) \/ QueryPoll(t) \/ Timeout(t)
       \/ Again(t)
  \/ \E f \in air : Deliver(f) \/ Drop(f)

ResolveSpec == ResolveInit /\ [][ResolveNext]_nvars

-----------------------------------------------------------------------------
\* The addresses a task works with after ensure_ip_configured() are set: by
\* one server, the one whose offer was taken, or statically.  arp.c: "called
\* here to guarantee g_my_ip is valid".
AddressIsValid ==
  \A t \in Tasks : nt[t].pc \in {"arp_wait", "query"} => nt[t].used # "zero"

\* The lease in force was acknowledged by the server whose offer the client
\* requested, whichever offers and acknowledgements of repeated attempts are
\* still arriving.
LeaseIsTheOneRequested ==
  \A t \in Tasks : nt[t].offer \in Servers => address \in {"zero", "static",
                                                           nt[t].offer}

\* A name resolved is the name asked for, and a ping answered is that ping,
\* with other tasks' answers, late answers and lost frames around: until a
\* query times out, for the fixed DNS id does not tell queries apart.
AnswerIsMine ==
  \A t \in Tasks :
    nt[t].result # "none" =>
      \/ nt[t].result = Question(t)
      \/ stale /\ Job[t] = "dns"

=============================================================================
