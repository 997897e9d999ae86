---------------------------------- MODULE Wifi ----------------------------------
(***************************************************************************)
(* WiFi: the RTL8852BE driver (kernel/net/rtw89/rtw89.c), scanning,        *)
(* authentication and association (dot11.c), the WPA2 four-way handshake   *)
(* (wpa2.c), the session (wifi_manager.c), the worker that serves the      *)
(* requests of programs (proc/ipc/wifi_request, syscalls 101-105) and the  *)
(* dispatch of data frames (kernel/net/netdev/netdev.c).                   *)
(*                                                                         *)
(* The access points and the air are external.  A network's SSID stands    *)
(* for its BSSID too.  A key is the tuple it is derived from: passphrase,  *)
(* network, ANonce, SNonce; a MIC verifies when the keys are equal.        *)
(***************************************************************************)
EXTENDS Naturals, Sequences, FiniteSets

CONSTANTS
  Aps,                \* the access points in range
  Channel, HasRsn, Secret,
  Scanned,            \* the channels dot11_scan() visits, in order
  Plans,              \* what programs ask for in turn: <<ssid, passphrase>>, or
                      \* <<>> for a scan
  SCAN_CACHE_SIZE, WIFI_REQUEST_SLOTS, RX_RING_DEPTH,
  MaxSent, MaxData,   \* bound: data frames sent here, and by an access point
  MaxFaults           \* bound: lost, repeated and resent frames, failed tunings

VARIABLES
  g_chip_ready, tuned,        \* firmware up; the channel the radio is on
  rxq, onair,                 \* received frames; frames on their way here
  ap,                         \* what each access point knows of this station
  g_scan_cache,               \* networks found, in order
  wk,                         \* the worker: pc, request slot, network, ...
  g_wifi_requests, plan,
  g_wifi_state, g_wifi_connected_ssid,
  ccmp,                       \* installed, bssid, tk, g_tx_pn, g_rx_pn
  sent, got,                  \* history: data frames sent and handed up
  nonces, faults              \* nonces drawn so far; faults so far

wifivars == <<g_chip_ready, tuned, rxq, onair, ap, g_scan_cache, wk,
              g_wifi_requests, plan, g_wifi_state, g_wifi_connected_ssid,
              ccmp, sent, got, nonces, faults>>
radio == <<g_chip_ready, tuned>>
station == <<g_scan_cache, wk, g_wifi_requests, plan, g_wifi_state,
             g_wifi_connected_ssid, ccmp, sent, got>>
session == <<g_wifi_state, g_wifi_connected_ssid, ccmp>>

NoKey == <<>>
Resting == [pc |-> "rest", slot |-> 0, net |-> "none", pass |-> "none",
            ci |-> 0, found |-> <<>>, tk |-> NoKey]
Stranger == [st |-> "none", anonce |-> 0, ptk |-> NoKey, pn |-> 0]
FreeRequest == [used |-> FALSE, done |-> FALSE, wish |-> <<>>, result |-> "none"]
Failures == {"FAILED_AUTH", "FAILED_ASSOC", "FAILED_WRONG_PASSWORD", "FAILED_TIMEOUT"}

WifiInit ==
  /\ g_chip_ready = FALSE /\ tuned = 0 /\ rxq = <<>> /\ onair = <<>>
  /\ ap = [a \in Aps |-> Stranger]
  /\ g_scan_cache = <<>> /\ wk = [Resting EXCEPT !.pc = "boot"]
  /\ g_wifi_requests = [s \in 1..WIFI_REQUEST_SLOTS |-> FreeRequest] /\ plan \in Plans
  /\ g_wifi_state = "IDLE" /\ g_wifi_connected_ssid = "none"
  /\ ccmp = [installed |-> FALSE, bssid |-> "none", tk |-> NoKey, tx |-> 0, rx |-> 0]
  /\ sent = <<>> /\ got = <<>> /\ nonces = 0 /\ faults = 0

\* The session is in a state of the enumeration, the scan cache and the ring
\* hold no more than their arrays do.
WifiTypeOK ==
  /\ g_wifi_state \in {"IDLE", "CONNECTING", "CONNECTED"} \cup Failures
  /\ Len(g_scan_cache) <= SCAN_CACHE_SIZE /\ Len(rxq) < RX_RING_DEPTH
  /\ wk.pc \in {"boot", "rest", "scan", "dwell", "auth", "assoc", "m1", "m3"}
  /\ ccmp.tx \in Nat /\ ccmp.rx \in Nat

-----------------------------------------------------------------------------
(* The access points (external).                                           *)

Frame(kind, a, n, key) == [kind |-> kind, ap |-> a, n |-> n, key |-> key]
Hears(a) == Channel[a] = tuned
Answer(fs) == onair' = onair \o fs

\* An association makes the access point forget the last one; with a key to
\* agree on it goes on to message 1, whose ANonce is new.
Associated(a, n) ==
  [ap EXCEPT ![a] = [st |-> IF HasRsn[a] THEN "m1" ELSE "open",
                     anonce |-> n, ptk |-> NoKey, pn |-> 0]]
Welcome(a, n) ==
  <<Frame("assoc", a, 0, NoKey)>>
    \o (IF HasRsn[a] THEN <<Frame("m1", a, n, NoKey)>> ELSE <<>>)

\* What the access point makes of message 2: nothing, if the MIC is not its own.
HearM2(a, snonce, mic) ==
  LET own == <<Secret[a], a, ap[a].anonce, snonce>>
  IN IF Hears(a) /\ ap[a].st = "m1" /\ own = mic
     THEN /\ ap' = [ap EXCEPT ![a].st = "m3", ![a].ptk = own]
          /\ Answer(<<Frame("m3", a, 0, own)>>)
     ELSE UNCHANGED <<ap, onair>>

HearM4(a, mic) ==
  IF Hears(a) /\ ap[a].st = "m3" /\ ap[a].ptk = mic
  THEN ap' = [ap EXCEPT ![a].st = "keyed"]
  ELSE UNCHANGED ap

\* An access point whose message went unanswered sends it again.
ApResends(a) ==
  /\ faults < MaxFaults /\ Len(onair) < 3 /\ ap[a].st \in {"m1", "m3"}
  /\ faults' = faults + 1
  /\ Answer(<<Frame(ap[a].st, a, IF ap[a].st = "m1" THEN ap[a].anonce ELSE 0, ap[a].ptk)>>)
  /\ UNCHANGED <<radio, rxq, ap, station, nonces>>

\* A data frame for this station, numbered by its packet number.
ApData(a) ==
  /\ ap[a].st \in {"open", "keyed"} /\ ap[a].pn < MaxData
  /\ ap' = [ap EXCEPT ![a].pn = @ + 1]
  /\ Answer(<<Frame("data", a, ap[a].pn + 1, ap[a].ptk)>>)
  /\ UNCHANGED <<radio, rxq, station, nonces, faults>>

\* A frame reaches the receive ring if the radio is on its channel and the ring
\* has room; it may also be lost, or arrive twice.
Deliver ==
  /\ onair # <<>> /\ onair' = Tail(onair)
  /\ rxq' = IF Hears(Head(onair).ap) /\ Len(rxq) + 1 < RX_RING_DEPTH
            THEN Append(rxq, Head(onair)) ELSE rxq
  /\ UNCHANGED <<radio, ap, station, nonces, faults>>

Lose ==
  /\ onair # <<>> /\ faults < MaxFaults /\ faults' = faults + 1
  /\ onair' = Tail(onair)
  /\ UNCHANGED <<radio, rxq, ap, station, nonces>>

Repeat ==
  /\ onair # <<>> /\ faults < MaxFaults /\ faults' = faults + 1
  /\ onair' = <<Head(onair)>> \o onair
  /\ UNCHANGED <<radio, rxq, ap, station, nonces>>

-----------------------------------------------------------------------------
(* Bring-up.                                                               *)

\* What R_AX_WCPU_FW_CTRL may read when the last section is down: ready, one of
\* three refusals, or anything else until the wait runs out.
fw_download == 0..7
\* Chip found and mapped, power on (three bounded waits), DMAC and CMAC on.
power_on_sequence == BOOLEAN

rtw89_init ==
  /\ wk.pc = "boot"
  /\ \E powered \in power_on_sequence, status \in fw_download :
       g_chip_ready' = (powered /\ status = 7)
  /\ wk' = Resting
  /\ UNCHANGED <<tuned, rxq, onair, ap, g_scan_cache, g_wifi_requests, plan,
                 session, sent, got, nonces, faults>>

-----------------------------------------------------------------------------
(* Requests of programs, syscalls 101 to 105.                              *)

\* The lowest free slot takes the request, if there is one.
alloc_wifi_request(wish) ==
  LET free == {s \in DOMAIN g_wifi_requests : ~g_wifi_requests[s].used} IN
  IF free = {} THEN g_wifi_requests
  ELSE [g_wifi_requests EXCEPT ![CHOOSE s \in free : \A t \in free : s <= t] =
          [FreeRequest EXCEPT !.used = TRUE, !.wish = wish]]

Issue ==
  /\ wk.pc # "boot" /\ plan # <<>> /\ plan' = Tail(plan)
  /\ g_wifi_requests' = alloc_wifi_request(Head(plan))
  /\ UNCHANGED <<radio, rxq, onair, ap, g_scan_cache, wk, session, sent, got, nonces, faults>>

\* The caller, blocked until the request is done, reads the result and frees it.
Collect(s) ==
  /\ g_wifi_requests[s].used /\ g_wifi_requests[s].done
  /\ g_wifi_requests' = [g_wifi_requests EXCEPT ![s] = FreeRequest]
  /\ UNCHANGED <<radio, rxq, onair, ap, g_scan_cache, wk, plan, session, sent, got,
                 nonces, faults>>

\* The worker is done with its request: the answer, then `done`.
Answered(result) ==
  /\ wk' = Resting
  /\ g_wifi_requests' = [g_wifi_requests EXCEPT ![wk.slot].done = TRUE,
                                                ![wk.slot].result = result]

Ends(state) ==
  /\ g_wifi_state' = state /\ Answered(state)
  /\ UNCHANGED <<g_wifi_connected_ssid, ccmp>>

find_cached_network(cache, ssid) == {i \in DOMAIN cache : cache[i] = ssid}

\* A frame through the transmit ring reaches the access point only on its channel;
\* fs is its answer.
rtw89_mgmt_send(a, fs) == IF Hears(a) THEN Answer(fs) ELSE UNCHANGED onair

\* dot11_connect_stage1() begins: one authentication request, on whatever channel
\* the radio is.
Authenticate ==
  /\ wk' = [wk EXCEPT !.pc = "auth", !.ci = 0, !.found = <<>>]
  /\ rtw89_mgmt_send(wk.net, <<Frame("auth", wk.net, 0, NoKey)>>)
  /\ UNCHANGED g_wifi_requests

\* The worker takes a request that is not done, in whatever place of its sweep
\* it is.
Take(s) ==
  /\ wk.pc = "rest" /\ g_wifi_requests[s].used /\ ~g_wifi_requests[s].done
  /\ LET wish == g_wifi_requests[s].wish
     IN wk' = [Resting EXCEPT !.pc = "scan", !.slot = s, !.ci = 1,
                 !.net = IF wish = <<>> THEN "none" ELSE wish[1],
                 !.pass = IF wish = <<>> THEN "none" ELSE wish[2]]
  /\ g_wifi_state' = IF g_wifi_requests[s].wish = <<>> THEN g_wifi_state ELSE "CONNECTING"
  /\ UNCHANGED <<radio, rxq, onair, ap, g_scan_cache, g_wifi_requests, plan,
                 g_wifi_connected_ssid, ccmp, sent, got, nonces, faults>>

\* A network the cache holds is not scanned for again.
Cached ==
  /\ wk.pc = "scan" /\ wk.ci = 1 /\ find_cached_network(g_scan_cache, wk.net) # {}
  /\ Authenticate
  /\ UNCHANGED <<radio, rxq, ap, g_scan_cache, plan, session, sent, got, nonces, faults>>

-----------------------------------------------------------------------------
(* Scanning, dot11_scan().                                                 *)

Scanning == /\ wk.pc = "scan"
            /\ wk.ci > 1 \/ find_cached_network(g_scan_cache, wk.net) = {}

\* The next channel: a probe request goes out and the access points there answer.
\* A tuning that fails leaves the radio on either channel and skips the dwell.
rtw89_set_channel ==
  /\ Scanning /\ wk.ci <= Len(Scanned) /\ g_chip_ready
  /\ \/ /\ tuned' = Scanned[wk.ci] /\ wk' = [wk EXCEPT !.pc = "dwell"]
        /\ \E heard \in SUBSET {a \in Aps : Channel[a] = Scanned[wk.ci]} :
             LET Beacon(a) == Frame("beacon", a, 0, NoKey)
             IN \/ heard = {} /\ UNCHANGED onair
                \/ \E a \in heard : heard = {a} /\ Answer(<<Beacon(a)>>)
                \/ \E a, b \in heard : a # b /\ heard = {a, b} /\ Answer(<<Beacon(a), Beacon(b)>>)
        /\ UNCHANGED faults
     \/ /\ faults < MaxFaults /\ faults' = faults + 1
        /\ tuned' \in {tuned, Scanned[wk.ci]} /\ wk' = [wk EXCEPT !.ci = @ + 1]
        /\ UNCHANGED onair
  /\ UNCHANGED <<g_chip_ready, rxq, ap, g_scan_cache, g_wifi_requests, plan, session,
                 sent, got, nonces>>

\* A beacon or probe response of a network not found yet is added; every other
\* frame, data included, is consumed.
ScanPoll ==
  /\ wk.pc = "dwell" /\ rxq # <<>> /\ rxq' = Tail(rxq)
  /\ wk' = IF /\ Head(rxq).kind = "beacon" /\ Len(wk.found) < SCAN_CACHE_SIZE
              /\ find_cached_network(wk.found, Head(rxq).ap) = {}
           THEN [wk EXCEPT !.found = Append(@, Head(rxq).ap)] ELSE wk
  /\ UNCHANGED <<radio, onair, ap, g_scan_cache, g_wifi_requests, plan, session, sent,
                 got, nonces, faults>>

DwellEnds ==
  /\ wk.pc = "dwell" /\ wk' = [wk EXCEPT !.pc = "scan", !.ci = @ + 1]
  /\ UNCHANGED <<radio, rxq, onair, ap, g_scan_cache, g_wifi_requests, plan, session,
                 sent, got, nonces, faults>>

\* The scan is over (at once, without a chip).  Its result is the cache, where a
\* connection looks its network up again.
ScanEnds ==
  /\ Scanning /\ (wk.ci > Len(Scanned) \/ ~g_chip_ready)
  /\ g_scan_cache' = wk.found
  /\ \/ wk.net = "none" /\ Answered("scanned") /\ UNCHANGED <<onair, session>>
     \/ /\ wk.net # "none" /\ find_cached_network(wk.found, wk.net) = {}
        /\ Ends("FAILED_TIMEOUT") /\ UNCHANGED onair
     \/ /\ wk.net # "none" /\ find_cached_network(wk.found, wk.net) # {}
        /\ Authenticate /\ UNCHANGED session
  /\ UNCHANGED <<radio, rxq, ap, plan, sent, got, nonces, faults>>

-----------------------------------------------------------------------------
(* Connecting: authentication, association, the four-way handshake.        *)

Poll(pc) == wk.pc = pc /\ rxq # <<>> /\ rxq' = Tail(rxq)
Goes == UNCHANGED <<radio, g_scan_cache, plan, sent, got, faults>>
Skip == UNCHANGED <<onair, ap, wk, g_wifi_requests, session, nonces>>

\* An authentication response, of whichever network, lets the association
\* request out; the access point answers it, and may refuse.
AuthPoll ==
  /\ Poll("auth") /\ Goes
  /\ \/ Head(rxq).kind # "auth" /\ Skip
     \/ /\ Head(rxq).kind = "auth"
        /\ wk' = [wk EXCEPT !.pc = "assoc"]
        /\ IF Hears(wk.net)
           THEN \/ /\ ap' = Associated(wk.net, nonces + 1) /\ nonces' = nonces + 1
                   /\ Answer(Welcome(wk.net, nonces + 1))
                \/ /\ Answer(<<Frame("refused", wk.net, 0, NoKey)>>)
                   /\ UNCHANGED <<ap, nonces>>
           ELSE UNCHANGED <<onair, ap, nonces>>
        /\ UNCHANGED <<g_wifi_requests, session>>

Connected ==
  /\ g_wifi_state' = "CONNECTED" /\ g_wifi_connected_ssid' = wk.net
  /\ Answered("CONNECTED")

\* An open network is connected now, its BSSID stored for the data path; one
\* with a key goes on to the handshake.
AssocPoll ==
  /\ Poll("assoc") /\ Goes /\ UNCHANGED <<onair, ap, nonces>>
  /\ \/ /\ Head(rxq).kind \notin {"assoc", "refused"}
        /\ UNCHANGED <<wk, g_wifi_requests, session>>
     \/ Head(rxq).kind = "refused" /\ Ends("FAILED_ASSOC")
     \/ /\ Head(rxq).kind = "assoc" /\ ~HasRsn[wk.net]
        /\ ccmp' = [ccmp EXCEPT !.bssid = wk.net] /\ Connected
     \/ /\ Head(rxq).kind = "assoc" /\ HasRsn[wk.net]
        /\ wk' = [wk EXCEPT !.pc = "m1"] /\ UNCHANGED <<g_wifi_requests, session>>

IsEapol(f) == f.kind \in {"m1", "m3"} /\ f.ap = wk.net

\* The key both sides derive: from the passphrase, the network and both nonces.
wpa2_derive_ptk(passphrase, ssid, anonce, snonce) == <<passphrase, ssid, anonce, snonce>>

\* Message 1 gives the ANonce; the key is derived and message 2 sent.  A message 3
\* here ends the handshake.
M1Poll ==
  /\ Poll("m1") /\ Goes
  /\ \/ ~IsEapol(Head(rxq)) /\ Skip
     \/ /\ IsEapol(Head(rxq)) /\ Head(rxq).kind = "m3" /\ Ends("FAILED_TIMEOUT")
        /\ UNCHANGED <<onair, ap, nonces>>
     \/ /\ IsEapol(Head(rxq)) /\ Head(rxq).kind = "m1"
        /\ LET tk == wpa2_derive_ptk(wk.pass, wk.net, Head(rxq).n, nonces + 1)
           IN /\ wk' = [wk EXCEPT !.pc = "m3", !.tk = tk]
              /\ HearM2(wk.net, nonces + 1, tk)
        /\ nonces' = nonces + 1 /\ UNCHANGED <<g_wifi_requests, session>>

rtw89_install_ccmp_key ==
  ccmp' = [installed |-> TRUE, bssid |-> wk.net, tk |-> wk.tk, tx |-> 0, rx |-> 0]

\* (Mutant.) Neither the kind nor the MIC of message 3 is looked at.
M3PollTrusting ==
  /\ Poll("m3") /\ Goes /\ UNCHANGED nonces
  /\ \/ ~IsEapol(Head(rxq)) /\ UNCHANGED <<onair, ap, wk, g_wifi_requests, session>>
     \/ /\ IsEapol(Head(rxq)) /\ HearM4(wk.net, wk.tk) /\ UNCHANGED onair
        /\ rtw89_install_ccmp_key /\ Connected

\* Message 3 must carry a MIC made with our own key; message 4 goes out and the
\* key is installed.  A message 1 here, sent again or not, ends the handshake.
M3Poll ==
  /\ Poll("m3") /\ Goes /\ UNCHANGED nonces
  /\ \/ ~IsEapol(Head(rxq)) /\ UNCHANGED <<onair, ap, wk, g_wifi_requests, session>>
     \/ /\ IsEapol(Head(rxq)) /\ Head(rxq).kind = "m1" /\ Ends("FAILED_TIMEOUT")
        /\ UNCHANGED <<onair, ap>>
     \/ /\ IsEapol(Head(rxq)) /\ Head(rxq).kind = "m3" /\ UNCHANGED onair
        /\ \/ /\ Head(rxq).key # wk.tk /\ Ends("FAILED_WRONG_PASSWORD") /\ UNCHANGED ap
           \/ /\ Head(rxq).key = wk.tk /\ HearM4(wk.net, wk.tk)
              /\ rtw89_install_ccmp_key /\ Connected

\* A wait runs out.
GiveUp ==
  /\ \/ wk.pc = "auth" /\ Ends("FAILED_AUTH")
     \/ wk.pc = "assoc" /\ Ends("FAILED_ASSOC")
     \/ wk.pc \in {"m1", "m3"} /\ Ends("FAILED_TIMEOUT")
  /\ Goes /\ UNCHANGED <<rxq, onair, ap, nonces>>

-----------------------------------------------------------------------------
(* Data frames, netdev_send() and netdev_receive(): WiFi's only while the  *)
(* session is connected.                                                   *)

ViaWifi == g_wifi_state = "CONNECTED"
pn_increment == [ccmp EXCEPT !.tx = @ + 1]
pn_greater(pn) == pn > ccmp.rx

rtw89_send_data_frame ==
  /\ ViaWifi /\ Len(sent) < MaxSent
  /\ ccmp' = IF ccmp.installed THEN pn_increment ELSE ccmp
  /\ sent' = Append(sent, [to |-> ccmp.bssid, protected |-> ccmp.installed,
                           key |-> ccmp.tk, pn |-> ccmp'.tx])
  /\ UNCHANGED <<radio, rxq, onair, ap, g_scan_cache, wk, g_wifi_requests, plan,
                 g_wifi_state, g_wifi_connected_ssid, got, nonces, faults>>

\* (Mutant.) The comparison of packet numbers is not strict.
rtw89_recv_data_frame_again ==
  LET f == Head(rxq)
  IN /\ ViaWifi /\ rxq # <<>> /\ rxq' = Tail(rxq)
     /\ IF f.kind = "data" /\ ccmp.installed /\ f.key = ccmp.tk /\ f.n >= ccmp.rx
        THEN got' = Append(got, f) /\ ccmp' = [ccmp EXCEPT !.rx = f.n]
        ELSE UNCHANGED <<got, ccmp>>
     /\ UNCHANGED <<radio, onair, ap, g_scan_cache, wk, g_wifi_requests, plan,
                    g_wifi_state, g_wifi_connected_ssid, sent, nonces, faults>>

\* A protected frame needs a new packet number and the MIC of the key.
Opens(f) == ccmp.installed /\ pn_greater(f.n) /\ f.key = ccmp.tk
\* wifi_manager_receive_eth(): what carries an LLC header is handed up, a plain
\* frame as it is; without a key ciphertext does not pass for one.
HandedUp(f) == f.kind = "data" /\ (f.key = NoKey \/ Opens(f))

\* Every other frame is consumed.
rtw89_recv_data_frame ==
  LET f == Head(rxq)
  IN /\ ViaWifi /\ rxq # <<>> /\ rxq' = Tail(rxq)
     /\ got' = IF HandedUp(f) THEN Append(got, f) ELSE got
     /\ ccmp' = IF HandedUp(f) /\ f.key # NoKey THEN [ccmp EXCEPT !.rx = f.n] ELSE ccmp
     /\ UNCHANGED <<radio, onair, ap, g_scan_cache, wk, g_wifi_requests, plan,
                    g_wifi_state, g_wifi_connected_ssid, sent, nonces, faults>>

WifiNext ==
  \/ rtw89_init \/ Issue \/ Cached \/ rtw89_set_channel \/ ScanPoll \/ DwellEnds \/ ScanEnds
  \/ AuthPoll \/ AssocPoll \/ M1Poll \/ M3Poll \/ GiveUp
  \/ rtw89_send_data_frame \/ rtw89_recv_data_frame
  \/ Deliver \/ Lose \/ Repeat
  \/ \E s \in DOMAIN g_wifi_requests : Take(s) \/ Collect(s)
  \/ \E a \in Aps : ApResends(a) \/ ApData(a)

WifiSpec == WifiInit /\ [][WifiNext]_wifivars

-----------------------------------------------------------------------------
\* While a session with a keyed network is up, the key the data path uses is the
\* one the access point made for this association, and the BSSID is its own,
\* whatever messages of this or of earlier handshakes were lost, late or repeated.
KeysAgree ==
  (g_wifi_state = "CONNECTED" /\ HasRsn[g_wifi_connected_ssid]) =>
     /\ ccmp.bssid = g_wifi_connected_ssid
     /\ ccmp.installed /\ ccmp.tk = ap[ccmp.bssid].ptk

\* Under one key no packet number protects two frames sent, and no frame of the
\* access point is handed up twice or after a later one, though the air repeats
\* frames and message 3 may come again.
FramesOnce ==
  /\ \A i, j \in DOMAIN sent :
       (i < j /\ sent[i].protected /\ sent[j].protected /\ sent[i].key = sent[j].key)
         => sent[i].pn < sent[j].pn
  /\ \A i, j \in DOMAIN got :
       (i < j /\ got[i].key = got[j].key /\ got[i].key # NoKey) => got[i].n < got[j].n

\* A frame for a network without encryption goes out unencrypted, as rtw89.h says of
\* an open network.
OpenIsPlain == \A i \in DOMAIN sent : HasRsn[sent[i].to] \/ ~sent[i].protected
=============================================================================
