------------------------------ MODULE WgTunnel ------------------------------
(***************************************************************************)
(* Two WireGuard end points and the network between them.  The network may *)
(* lose, delay, reorder and duplicate: a packet once sent stays in "net"   *)
(* and may be received at any time, any number of times, or never.         *)
(*                                                                         *)
(* Each action is one entry into component/wireguard from the lwIP thread: *)
(* a received packet (wireguardif_network_rx), an IP packet to send        *)
(* (wireguardif_output), the timer (wireguardif_tmr), or a call of the     *)
(* application.  wireguardif_tmr runs every 400 ms, far more often than    *)
(* the unit of "now": time does not advance past a timer that has not run. *)
(***************************************************************************)
EXTENDS WgPeer, FiniteSets

CONSTANTS
    Nodes,         \* the two end points
    MaxDraws,      \* bound: random draws (initiations and responses) in all
    MaxPayloads,   \* bound: IP packets the applications send
    MaxTime,       \* bound: the clock
    MaxRestarts    \* bound: no more teardowns once a node has had so many

ASSUME TunnelAssumption ==
    /\ IsFiniteSet(Nodes) /\ Cardinality(Nodes) = 2
    /\ MaxDraws \in Nat /\ MaxPayloads \in Nat
    /\ MaxTime \in Nat /\ MaxRestarts \in Nat

VARIABLES
    now,            \* wireguard_sys_now
    draws,          \* random draws made so far; the last one is the newest
    peer,           \* peer[n]: the peer structure n keeps about the other node
    link,           \* link[n]: the link-up flag of n's netif
    net,            \* every packet ever sent
    sent,           \* payloads transmitted so far
    delivered,      \* delivered[n][x]: times payload x went to ip_input at n
    tmrDue,         \* nodes whose timer has not run since the clock moved
    restarts,       \* restarts[n]: teardowns of n's interface
    disconnected    \* nodes whose last connection request was a disconnect

vars == <<now, draws, peer, link, net, sent, delivered, tmrDue, restarts, disconnected>>

Payloads == 1 .. MaxPayloads

InitPacket(n, draw) == [type |-> "init", from |-> n, sender |-> draw]

RespPacket(n, draw, receiver) ==
    [type |-> "resp", from |-> n, sender |-> draw, receiver |-> receiver]

InitPackets == {m \in net : m.type = "init"}
RespPackets == {m \in net : m.type = "resp"}
DataPackets == {m \in net : m.type = "data"}

PacketType ==
    [type : {"init"}, from : Nodes, sender : Nat]
    \cup [type : {"resp"}, from : Nodes, sender : Nat, receiver : Nat]
    \cup [type : {"data"}, from : Nodes, key : Nat \X Nat, receiver : Nat,
          counter : Nat, payload : 0 .. MaxPayloads]

TypeOK ==
    /\ now \in Nat /\ draws \in Nat
    /\ peer \in [Nodes -> Peers]
    /\ link \in [Nodes -> BOOLEAN]
    /\ net \subseteq PacketType
    /\ sent \in 0 .. MaxPayloads
    /\ delivered \in [Nodes -> [Payloads -> Nat]]
    /\ tmrDue \subseteq Nodes
    /\ restarts \in [Nodes -> Nat]
    /\ disconnected \subseteq Nodes

\* sys_now is never 0 once the network is up, so 0 can mean "never".
Init ==
    /\ now = 1 /\ draws = 0
    /\ \E active \in [Nodes -> BOOLEAN] : peer = [n \in Nodes |-> NewPeer(active[n])]
    /\ link = [n \in Nodes |-> FALSE]
    /\ net = {} /\ sent = 0
    /\ delivered = [n \in Nodes |-> [x \in Payloads |-> 0]]
    /\ tmrDue = {}
    /\ restarts = [n \in Nodes |-> 0]
    /\ disconnected = {}

-----------------------------------------------------------------------------
(* Packets sent *)

\* wireguardif_output: the application sends an IP packet.  "ok" is the result
\* of udp_sendto or of the DERP hook; every transmitted payload gets a number.
Output(n) ==
    /\ sent < MaxPayloads
    /\ \E ok \in BOOLEAN :
        /\ peer' = [peer EXCEPT ![n] = wireguardif_output_to_peer(@, now, ok)]
        /\ IF Encrypts(peer[n], now) /\ ok
           THEN /\ net' = net \cup {DataPacket(n, peer[n], sent + 1)}
                /\ sent' = sent + 1
           ELSE UNCHANGED <<net, sent>>
    /\ UNCHANGED <<now, draws, link, delivered, tmrDue, restarts, disconnected>>

\* Mutant: the link follows "curr" alone.
LinkAfterTimer_CurrOnly(up, p) == up /\ p.kp["curr"].valid

\* The end of wireguardif_tmr: the link goes down with the last session.
LinkAfterTimer(up, p) == up /\ peer_is_up(p)

\* The timer purges, then keeps alive, then initiates.
Timer(n) ==
    \E ok \in BOOLEAN :
        LET purged == TmrPurge(peer[n], now)
            kept   == TmrKeepalive(purged, now, ok)
            alive  == should_send_keepalive(purged, now) /\ Encrypts(purged, now) /\ ok
            hello  == should_send_initiation(kept, now)
        IN  /\ hello => draws < MaxDraws
            /\ draws' = IF hello THEN draws + 1 ELSE draws
            /\ peer' = [peer EXCEPT ![n] =
                    IF hello THEN wireguard_start_handshake(kept, draws + 1, now) ELSE kept]
            /\ net' = net
                    \cup (IF alive THEN {DataPacket(n, purged, 0)} ELSE {})
                    \cup (IF hello THEN {InitPacket(n, draws + 1)} ELSE {})
            /\ link' = [link EXCEPT ![n] = LinkAfterTimer(@, kept)]
            /\ tmrDue' = tmrDue \ {n}
            /\ UNCHANGED <<now, sent, delivered, restarts, disconnected>>

-----------------------------------------------------------------------------
(* Packets received *)

\* MESSAGE_HANDSHAKE_INITIATION, accepted and answered.
ReceiveInitiation(n) ==
    \E m \in InitPackets, addr \in Addrs :
        /\ m.from # n
        /\ AcceptsInitiation(peer[n], m.sender)
        /\ draws < MaxDraws
        /\ draws' = draws + 1
        /\ peer' = [peer EXCEPT ![n] = ProcessInitiation(@, m.sender, draws + 1, addr, now)]
        /\ net' = net \cup {RespPacket(n, draws + 1, m.sender)}
        /\ disconnected' = disconnected \ {n}
        /\ UNCHANGED <<now, link, sent, delivered, tmrDue, restarts>>

\* MESSAGE_HANDSHAKE_RESPONSE to the pending initiation: a new session, and the
\* keepalive that confirms it to the responder.
ReceiveResponse(n) ==
    \E m \in RespPackets, addr \in Addrs, ok \in BOOLEAN :
        LET started == ProcessResponse(peer[n], m.sender, addr, now)
        IN  /\ m.from # n
            /\ AcceptsResponse(peer[n], m.receiver)
            /\ peer' = [peer EXCEPT ![n] = wireguardif_output_to_peer(started, now, ok)]
            /\ net' = IF Encrypts(started, now) /\ ok
                      THEN net \cup {DataPacket(n, started, 0)} ELSE net
            /\ link' = [link EXCEPT ![n] = TRUE]
            /\ UNCHANGED <<now, draws, sent, delivered, tmrDue, restarts, disconnected>>

\* MESSAGE_TRANSPORT_DATA for a session that is still good.
ReceiveData(n) ==
    \E m \in DataPackets, addr \in Addrs :
        LET p    == peer[n]
            slot == get_peer_keypair_for_idx(p.kp, m.receiver)
        IN  /\ m.from # n
            /\ SlotsWithIndex(p.kp, m.receiver) # {}
            /\ Usable(p.kp[slot], now)
            /\ m.key = KeyOf(p.kp[slot])
            /\ peer' = [peer EXCEPT ![n] =
                    ProcessData(p, slot, m.counter, m.payload, addr, now)]
            /\ delivered' = IF DeliversData(p, slot, m.counter, m.payload)
                            THEN [delivered EXCEPT ![n][m.payload] = @ + 1]
                            ELSE delivered
            /\ link' = [link EXCEPT ![n] = TRUE]
            /\ UNCHANGED <<now, draws, net, sent, tmrDue, restarts, disconnected>>

\* MESSAGE_TRANSPORT_DATA for a session that is too old: the session goes.
ReceiveStale(n) ==
    \E m \in DataPackets :
        LET p    == peer[n]
            slot == get_peer_keypair_for_idx(p.kp, m.receiver)
        IN  /\ m.from # n
            /\ SlotsWithIndex(p.kp, m.receiver) # {}
            /\ ~Usable(p.kp[slot], now)
            /\ peer' = [peer EXCEPT ![n].kp[slot] = EmptyKeypair]
            /\ UNCHANGED <<now, draws, link, net, sent, delivered, tmrDue, restarts, disconnected>>

-----------------------------------------------------------------------------
(* Calls of the application, and time *)

\* wireguardif_connect
Connect(n) ==
    /\ peer' = [peer EXCEPT ![n].active = TRUE, ![n].addr = ConnectAddr]
    /\ disconnected' = disconnected \ {n}
    /\ UNCHANGED <<now, draws, link, net, sent, delivered, tmrDue, restarts>>

\* wireguardif_disconnect; neither the handshake nor send_handshake is cleared.
Disconnect(n) ==
    /\ peer' = [peer EXCEPT ![n].active = FALSE, ![n].kp = NoKeypairs]
    /\ disconnected' = disconnected \cup {n}
    /\ UNCHANGED <<now, draws, link, net, sent, delivered, tmrDue, restarts>>

\* pm_teardown_wireguard and pm_setup_wireguard, which the main task runs every
\* time the control connection is rebuilt, or a reboot: a new device.
Restart(n) ==
    /\ \A m \in Nodes : restarts[m] < MaxRestarts
    /\ restarts' = [restarts EXCEPT ![n] = @ + 1]
    /\ peer' = [peer EXCEPT ![n] = NewPeer(@.active)]
    /\ link' = [link EXCEPT ![n] = FALSE]
    /\ disconnected' = disconnected \ {n}
    /\ UNCHANGED <<now, draws, net, sent, delivered, tmrDue>>

Tick ==
    /\ tmrDue = {}
    /\ now < MaxTime
    /\ now' = now + 1
    /\ tmrDue' = Nodes
    /\ UNCHANGED <<draws, peer, link, net, sent, delivered, restarts, disconnected>>

Next ==
    \/ \E n \in Nodes :
        \/ Output(n) \/ Timer(n)
        \/ ReceiveInitiation(n) \/ ReceiveResponse(n)
        \/ ReceiveData(n) \/ ReceiveStale(n)
        \/ Connect(n) \/ Disconnect(n) \/ Restart(n)
    \/ Tick

Spec == Init /\ [][Next]_vars

-----------------------------------------------------------------------------
(* Safety *)

\* wireguard_encrypt_packet never uses a (key, counter) pair twice, although
\* keypairs are copied between slots, dropped, and made anew by both ends: the
\* counter of every live copy is ahead of every packet sent under its key, and
\* no two packets of a node differ under the same key and counter.
NonceNeverReused ==
    \A a \in DataPackets :
        /\ \A s \in Slots :
            LET k == peer[a.from].kp[s]
            IN  k.valid /\ KeyOf(k) = a.key => a.counter < k.counter
        /\ \A b \in DataPackets :
            a.from = b.from /\ a.key = b.key /\ a.counter = b.counter => a = b

\* The copying between slots in add_new_keypair and keypair_update never leaves
\* one session in two slots, where each copy would count and filter on its own.
OneSlotPerSession ==
    \A n \in Nodes : \A s, t \in Slots :
        /\ s # t
        /\ peer[n].kp[s].valid /\ peer[n].kp[t].valid
        => peer[n].kp[s].local # peer[n].kp[t].local

\* Key confirmation: a responder transmits under a session only after the
\* initiator has proved, with a packet under it, that it derived the key.
ResponderConfirmed ==
    \A m \in DataPackets :
        m.receiver = m.key[1]
            => \E c \in DataPackets : c.from # m.from /\ c.key = m.key

\* A current session whose initiator is the other end has been received on:
\* the fallback to "prev" at the top of wireguardif_output_to_peer never runs.
CurrentConfirmed ==
    \A n \in Nodes :
        LET k == peer[n].kp["curr"]
        IN  k.valid /\ ~k.initiator => k.lastRx # 0

\* An initiation is answered at most once for each life of the device, however
\* often it is delivered: greatest_timestamp starts again at zero only when the
\* device does.
InitiationAnsweredOnce ==
    \A n \in Nodes, i \in 1 .. draws :
        Cardinality({m \in RespPackets : m.from = n /\ m.receiver = i}) <= 1 + restarts[n]

\* The data of one session is delivered at most twice, and only one packet of a
\* session can be: the one that promoted "next" (its replay mark is lost).
OneReplayPerSession ==
    \A n \in Nodes : \A a, b \in DataPackets :
        /\ a.payload # 0 /\ b.payload # 0
        /\ a.from # n /\ b.from # n
        /\ delivered[n][a.payload] > 1 /\ delivered[n][b.payload] > 1
        => /\ delivered[n][a.payload] = 2
           /\ a.key = b.key => a = b

\* As long as a node counts itself connected to the peer, its interface is up:
\* the timer takes the link down only after the last session has gone.
LinkUpWithSession == \A n \in Nodes : peer_is_up(peer[n]) => link[n]

\* Rekeying does not cut the session in use: a current session that is still
\* good leaves "curr" only for "prev", except when a response to our own
\* initiation meets an unconfirmed "next", or on an explicit disconnect or
\* teardown.
SessionSurvivesRekey ==
    [][\A n \in Nodes :
        LET old == peer[n].kp["curr"]
            new == peer'[n].kp
        IN  /\ old.valid /\ Usable(old, now)
            /\ restarts'[n] = restarts[n]
            /\ n \notin disconnected'
            /\ ~(peer[n].kp["next"].valid /\ new["curr"].initiator)
            => \E s \in {"curr", "prev"} :
                new[s].valid /\ KeyOf(new[s]) = KeyOf(old)]_vars

-----------------------------------------------------------------------------
(* What comments of the code say, and the code does not do *)

\* wireguardif.c:321 "Check for packet replay / dupes": no packet is handed to
\* ip_input twice.
NeverDeliveredTwice ==
    \A n \in Nodes, x \in Payloads : delivered[n][x] <= 1
=============================================================================
