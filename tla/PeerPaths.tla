------------------------------ MODULE PeerPaths ------------------------------
(***************************************************************************)
(* Which way a WireGuard packet leaves: the peer table of peer_manager.c,  *)
(* the address each WireGuard peer has in the device, and the hooks of     *)
(* ts_main.c between them.  The address of a WireGuard peer is a real one, *)
(* or the virtual 127.3.INDEX.40, which the output hook turns into the     *)
(* direct path or the relay by looking at entry INDEX of the table.        *)
(*                                                                         *)
(* Five tasks meet here: the lwIP thread (Output, UdpReceive), the relay's *)
(* receive task (RelayReceive, CallMeMaybe, RelayPong), the DISCO task     *)
(* (Ping, DirectReceive, Pong), the map task (the steps of a parse) and    *)
(* the main task (Reconnect).  A session is modelled from the moment       *)
(* WireGuard is up, with the relay connected and every peer on a relay.    *)
(*                                                                         *)
(* A packet that the hook sends directly goes through the DISCO task's     *)
(* queue; its loss there is a loss in the network.  The latency of an      *)
(* endpoint is left out: nothing but a log line reads the choice made from *)
(* it (best_ep_idx).                                                       *)
(***************************************************************************)
EXTENDS Integers, Sequences, FiniteSets

CONSTANTS
    Nodes,          \* node keys of other devices
    Addrs,          \* pairs of an IP and a port
    HostOf,         \* HostOf[a]: the IP of address a
    HomesOf,        \* HomesOf[n]: the addresses node n may have
    MapLists,       \* the peer lists the control server may send
    MaxPeers,       \* PM_MAX_PEERS, 4
    MaxEndpoints,   \* TS_MAX_EP_PER_PEER, 8
    RelayTrust,     \* 10 s: derp_on_recv drops a direct path silent for longer
    DirectTrust,    \* 15 s: the output hook drops a direct path silent for longer
    MaxMaps,        \* bound: map responses, the first of a session included
    NoNode, NoAddr,
    VirtualAddr     \* 127.3.INDEX.40 as an endpoint: a ping to it reaches nobody

ASSUME PathsAssumption ==
    /\ IsFiniteSet(Nodes) /\ NoNode \notin Nodes
    /\ NoAddr \notin Addrs /\ VirtualAddr \notin Addrs /\ NoAddr # VirtualAddr
    /\ HomesOf \in [Nodes -> SUBSET Addrs]
    /\ DOMAIN HostOf = Addrs
    /\ \A m, n \in Nodes : m # n =>
         \A x \in HomesOf[m], y \in HomesOf[n] : HostOf[x] # HostOf[y]
    /\ MapLists \subseteq Seq(Nodes) \ {<<>>}
    /\ MaxPeers \in Nat \ {0} /\ MaxEndpoints \in Nat
    /\ DirectTrust \in Nat /\ RelayTrust \in 0 .. DirectTrust /\ MaxMaps \in Nat \ {0}

VARIABLES
    table,      \* pm->peers
    count,      \* pm->peer_count
    parse,      \* the pm_parse_map_response of the map task: where it is
    wg,         \* wg[n]: the address of node n's peer in the WireGuard device
    ready,      \* the relay client is ready
    ping,       \* the one pending DISCO ping: its node and address
    gone,       \* nodes that can no longer be reached, nor reach us, directly
    last,       \* history: last packet of n on the DISCO socket, address and age
    synced,     \* history: peers whose address was set from the present table
    maps        \* map responses so far

vars == <<table, count, parse, wg, ready, ping, gone, last, synced, maps>>

Slots == 0 .. MaxPeers - 1
Ages == 0 .. DirectTrust + 1        \* the last value: older than any window

\* endpoints: at most MaxEndpoints addresses.
EndpointLists == UNION {[1 .. k -> Addrs] : k \in 0 .. MaxEndpoints}

\* ts_peer_t.  "endpoint" NoAddr: the string is empty.
\* "direct" NoAddr: direct_valid is false.  "inWg": wg_peer_idx is not 0xFF.
Entries ==
    [node : Nodes \cup {NoNode}, valid : BOOLEAN, inWg : BOOLEAN,
     endpoint : Addrs \cup {NoAddr, VirtualAddr}, direct : Addrs \cup {NoAddr}, age : Ages,
     eps : EndpointLists]

\* The memset at the start of an entry.
Cleared ==
    [node |-> NoNode, valid |-> FALSE, inWg |-> FALSE, endpoint |-> NoAddr,
     direct |-> NoAddr, age |-> 0, eps |-> <<>>]

\* Mutant: only the fields that the parser is about to fill are reset.
ClearedFrom_Partly(e) == [e EXCEPT !.valid = FALSE, !.inWg = FALSE]
ClearedFrom(e) == Cleared

Listed(n, e) == [Cleared EXCEPT !.node = n, !.valid = TRUE, !.endpoint = e]

\* The address of a WireGuard peer: peer->ip and peer->port.
Locations ==
    [via : {"none", "virtual", "real"}, slot : Slots, addr : Addrs \cup {NoAddr}]
Absent == [via |-> "none", slot |-> 0, addr |-> NoAddr]
Virtual(i) == [via |-> "virtual", slot |-> i, addr |-> NoAddr]
Real(a) == [via |-> "real", slot |-> 0, addr |-> a]

NoPing == [node |-> NoNode, addr |-> NoAddr]
Idle == [at |-> "idle", todo |-> <<>>, next |-> 0]

Smallest(S) == CHOOSE i \in S : \A j \in S : i <= j
InTable == {i \in Slots : i < count /\ table[i].valid}

\* find_peer_by_disco_key, and the search by node key in derp_on_recv: {} or
\* the first index.
IndexOf(n) ==
    LET S == {i \in InTable : table[i].node = n}
    IN  IF S = {} THEN {} ELSE {Smallest(S)}

Least(a, b) == IF a < b THEN a ELSE b
-----------------------------------------------------------------------------
(* A session begins: the first map response, and every peer on its relay *)

Count(list) == Least(Len(list), MaxPeers)

SetupTable(list) ==
    [i \in Slots |->
        IF i < Count(list) THEN [Listed(list[i + 1], VirtualAddr) EXCEPT !.inWg = TRUE]
        ELSE Cleared]

SetupWg(list) ==
    [n \in Nodes |->
        LET S == {i \in Slots : i < Count(list) /\ list[i + 1] = n}
        IN  IF S = {} THEN Absent ELSE Virtual(Smallest(S))]

Init ==
    /\ \E list \in MapLists :
        /\ table = SetupTable(list) /\ count = Count(list)
        /\ wg = SetupWg(list)
    /\ parse = Idle /\ ready = TRUE /\ ping = NoPing
    /\ gone = {}
    /\ last = [n \in Nodes |-> [addr |-> NoAddr, age |-> 0]]
    /\ synced = {n \in Nodes : wg[n].via = "virtual"}
    /\ maps = 1

\* The map stream ends; the main task tears everything down and sets it up
\* again with a fresh map response.
Reconnect ==
    /\ parse.at = "idle" /\ maps < MaxMaps
    /\ maps' = maps + 1
    /\ \E list \in MapLists :
        /\ table' = SetupTable(list) /\ count' = Count(list)
        /\ wg' = SetupWg(list)
        /\ synced' = {n \in Nodes : SetupWg(list)[n].via = "virtual"}
    /\ ready' = TRUE /\ ping' = NoPing
    /\ UNCHANGED <<parse, gone, last>>
-----------------------------------------------------------------------------
(* The map task: pm_parse_map_response rewrites the table from entry 0 on. *)
(* The other tasks read the table between any two steps.                   *)

Unmapped == UNCHANGED <<wg, ready, ping, gone, last>>

MapUpdate ==
    /\ parse.at = "idle" /\ maps < MaxMaps
    /\ maps' = maps + 1
    /\ \E list \in MapLists : parse' = [at |-> "clear", todo |-> list, next |-> 0]
    /\ synced' = {}
    /\ Unmapped /\ UNCHANGED <<table, count>>

ClearEntry ==
    /\ parse.at = "clear" /\ parse.todo # <<>> /\ parse.next < MaxPeers
    /\ table' = [table EXCEPT ![parse.next] = ClearedFrom(@)]
    /\ parse' = [parse EXCEPT !.at = "fill"]
    /\ Unmapped /\ UNCHANGED <<count, synced, maps>>

\* The endpoint is the first of the list the server knows, if any.
FillEntry ==
    /\ parse.at = "fill"
    /\ LET n == Head(parse.todo) IN
        \E e \in HomesOf[n] \cup {NoAddr} :
            table' = [table EXCEPT ![parse.next].node = n, ![parse.next].endpoint = e,
                                   ![parse.next].valid = TRUE]
    /\ parse' = [at |-> "clear", todo |-> Tail(parse.todo), next |-> parse.next + 1]
    /\ Unmapped /\ UNCHANGED <<count, synced, maps>>

\* WireGuard is already up, so the map task does not set it up again: its peers
\* and their virtual addresses stay as they are.
EndParse ==
    /\ parse.at = "clear" /\ (parse.todo = <<>> \/ parse.next = MaxPeers)
    /\ count' = parse.next
    /\ parse' = Idle
    /\ Unmapped /\ UNCHANGED <<table, synced, maps>>
-----------------------------------------------------------------------------
(* The output hook *)

\* The entry a virtual address means: the one of its index, or else the first.
Target(i) ==
    IF i \in InTable THEN {i}
    ELSE IF InTable = {} THEN {} ELSE {Smallest(InTable)}

\* Mutant: the age of a direct path is not looked at.
Usable_Forever(e) == e.direct # NoAddr
Usable(e) == e.direct # NoAddr /\ e.age <= DirectTrust

\* Where a packet for node n goes: to a real address, from WireGuard's own port;
\* to an address, over the DISCO socket; to the node of a key, over the relay.
Dropped == [how |-> "dropped", node |-> NoNode, addr |-> NoAddr]

wg_derp_output_hook(i) ==
    LET e == table[i] IN
    IF Usable(e) THEN [how |-> "direct", node |-> e.node, addr |-> e.direct]
    ELSE IF ready THEN [how |-> "relay", node |-> e.node, addr |-> NoAddr]
    ELSE Dropped

Route(n) ==
    CASE wg[n].via = "real"    -> [how |-> "real", node |-> n, addr |-> wg[n].addr]
      [] wg[n].via = "virtual" -> IF Target(wg[n].slot) = {} THEN Dropped
                                  ELSE wg_derp_output_hook(CHOOSE i \in Target(wg[n].slot) : TRUE)
      [] OTHER                 -> Dropped

\* A packet leaves for node n: an expired direct path is given up on the way.
Output(n) ==
    /\ wg[n].via = "virtual"
    /\ \E i \in Target(wg[n].slot) :
        /\ table[i].direct # NoAddr /\ ~Usable(table[i])
        /\ table' = [table EXCEPT ![i].direct = NoAddr, ![i].age = 0]
    /\ UNCHANGED <<count, parse, wg, ready, ping, gone, last, synced, maps>>
-----------------------------------------------------------------------------
(* Packets that arrive.  WireGuard recognises the sender by its keys and     *)
(* takes the address it is given for the sender's (update_peer_addr).        *)

\* Mutant: the relay does not take over from a real address.
update_peer_addr_Sticky(n, loc) ==
    IF wg[n].via = "none" \/ wg[n].via = "real" THEN wg ELSE [wg EXCEPT ![n] = loc]
update_peer_addr(n, loc) == IF wg[n].via = "none" THEN wg ELSE [wg EXCEPT ![n] = loc]

\* The address of n now stands for the present table.
SyncedWith(n) ==
    IF parse.at = "idle" /\ IndexOf(n) # {} /\ wg[n].via # "none" THEN synced \cup {n}
    ELSE synced

\* Mutant: every packet is injected as one of entry 0.
IndexOrZero_Zero(n) == 0
\* derp_on_recv: an unknown sender is taken for entry 0.
IndexOrZero(n) == IF IndexOf(n) = {} THEN 0 ELSE CHOOSE i \in IndexOf(n) : TRUE

\* A direct path that has been silent for RelayTrust is given up.
AfterRelayRx(e) ==
    IF e.direct # NoAddr /\ e.age > RelayTrust THEN [e EXCEPT !.direct = NoAddr, !.age = 0]
    ELSE e

RelayReceive(n) ==
    /\ ready
    /\ LET i == IndexOrZero(n) IN
        /\ table' = [table EXCEPT ![i] = AfterRelayRx(@)]
        /\ wg' = update_peer_addr(n, Virtual(i))
    /\ synced' = SyncedWith(n)
    /\ UNCHANGED <<count, parse, ready, ping, gone, last, maps>>

\* disco_wg_direct_rx tells the peer by the IP of the packet.
OwnersOf(a) ==
    LET S == {i \in InTable : \E j \in DOMAIN table[i].eps : HostOf[table[i].eps[j]] = HostOf[a]}
    IN  IF S = {} THEN {} ELSE {Smallest(S)}

\* Mutant: the age starts only when the address is learned.
AfterDirectRx_NoRefresh(e, a) ==
    IF e.direct = NoAddr THEN [e EXCEPT !.age = 0, !.direct = a] ELSE e

\* The age starts again with every packet; the address is kept while it is valid.
AfterDirectRx(e, a) ==
    [e EXCEPT !.age = 0, !.direct = IF @ = NoAddr THEN a ELSE @]

DirectReceive(n, a) ==
    /\ n \notin gone
    /\ LET S == OwnersOf(a) IN
        /\ table' = [i \in Slots |-> IF i \in S THEN AfterDirectRx(table[i], a) ELSE table[i]]
           /\ wg' = update_peer_addr(n, IF S = {} THEN Real(a) ELSE Virtual(CHOOSE i \in S : TRUE))
           /\ last' = [last EXCEPT ![n] = [addr |-> a, age |-> 0]]
    /\ synced' = SyncedWith(n)
    /\ UNCHANGED <<count, parse, ready, ping, gone, maps>>

\* A packet on WireGuard's own port: no hook, the source is a real address.
UdpReceive(n, a) ==
    /\ n \notin gone
    /\ wg' = update_peer_addr(n, Real(a))
    /\ UNCHANGED <<table, count, parse, ready, ping, gone, last, synced, maps>>
-----------------------------------------------------------------------------
(* DISCO *)

\* A round of pings.  There is one pending ping: the last one sent.
Ping ==
    LET S == {i \in InTable : table[i].endpoint # NoAddr}
        newest == CHOOSE i \in S : \A j \in S : j <= i
    IN  /\ S # {}
        /\ ping' = [node |-> table[newest].node, addr |-> table[newest].endpoint]
        /\ UNCHANGED <<table, count, parse, wg, ready, gone, last, synced, maps>>

\* Mutant: recorded whether or not there is room.
WithEndpoint_NoRoom(e, a) ==
    IF \E j \in DOMAIN e.eps : e.eps[j] = a THEN e ELSE [e EXCEPT !.eps = Append(@, a)]

\* pm_update_endpoint_latency: known, or recorded if there is room.
WithEndpoint(e, a) ==
    IF (\E j \in DOMAIN e.eps : e.eps[j] = a) \/ Len(e.eps) >= MaxEndpoints THEN e
    ELSE [e EXCEPT !.eps = Append(@, a)]

\* The answer to the pending ping comes directly: pm_update_peer_endpoint makes
\* its source the address of the WireGuard peer, if the entry is linked to one.
Pong(n, a) ==
    /\ ping.node = n /\ ping.addr = a /\ n \notin gone
    /\ ping' = NoPing
    /\ \E i \in IndexOf(n) :
        LET e == table[i] IN
        IF e.inWg
        THEN /\ table' = [table EXCEPT ![i] = WithEndpoint([e EXCEPT !.endpoint = a], a)]
             /\ wg' = [wg EXCEPT ![n] = Real(a)]
        ELSE /\ table' = [table EXCEPT ![i] = WithEndpoint(e, a)]
             /\ UNCHANGED wg
    /\ UNCHANGED <<count, parse, ready, gone, last, synced, maps>>

\* The answer comes over the relay: it only clears the pending ping.
RelayPong ==
    /\ ready /\ ping # NoPing /\ IndexOf(ping.node) # {}
    /\ ping' = NoPing
    /\ UNCHANGED <<table, count, parse, wg, ready, gone, last, synced, maps>>

\* A node announces an address: recorded if there is room, even a known one, and
\* pinged.  A message with several addresses is several of these in a row.
CallMeMaybe(n, a) ==
    /\ ready
    /\ \E i \in IndexOf(n) :
        table' = IF Len(table[i].eps) < MaxEndpoints
                 THEN [table EXCEPT ![i].eps = Append(@, a)] ELSE table
    /\ ping' = [node |-> n, addr |-> a]
    /\ UNCHANGED <<count, parse, wg, ready, gone, last, synced, maps>>
-----------------------------------------------------------------------------
(* The world: nodes leave, the relay is lost and comes back, time passes *)

\* A node moves between its addresses unseen: it may send from any of them.
Leave(n) ==
    /\ gone' = gone \cup {n}
    /\ UNCHANGED <<table, count, parse, wg, ready, ping, last, synced, maps>>

RelayFlips ==
    /\ ready' = ~ready
    /\ UNCHANGED <<table, count, parse, wg, ping, gone, last, synced, maps>>

Older(t) == Least(t + 1, DirectTrust + 1)

Aging(i) == table[i].direct # NoAddr /\ table[i].age <= DirectTrust
Fading(n) == last[n].addr # NoAddr /\ last[n].age <= DirectTrust

Tick ==
    /\ (\E i \in Slots : Aging(i)) \/ (\E n \in Nodes : Fading(n))
    /\ table' = [i \in Slots |->
                    IF Aging(i) THEN [table[i] EXCEPT !.age = Older(@)] ELSE table[i]]
    /\ last' = [n \in Nodes |->
                    IF Fading(n) THEN [last[n] EXCEPT !.age = Older(@)] ELSE last[n]]
    /\ UNCHANGED <<count, parse, wg, ready, ping, gone, synced, maps>>

Next ==
    \/ Reconnect
    \/ MapUpdate \/ ClearEntry \/ FillEntry \/ EndParse
    \/ Ping \/ RelayPong \/ RelayFlips \/ Tick
    \/ \E n \in Nodes :
        \/ Output(n) \/ RelayReceive(n) \/ Leave(n)
        \/ \E a \in HomesOf[n] :
            DirectReceive(n, a) \/ UdpReceive(n, a) \/ Pong(n, a) \/ CallMeMaybe(n, a)

Spec == Init /\ [][Next]_vars

\* The clock runs and the map task finishes the response it has begun.
FairSpec ==
    /\ Spec
    /\ WF_vars(Tick)
    /\ WF_vars(ClearEntry \/ FillEntry \/ EndParse)
-----------------------------------------------------------------------------
(* Properties *)

\* Each variable keeps its kind.
TypeOK ==
    /\ table \in [Slots -> Entries] /\ count \in 0 .. MaxPeers
    /\ parse \in [at : {"idle", "clear", "fill"}, todo : Seq(Nodes), next : 0 .. MaxPeers]
    /\ wg \in [Nodes -> Locations] /\ ready \in BOOLEAN
    /\ ping \in [node : Nodes \cup {NoNode}, addr : Addrs \cup {NoAddr, VirtualAddr}]
    /\ gone \subseteq Nodes
    /\ last \in [Nodes -> [addr : Addrs \cup {NoAddr}, age : Ages]]
    /\ synced \subseteq Nodes /\ maps \in 1 .. MaxMaps

\* Whose packet it becomes: the node the relay is told, or the one at an address.
Reaches(r, n) ==
    CASE r.how = "relay"            -> r.node = n
      [] r.how \in {"direct", "real"} -> r.addr \in HomesOf[n]
      [] OTHER                      -> TRUE

\* A packet for a peer goes to that peer and no other: once a packet of the peer
\* has arrived since the last map response, its virtual address, the table and
\* the direct address of the entry belong together (ts_main.c:317 "inject with the
\* correct virtual addr", ts_main.c:366 "matches output hook encoding").
SyncedReachesOwner == \A n \in synced : Reaches(Route(n), n)

\* "the idx encodes which pm peer it is" (ts_main.c:787), for every peer the
\* device sends to, when no response is being parsed.
IndexNamesPeer == parse.at = "idle" => \A n \in Nodes : Reaches(Route(n), n)

\* The direct path of an entry was learned from a packet of that entry's node,
\* and the node was heard directly within the window in which it is used.
DirectPathEarned ==
    \A i \in InTable : Usable(table[i]) =>
        LET n == table[i].node IN
        /\ table[i].direct \in HomesOf[n]
        /\ last[n].addr # NoAddr /\ last[n].age <= DirectTrust

\* "to avoid flapping" (ts_main.c:339): a direct path on which the node was heard
\* within RelayTrust is not given up, whatever else arrives or is sent meanwhile;
\* only a map response takes it away.
NoFlapping ==
    [][ \A i \in InTable :
          LET e == table[i] IN
          (/\ e.direct # NoAddr /\ e.direct = last[e.node].addr
           /\ last[e.node].age <= RelayTrust
           /\ parse'.at = "idle" /\ maps' = maps)
          => table'[i].direct = e.direct ]_vars

\* A direct path to a node that is gone for good is left, whether or not the
\* device sends: the window ends it.
DeadPathLeft ==
    \A n \in Nodes :
        <>(n \in gone) => <>[](Route(n).how # "direct" \/ Route(n).node # n)

\* A node that cannot be reached directly any more, but keeps sending over the
\* relay, is answered over the relay.
RelayAnswersRelay ==
    \A n \in Nodes :
        /\ <>[](n \in gone /\ ready /\ IndexOf(n) # {})
        /\ SF_vars(RelayReceive(n))
        => <>[](wg[n].via # "none" => Route(n).how = "relay" /\ Route(n).node = n)
=============================================================================
