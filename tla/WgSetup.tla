------------------------------ MODULE WgSetup -------------------------------
(***************************************************************************)
(* Setting WireGuard up and tearing it down, session after session:        *)
(* pm_setup_wireguard and pm_teardown_wireguard of peer_manager.c,         *)
(* ameba_wireguard.c, wireguardif_init and wireguardif_fini, and the parts *)
(* of lwIP they use: the list of interfaces and the UDP port.              *)
(*                                                                         *)
(* There is one static context; its interface is an element of lwIP's      *)
(* list, so clearing the context cuts the list behind it.                  *)
(***************************************************************************)
EXTENDS Integers, Sequences, SequencesExt

CONSTANT MaxDevices     \* bound: devices allocated since the power came on

None == 0
Devices == 1 .. MaxDevices

VARIABLES
    pm,         \* wg_ctx # NULL and wg_up of peer_manager_t
    ctx,        \* s_wg_ctx: initialized, and the device in netif.state
    devices,    \* devices allocated and not freed, each with its timer
    port,       \* the device that holds the UDP port, or None
    netifs      \* lwIP's netif_list

setupVars == <<pm, ctx, devices, port, netifs>>

Init ==
    /\ pm = [ctx |-> FALSE, up |-> FALSE]
    /\ ctx = [initialized |-> FALSE, device |-> None]
    /\ devices = {} /\ port = None
    /\ netifs = <<"wifi">>

\* memset of the context: its interface forgets what follows it in the list.
Cleared(list) ==
    IF Contains(list, "wg") THEN SubSeq(list, 1, SelectInSeq(list, LAMBDA n : n = "wg"))
    ELSE list

\* wireguardif_init inside netif_add: the port is free, and a device is made.
CreateDevice(d) ==
    /\ port = None
    /\ devices' = devices \union {d} /\ port' = d
    /\ ctx' = [initialized |-> TRUE, device |-> d]
    /\ netifs' = <<"wg">> \o Cleared(netifs)

\* udp_bind fails, and netif_add with it: the context stays cleared.
PortTaken ==
    /\ port # None
    /\ ctx' = [initialized |-> FALSE, device |-> None]
    /\ netifs' = Cleared(netifs)
    /\ UNCHANGED <<pm, devices, port>>

\* pm_setup_wireguard with a peer in the table: wg_ctx is set once the context is
\* made, wg_up only if the first peer could be connected, which takes an endpoint.
SetUp(firstHasEndpoint) ==
    \/ PortTaken
    \/ /\ \E d \in Devices \ devices :
            /\ \A e \in Devices \ devices : d <= e
            /\ CreateDevice(d)
       /\ pm' = [ctx |-> TRUE, up |-> firstHasEndpoint]

\* pm_teardown_wireguard and ameba_wg_disconnect: a context that is not
\* initialized is not touched, and forgotten all the same.
TearDown_NoFini ==
    /\ IF pm.ctx /\ ctx.initialized
       THEN /\ netifs' = RemoveFirst(netifs, "wg")
            /\ ctx' = [initialized |-> FALSE, device |-> None]
            /\ UNCHANGED <<devices, port>>
       ELSE UNCHANGED <<ctx, devices, port, netifs>>
    /\ pm' = [ctx |-> FALSE, up |-> FALSE]
TearDown_StaysUp ==
    /\ IF pm.ctx /\ ctx.initialized
       THEN /\ devices' = devices \ {ctx.device} /\ port' = None
            /\ netifs' = RemoveFirst(netifs, "wg")
            /\ ctx' = [initialized |-> FALSE, device |-> None]
       ELSE UNCHANGED <<ctx, devices, port, netifs>>
    /\ pm' = [pm EXCEPT !.ctx = FALSE]
TearDown ==
    /\ IF pm.ctx /\ ctx.initialized
       THEN /\ devices' = devices \ {ctx.device} /\ port' = None
            /\ netifs' = RemoveFirst(netifs, "wg")
            /\ ctx' = [initialized |-> FALSE, device |-> None]
       ELSE UNCHANGED <<ctx, devices, port, netifs>>
    /\ pm' = [ctx |-> FALSE, up |-> FALSE]

Next == TearDown \/ \E b \in BOOLEAN : SetUp(b)

Spec == Init /\ [][Next]_setupVars

-----------------------------------------------------------------------------
(* Properties *)

\* The tasks that look at wg_ctx and wg_up before they hand a packet to the device
\* find a live one, which holds the port and whose interface lwIP knows.
UpMeansLive ==
    pm.up => /\ pm.ctx /\ ctx.initialized
             /\ ctx.device \in devices /\ port = ctx.device
             /\ netifs = <<"wg", "wifi">>

\* Nothing of a session is left: no device with its timer, no port, no interface.
AllReleased == devices = {} /\ port = None /\ netifs = <<"wifi">> /\ ~pm.ctx
=============================================================================
