---------------------------- MODULE MCPeerPaths -----------------------------
(* Two nodes: a has the addresses a1 and a2, in different networks; b has b1, *)
(* or is only met over the relay.                                            *)
EXTENDS PeerPaths

CONSTANTS a, b, a1, a2, b1

MCHomes == [n \in Nodes |-> Addrs \cap (IF n = a THEN {a1, a2} ELSE {b1})]
MCHosts == [x \in Addrs |-> x]
Changes == {<<a, b>>, <<b>>}
=============================================================================
