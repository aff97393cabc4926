----------------------------- MODULE MCWgTunnel -----------------------------
(* Small instances of WgTunnel. *)
EXTENDS WgTunnel, TLC

\* The two ends are interchangeable in every safety property.
NodeSymmetry == Permutations(Nodes)
=============================================================================
