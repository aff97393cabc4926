--------------------------- MODULE MCReplayFilter ---------------------------
(* The replay window on a 3-bit bitmap and 9 nonces: the window slides, jumps *)
(* past its own size and refuses what falls out of it.                        *)
EXTENDS ReplayFilter
=============================================================================
