---------------------------- MODULE MCMapStream -----------------------------
(* Four map messages, each a frame: a list of peers, a list that may take   *)
(* two frames, a keep-alive, and another list.  So a read can give up inside*)
(* a message, swallow the next one, and find its way back before the last.  *)
EXTENDS MapStream

MCBodyOf == [m \in 0 .. Messages |-> IF m = 2 THEN 2 ELSE 1]
=============================================================================
