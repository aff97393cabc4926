---------------------------- MODULE FrameChannel ----------------------------
(***************************************************************************)
(* What the layers under the map stream promise it: the frames the server  *)
(* writes are read whole, in order and once.  MapStream takes its frames   *)
(* from such a channel.                                                    *)
(***************************************************************************)
EXTENDS Sequences, Integers

CONSTANT Frames

VARIABLES
    written,    \* the frames the server has written
    read        \* the frames the client has read

Init == written = <<>> /\ read = <<>>

Write(f) == written' = Append(written, f) /\ UNCHANGED read

Read ==
    /\ Len(read) < Len(written)
    /\ read' = Append(read, written[Len(read) + 1])
    /\ UNCHANGED written

Next == Read \/ \E f \in Frames : Write(f)

Spec == Init /\ [][Next]_<<written, read>>
=============================================================================
