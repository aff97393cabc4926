---------------------------- MODULE ReplayFilter ----------------------------
(***************************************************************************)
(* wireguard_check_replay driven by a network that delivers the nonces of  *)
(* one key in any order and as often as it likes.                          *)
(***************************************************************************)
EXTENDS ReplayWindow, FiniteSets

CONSTANT MaxNonce     \* bound: the highest nonce the sender ever uses

\* The sender's counter stays below the width of "diff": 2^32 packets do not
\* fit in the REJECT_AFTER_TIME seconds a key is used.
ASSUME NonceAssumption == MaxNonce \in Nat /\ MaxNonce + 1 < DiffRange

Nonces == 0 .. MaxNonce

VARIABLES
    window,     \* replay_counter and replay_bitmap
    accepted,   \* history: the nonces accepted so far
    passes      \* history: how many packets were accepted

vars == <<window, accepted, passes>>

TypeOK ==
    /\ window \in Windows
    /\ accepted \subseteq Nonces
    /\ passes \in Nat

Init ==
    /\ window = FreshWindow
    /\ accepted = {}
    /\ passes = 0

\* A packet whose nonce the code accepts.
Pass(n) ==
    /\ AcceptsNonce(window, n)
    /\ window' = wireguard_check_replay(window, n)
    /\ accepted' = accepted \cup {n}
    /\ passes' = passes + 1

\* "already seen", "too old or wrapped".
Refuse(n) ==
    /\ ~AcceptsNonce(window, n)
    /\ window' = wireguard_check_replay(window, n)
    /\ UNCHANGED <<accepted, passes>>

Next == \E n \in Nonces : Pass(n) \/ Refuse(n)

Spec == Init /\ [][Next]_vars

-----------------------------------------------------------------------------
(* Properties *)

Once == INSTANCE WindowedOnce WITH Nonces <- Nonces, WindowSize <- WindowSize,
            accepted <- accepted, passes <- passes

\* The 32-bit window implements the unbounded bookkeeping of WindowedOnce:
\* wireguard_check_replay never accepts a nonce twice, whatever the order and
\* the repetitions, and never accepts one that has left the window.
ImplementsWindowedOnce == Once!Spec

\* The other direction, which the refinement does not give: a fresh nonce that
\* is still inside the window is never refused, so reordering by fewer than
\* WindowSize packets loses nothing.
NoFalseRefusal ==
    \A n \in Nonces \ accepted : Once!Recent(n) => AcceptsNonce(window, n)

\* The bitmap says exactly which of the last WindowSize nonces were accepted:
\* the inductive core of both properties.
WindowExact ==
    /\ \A a \in accepted : a < window.counter
    /\ window.counter <= MaxNonce + 1
    /\ window.counter > 0 => window.counter - 1 \in accepted
    /\ \A d \in Bits : d \in window.bitmap <=> window.counter - 1 - d \in accepted
=============================================================================
