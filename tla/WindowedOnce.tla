---------------------------- MODULE WindowedOnce ----------------------------
(***************************************************************************)
(* What a receiver with an anti-replay window promises, with no window in  *)
(* sight: nonces arrive in any order and any number of times; one is       *)
(* accepted when it was never accepted before and fewer than WindowSize    *)
(* places separate it from the highest nonce accepted so far.              *)
(***************************************************************************)
EXTENDS Integers

CONSTANTS Nonces, WindowSize

VARIABLES
    accepted,   \* the nonces accepted so far
    passes      \* how many packets were accepted

\* The nonce has not fallen out of the window that ends at the highest one.
Recent(n) == \A a \in accepted : a < n + WindowSize

Init == accepted = {} /\ passes = 0

Accept(n) ==
    /\ n \notin accepted
    /\ Recent(n)
    /\ accepted' = accepted \cup {n}
    /\ passes' = passes + 1

Next == \E n \in Nonces : Accept(n)

Spec == Init /\ [][Next]_<<accepted, passes>>
=============================================================================
