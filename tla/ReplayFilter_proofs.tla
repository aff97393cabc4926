------------------------ MODULE ReplayFilter_proofs ------------------------
(***************************************************************************)
(* For every window size, every width of "diff" and every number of nonces *)
(* below it: the bitmap is exact, and the filter implements WindowedOnce.  *)
(***************************************************************************)
EXTENDS ReplayFilter, TLAPS

-----------------------------------------------------------------------------
(* The operators of ReplayWindow *)

\* A difference that fits in the width of "diff" is not changed by it.
LEMMA DiffExact ==
    ASSUME NEW high \in Int, NEW low \in Int, 0 <= high - low, high - low < DiffRange
    PROVE  Diff(high, low) = high - low
BY WidthsAssumption DEF Diff

\* A nonce below the bound keeps its number when 1 is added to it.
LEMMA SeqExact ==
    ASSUME NEW n \in Nonces
    PROVE  SeqOf(n) = n + 1
BY WidthsAssumption, NonceAssumption DEF SeqOf, Nonces

\* The code accepts a nonce exactly when the bookkeeping would: the comparison
\* with the counter, the width of the window and the bit all agree with it.
LEMMA AcceptsIff ==
    ASSUME TypeOK, WindowExact, NEW n \in Nonces
    PROVE  AcceptsNonce(window, n) <=> n \notin accepted /\ Once!Recent(n)
<1> DEFINE c == window.counter
<1>1. c \in Nat /\ window.bitmap \subseteq Bits /\ n \in Nat /\ accepted \subseteq Nat
    BY DEF TypeOK, Windows, Nonces
<1>2. SeqOf(n) = n + 1 /\ n + 1 # 0
    BY SeqExact, <1>1
<1>3. CASE n + 1 > c
    <2>1. AcceptsNonce(window, n)
        BY <1>2, <1>3 DEF AcceptsNonce
    <2>2. \A a \in accepted : a < n
        BY <1>1, <1>3 DEF WindowExact
    <2>3. n \notin accepted
        BY <1>1, <2>2
    <2>4. Once!Recent(n)
        <3> SUFFICES ASSUME NEW a \in accepted
                     PROVE  a < n + WindowSize
            BY DEF Once!Recent
        <3>1. a \in Nat /\ a < n /\ n \in Nat
            BY <1>1, <2>2
        <3>2. WindowSize \in Nat
            BY WidthsAssumption
        <3> QED
            BY <3>1, <3>2
    <2> QED
        BY <2>1, <2>3, <2>4
<1>4. CASE n + 1 <= c
    <2>1. Diff(c, n + 1) = c - (n + 1)
        BY <1>1, <1>4, DiffExact, NonceAssumption, WidthsAssumption DEF WindowExact
    <2>2. AcceptsNonce(window, n)
            <=> c - (n + 1) < WindowSize /\ c - (n + 1) \notin window.bitmap
        BY <1>1, <1>2, <1>4, <2>1 DEF AcceptsNonce
    <2>3. c - 1 \in accepted /\ \A a \in accepted : a <= c - 1
        BY <1>1, <1>4 DEF WindowExact
    <2>4. Once!Recent(n) <=> c - (n + 1) < WindowSize
        BY <1>1, <2>3, WidthsAssumption DEF Once!Recent
    <2>5. ASSUME c - (n + 1) < WindowSize
          PROVE  c - (n + 1) \in window.bitmap <=> n \in accepted
        <3>1. c - (n + 1) \in Bits
            BY <1>1, <1>4, <2>5, WidthsAssumption DEF Bits
        <3>2. c - 1 - (c - (n + 1)) = n
            BY <1>1
        <3> QED
            BY <3>1, <3>2 DEF WindowExact
    <2> QED
        BY <2>2, <2>4, <2>5
<1> QED
    BY <1>1, <1>3, <1>4

\* Marking an accepted nonce keeps the bitmap exact.
LEMMA MarkExact ==
    ASSUME TypeOK, WindowExact, NEW n \in Nonces, Pass(n)
    PROVE  TypeOK' /\ WindowExact'
<1> DEFINE c == window.counter
<1>1. c \in Nat /\ window.bitmap \subseteq Bits /\ n \in Nat /\ accepted \subseteq Nat
    BY DEF TypeOK, Windows, Nonces
<1>2. SeqOf(n) = n + 1 /\ n + 1 \in Nat /\ n + 1 <= MaxNonce + 1
    BY SeqExact, <1>1, NonceAssumption DEF Nonces
<1>3. window' = MarkNonce(window, n) /\ accepted' = accepted \cup {n} /\ passes' = passes + 1
    BY DEF Pass, wireguard_check_replay
<1>4. n \notin accepted
    BY AcceptsIff DEF Pass
<1>5. CASE n + 1 > c
    <2> DEFINE ahead == n + 1 - c
    <2>1. Diff(n + 1, c) = ahead
        BY <1>1, <1>2, <1>5, DiffExact, NonceAssumption, WidthsAssumption
    <2>2. window' = [counter |-> n + 1,
                     bitmap |-> {0} \cup (IF ahead < WindowSize
                                         THEN Shifted(window.bitmap, ahead) ELSE {})]
        BY <1>1, <1>2, <1>3, <1>5, <2>1 DEF MarkNonce
    <2>3. window' \in Windows
        BY <1>1, <2>2, WidthsAssumption DEF Windows, Shifted, Bits
    <2>4. \A a \in accepted : a < c
        BY DEF WindowExact
    <2>5. ASSUME NEW d \in Bits
          PROVE  d \in window'.bitmap <=> n - d \in accepted'
        <3>1. CASE d = 0
            BY <1>1, <1>3, <2>2, <3>1
        <3>2. CASE d # 0 /\ d < ahead
            <4>1. n - d \notin accepted /\ n - d # n
                BY <1>1, <2>4, <3>2 DEF Bits
            <4>2. d \notin Shifted(window.bitmap, ahead)
                BY <1>1, <1>5, <3>2 DEF Shifted, Bits
            <4> QED
                BY <1>3, <2>2, <3>2, <4>1, <4>2
        <3>3. CASE d # 0 /\ d >= ahead
            <4>1. ahead < WindowSize /\ d - ahead \in Bits
                BY <1>1, <1>5, <3>3, WidthsAssumption DEF Bits
            <4>2. d \in Shifted(window.bitmap, ahead) <=> d - ahead \in window.bitmap
                <5>1. d - ahead \in window.bitmap => d \in Shifted(window.bitmap, ahead)
                    <6>1. (d - ahead) + ahead = d
                        BY <1>1 DEF Bits
                    <6> QED
                        BY <6>1 DEF Shifted
                <5>2. d \in Shifted(window.bitmap, ahead) => d - ahead \in window.bitmap
                    <6>1. ASSUME NEW b \in window.bitmap, d = b + ahead
                          PROVE  b = d - ahead
                        BY <1>1, <6>1 DEF Bits
                    <6> QED
                        BY <6>1 DEF Shifted
                <5> QED
                    BY <5>1, <5>2
            <4>3. c - 1 - (d - ahead) = n - d
                BY <1>1 DEF Bits
            <4>4. d - ahead \in window.bitmap <=> n - d \in accepted
                BY <4>1, <4>3 DEF WindowExact
            <4>5. n - d # n
                BY <1>1, <3>3 DEF Bits
            <4> QED
                BY <1>3, <2>2, <3>3, <4>1, <4>2, <4>4, <4>5
        <3> QED
            BY <1>1, <3>1, <3>2, <3>3 DEF Bits
    <2>6. \A a \in accepted' : a < n + 1
        BY <1>1, <1>3, <1>5, <2>4
    <2>7. WindowExact'
        <3>1. window'.counter = n + 1 /\ n + 1 - 1 = n
            BY <1>1, <2>2
        <3>2. \A d \in Bits : d \in window'.bitmap <=> window'.counter - 1 - d \in accepted'
            BY <1>1, <2>5, <3>1 DEF Bits
        <3>3. window'.counter - 1 \in accepted'
            <4>1. window'.counter - 1 = n
                BY <1>1, <3>1
            <4> QED
                BY <1>3, <4>1
        <3>4. /\ \A a \in accepted' : a < window'.counter
              /\ window'.counter <= MaxNonce + 1
            BY <1>2, <2>6, <3>1
        <3> QED
            BY <3>2, <3>3, <3>4 DEF WindowExact
    <2> QED
        BY <1>3, <2>3, <2>7 DEF TypeOK
<1>6. CASE n + 1 <= c
    <2> DEFINE behind == c - (n + 1)
    <2>1. Diff(c, n + 1) = behind
        BY <1>1, <1>6, DiffExact, NonceAssumption, WidthsAssumption DEF WindowExact
    <2>2. behind \in Bits
        BY <1>1, <1>2, <1>6, <2>1, WidthsAssumption DEF Pass, AcceptsNonce, Bits
    <2>3. window' = [window EXCEPT !.bitmap = @ \cup {behind}]
        <3>1. ~(SeqOf(n) > window.counter) /\ Diff(window.counter, SeqOf(n)) = behind
            BY <1>1, <1>2, <1>6, <2>1
        <3> QED
            BY <1>3, <3>1 DEF MarkNonce
    <2>4. window' \in Windows /\ window'.counter = c /\ window'.bitmap = window.bitmap \cup {behind}
        BY <2>2, <2>3 DEF TypeOK, Windows
    <2>5. ASSUME NEW d \in Bits
          PROVE  d \in window'.bitmap <=> c - 1 - d \in accepted'
        <3>1. c - 1 - d = n <=> d = behind
            BY <1>1 DEF Bits
        <3> QED
            BY <1>3, <2>4, <3>1 DEF WindowExact
    <2>6. WindowExact'
        <3>1. \A a \in accepted' : a < c
            BY <1>1, <1>3, <1>6 DEF WindowExact
        <3>2. c <= MaxNonce + 1 /\ (c > 0 => c - 1 \in accepted')
            BY <1>3 DEF WindowExact
        <3> HIDE DEF c
        <3> QED
            BY <2>4, <2>5, <3>1, <3>2 DEF WindowExact
    <2> QED
        BY <1>3, <2>4, <2>6 DEF TypeOK
<1> QED
    BY <1>1, <1>2, <1>5, <1>6

-----------------------------------------------------------------------------
(* Theorems *)

\* The bitmap of replay_bitmap is exact in every reachable state.
THEOREM FilterInvariant == Spec => [](TypeOK /\ WindowExact)
<1>1. Init => TypeOK /\ WindowExact
    <2> SUFFICES ASSUME Init PROVE TypeOK /\ WindowExact
        OBVIOUS
    <2>1. window.counter = 0 /\ window.bitmap = {} /\ accepted = {}
        BY DEF Init, FreshWindow
    <2>2. TypeOK
        BY DEF Init, FreshWindow, TypeOK, Windows
    <2>3. WindowExact
        BY <2>1, NonceAssumption DEF WindowExact
    <2> QED
        BY <2>2, <2>3
<1>2. TypeOK /\ WindowExact /\ [Next]_vars => (TypeOK /\ WindowExact)'
    <2> SUFFICES ASSUME TypeOK, WindowExact, [Next]_vars PROVE (TypeOK /\ WindowExact)'
        OBVIOUS
    <2>1. ASSUME NEW n \in Nonces, Pass(n) PROVE (TypeOK /\ WindowExact)'
        BY <2>1, MarkExact
    <2>2. ASSUME NEW n \in Nonces, Refuse(n) PROVE (TypeOK /\ WindowExact)'
        BY <2>2 DEF Refuse, wireguard_check_replay, TypeOK, WindowExact
    <2>3. CASE UNCHANGED vars
        BY <2>3 DEF vars, TypeOK, WindowExact
    <2> QED
        BY <2>1, <2>2, <2>3 DEF Next
<1> QED
    BY <1>1, <1>2, PTL DEF Spec

\* A fresh nonce inside the window is never refused.
THEOREM FilterComplete == Spec => []NoFalseRefusal
<1>1. TypeOK /\ WindowExact => NoFalseRefusal
    BY AcceptsIff DEF NoFalseRefusal
<1> QED
    BY <1>1, FilterInvariant, PTL

\* wireguard_check_replay accepts each nonce at most once, and only inside the
\* window: the filter implements WindowedOnce.
THEOREM FilterRefines == Spec => ImplementsWindowedOnce
<1>1. Init => Once!Init
    BY DEF Init, Once!Init
<1>2. TypeOK /\ WindowExact /\ [Next]_vars => [Once!Next]_<<accepted, passes>>
    <2> SUFFICES ASSUME TypeOK, WindowExact, [Next]_vars PROVE [Once!Next]_<<accepted, passes>>
        OBVIOUS
    <2>1. ASSUME NEW n \in Nonces, Pass(n) PROVE Once!Next
        BY <2>1, AcceptsIff DEF Pass, Once!Next, Once!Accept
    <2>2. ASSUME NEW n \in Nonces, Refuse(n) PROVE UNCHANGED <<accepted, passes>>
        BY <2>2 DEF Refuse
    <2>3. CASE UNCHANGED vars
        BY <2>3 DEF vars
    <2> QED
        BY <2>1, <2>2, <2>3 DEF Next
<1> QED
    BY <1>1, <1>2, FilterInvariant, PTL DEF Spec, ImplementsWindowedOnce, Once!Spec
=============================================================================
