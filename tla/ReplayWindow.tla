---------------------------- MODULE ReplayWindow ----------------------------
(***************************************************************************)
(* The anti-replay window of one receiving key: wireguard_check_replay and *)
(* the two fields of struct wireguard_keypair it keeps, replay_counter and *)
(* replay_bitmap (component/wireguard/wireguard.c:320-365).                *)
(*                                                                         *)
(* The bitmap is the set of its one bits; bit d stands for the sequence    *)
(* number counter - d.  The two integer widths the C code relies on are    *)
(* parameters: sequence numbers are uint64_t, but their difference is      *)
(* stored in a uint32_t.                                                   *)
(***************************************************************************)
EXTENDS Integers

CONSTANTS
    WindowSize,   \* bits of replay_bitmap: 32
    DiffRange,    \* 2^32, the range of "uint32_t diff"
    SeqRange      \* 2^64, the range of "uint64_t seq"

ASSUME WidthsAssumption ==
    /\ WindowSize \in Nat \ {0}
    /\ DiffRange \in Nat /\ SeqRange \in Nat
    /\ WindowSize <= DiffRange
    /\ DiffRange <= SeqRange

Bits == 0 .. WindowSize - 1

Windows == [counter : Nat, bitmap : SUBSET Bits]

\* wireguard_start_session zeroes both fields of a new keypair.
FreshWindow == [counter |-> 0, bitmap |-> {}]

\* The nonce of the packet header starts at 0, the window's numbers at 1.
SeqOf(nonce) == (nonce + 1) % SeqRange

\* "diff", after the assignment to 32 bits.
Diff(high, low) == (high - low) % DiffRange

\* Mutant: the bitmap is moved one place whatever the distance.
Shifted_ByOne(bitmap, d) == {b + 1 : b \in bitmap} \cap Bits

\* bitmap <<= d
Shifted(bitmap, d) == {b + d : b \in bitmap} \cap Bits

\* Mutant: out-of-order packets are not looked up in the bitmap.
AcceptsNonce_NoBitmap(w, nonce) ==
    /\ SeqOf(nonce) # 0
    /\ \/ SeqOf(nonce) > w.counter
       \/ Diff(w.counter, SeqOf(nonce)) < WindowSize

\* Mutant: the last place of the window is forgotten.
AcceptsNonce_ShortWindow(w, nonce) ==
    /\ SeqOf(nonce) # 0
    /\ \/ SeqOf(nonce) > w.counter
       \/ /\ Diff(w.counter, SeqOf(nonce)) < WindowSize - 1
          /\ Diff(w.counter, SeqOf(nonce)) \notin w.bitmap

\* The value wireguard_check_replay returns.
AcceptsNonce(w, nonce) ==
    /\ SeqOf(nonce) # 0
    /\ \/ SeqOf(nonce) > w.counter
       \/ /\ Diff(w.counter, SeqOf(nonce)) < WindowSize
          /\ Diff(w.counter, SeqOf(nonce)) \notin w.bitmap

\* Mutant: an accepted packet is not marked.
MarkNonce_Forget(w, nonce) ==
    LET seq   == SeqOf(nonce)
        ahead == Diff(seq, w.counter)
    IN  IF seq > w.counter
        THEN [counter |-> seq,
              bitmap  |-> IF ahead < WindowSize THEN Shifted(w.bitmap, ahead) ELSE {}]
        ELSE w

\* The bitmap and counter an accepted nonce leaves behind.
MarkNonce(w, nonce) ==
    LET seq   == SeqOf(nonce)
        ahead == Diff(seq, w.counter)
    IN  IF seq > w.counter
        THEN [counter |-> seq,
              bitmap  |-> {0} \cup (IF ahead < WindowSize
                                    THEN Shifted(w.bitmap, ahead) ELSE {})]
        ELSE [w EXCEPT !.bitmap = @ \cup {Diff(w.counter, seq)}]

\* The whole call: a rejected nonce leaves the window alone.
wireguard_check_replay(w, nonce) ==
    IF AcceptsNonce(w, nonce) THEN MarkNonce(w, nonce) ELSE w
=============================================================================
