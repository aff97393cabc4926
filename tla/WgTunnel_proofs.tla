-------------------------- MODULE WgTunnel_proofs --------------------------
(***************************************************************************)
(* For any two nodes, any number of draws, payloads, restarts and any      *)
(* timing: WgTunnel is type correct and no (key, counter) pair is ever     *)
(* used twice.                                                             *)
(*                                                                         *)
(* The invariant is stated for one peer structure p of node n against a    *)
(* set N of packets and a number d of draws, so that the handlers that do  *)
(* several things (the timer, a handshake response) are followed one call  *)
(* at a time.                                                              *)
(***************************************************************************)
EXTENDS WgTunnel, TLAPS

Sent(n, N) == {m \in N : m.type = "data" /\ m.from = n}

\* Every number in the peer structure has been drawn.
PeerDrawn(p, d) ==
    /\ p.hs.local <= d /\ p.hs.remote <= d
    /\ \A s \in Slots : p.kp[s].local <= d /\ p.kp[s].remote <= d

\* Every number in a packet has been drawn.
NetDrawn(N, d) ==
    \A m \in N :
        /\ m.type \in {"init", "resp"} => m.sender <= d
        /\ m.type = "resp" => m.receiver <= d
        /\ m.type = "data" => m.key[1] <= d /\ m.key[2] <= d

\* The draw of a pending initiation is in no session key yet.
PendingUnused(n, p, N) ==
    p.hs.valid /\ p.hs.initiator =>
        /\ \A s \in Slots : p.kp[s].valid => KeyOf(p.kp[s])[1] # p.hs.local
        /\ \A m \in Sent(n, N) : m.key[1] # p.hs.local

\* No key is in two slots.
KeysApart(p) ==
    \A s, t \in Slots :
        s # t /\ p.kp[s].valid /\ p.kp[t].valid => KeyOf(p.kp[s]) # KeyOf(p.kp[t])

\* Every live copy of a key is ahead of the packets sent under it.
CountersAhead(n, p, N) ==
    \A m \in Sent(n, N), s \in Slots :
        p.kp[s].valid /\ KeyOf(p.kp[s]) = m.key => m.counter < p.kp[s].counter

\* No two packets share key and counter.
NoncesUnique(n, N) ==
    \A a, b \in Sent(n, N) : a.key = b.key /\ a.counter = b.counter => a = b

NodeInv(n, p, N, d) ==
    /\ PeerDrawn(p, d)
    /\ PendingUnused(n, p, N)
    /\ KeysApart(p)
    /\ CountersAhead(n, p, N)
    /\ NoncesUnique(n, N)

IInv ==
    /\ TypeOK
    /\ NetDrawn(net, draws)
    /\ \A n \in Nodes : NodeInv(n, peer[n], net, draws)

-----------------------------------------------------------------------------
(* Keys *)

LEMMA KeyFields ==
    ASSUME NEW k \in Keypairs
    PROVE  /\ KeyOf(k) \in Nat \X Nat
           /\ KeyOf(k)[1] = IF k.initiator THEN k.local ELSE k.remote
           /\ KeyOf(k)[2] = IF k.initiator THEN k.remote ELSE k.local
BY DEF KeyOf, Keypairs

\* A key whose halves are drawn is below the next draw.
LEMMA KeyDrawn ==
    ASSUME NEW p \in Peers, NEW d \in Nat, PeerDrawn(p, d), NEW s \in Slots
    PROVE  KeyOf(p.kp[s])[1] <= d /\ KeyOf(p.kp[s])[2] <= d
<1>1. p.kp[s] \in Keypairs
    BY DEF Peers
<1> QED
    BY <1>1, KeyFields DEF PeerDrawn

-----------------------------------------------------------------------------
(* One peer structure *)

\* Packets of others do not matter.
LEMMA OtherPackets ==
    ASSUME NEW n, NEW p, NEW N, NEW M, NEW d,
           NodeInv(n, p, N, d),
           \A m \in M : ~(m.type = "data" /\ m.from = n)
    PROVE  NodeInv(n, p, N \cup M, d)
<1>1. Sent(n, N \cup M) = Sent(n, N)
    BY DEF Sent
<1> QED
    BY <1>1 DEF NodeInv, PendingUnused, CountersAhead, NoncesUnique

\* The slots are moved, dropped or filled with a new key: slot s of q holds
\* what slot f[s] of p held, unless it is the one slot in "fresh".
Reshaped(n, p, q, N, d, f, fresh) ==
    /\ \A s \in Slots \ fresh : q.kp[s].valid =>
            /\ p.kp[f[s]].valid
            /\ KeyOf(q.kp[s]) = KeyOf(p.kp[f[s]])
            /\ q.kp[s].counter = p.kp[f[s]].counter
    /\ \A s, t \in Slots \ fresh :
            s # t /\ q.kp[s].valid /\ q.kp[t].valid => f[s] # f[t]
    /\ \A s, t \in fresh : s = t
    /\ \A s \in fresh :
            /\ \A t \in Slots : p.kp[t].valid => KeyOf(p.kp[t]) # KeyOf(q.kp[s])
            /\ \A m \in Sent(n, N) : m.key # KeyOf(q.kp[s])
    /\ q.hs.valid /\ q.hs.initiator =>
            fresh = {} /\ (q.hs = p.hs \/ q.hs.local > d)

LEMMA Reshape ==
    ASSUME NEW n, NEW p \in Peers, NEW q \in Peers, NEW N \in SUBSET PacketType,
           NEW d \in Nat, NEW e \in Nat, d <= e,
           NodeInv(n, p, N, d), NetDrawn(N, d), PeerDrawn(q, e),
           NEW f \in [Slots -> Slots], NEW fresh \in SUBSET Slots,
           Reshaped(n, p, q, N, d, f, fresh)
    PROVE  NodeInv(n, q, N, e)
<1> USE DEF Reshaped
<1>1. \A s \in Slots : f[s] \in Slots
    OBVIOUS
<1>2. ASSUME q.hs.valid, q.hs.initiator
      PROVE  /\ \A s \in Slots : q.kp[s].valid => KeyOf(q.kp[s])[1] # q.hs.local
             /\ \A m \in Sent(n, N) : m.key[1] # q.hs.local
    <2>1. \A s \in Slots : q.kp[s].valid =>
            p.kp[f[s]].valid /\ KeyOf(q.kp[s]) = KeyOf(p.kp[f[s]])
        BY <1>2
    <2>2. CASE q.hs = p.hs
        BY <1>1, <1>2, <2>1, <2>2 DEF NodeInv, PendingUnused
    <2>3. CASE q.hs.local > d
        <3>1. q.hs.local \in Nat
            BY DEF Peers, Handshakes
        <3>2. \A s \in Slots : KeyOf(p.kp[s])[1] \in Nat /\ KeyOf(p.kp[s])[1] <= d
            <4> SUFFICES ASSUME NEW s \in Slots
                         PROVE  KeyOf(p.kp[s])[1] \in Nat /\ KeyOf(p.kp[s])[1] <= d
                OBVIOUS
            <4>1. p.kp[s] \in Keypairs
                BY DEF Peers
            <4> QED
                BY <4>1, KeyFields, KeyDrawn DEF NodeInv
        <3>3. \A m \in Sent(n, N) : m.key[1] \in Nat /\ m.key[1] <= d
            BY DEF Sent, NetDrawn, PacketType
        <3>4. \A s \in Slots : q.kp[s].valid => KeyOf(q.kp[s])[1] # q.hs.local
            <4> SUFFICES ASSUME NEW s \in Slots, q.kp[s].valid
                         PROVE  KeyOf(q.kp[s])[1] # q.hs.local
                OBVIOUS
            <4>1. KeyOf(q.kp[s]) = KeyOf(p.kp[f[s]]) /\ f[s] \in Slots
                BY <1>1, <2>1
            <4> QED
                BY <2>3, <3>1, <3>2, <4>1
        <3>5. \A m \in Sent(n, N) : m.key[1] # q.hs.local
            BY <2>3, <3>1, <3>3
        <3> QED
            BY <3>4, <3>5
    <2> QED
        BY <1>2, <2>2, <2>3
<1>3. KeysApart(q)
    <2> SUFFICES ASSUME NEW s \in Slots, NEW t \in Slots,
                        s # t, q.kp[s].valid, q.kp[t].valid
                 PROVE  KeyOf(q.kp[s]) # KeyOf(q.kp[t])
        BY DEF KeysApart
    <2>1. CASE s \notin fresh /\ t \notin fresh
        BY <1>1, <2>1 DEF NodeInv, KeysApart
    <2>2. CASE s \in fresh /\ t \notin fresh
        BY <1>1, <2>2
    <2>3. CASE s \notin fresh /\ t \in fresh
        BY <1>1, <2>3
    <2> QED
        BY <2>1, <2>2, <2>3
<1>4. CountersAhead(n, q, N)
    <2> SUFFICES ASSUME NEW m \in Sent(n, N), NEW s \in Slots,
                        q.kp[s].valid, KeyOf(q.kp[s]) = m.key
                 PROVE  m.counter < q.kp[s].counter
        BY DEF CountersAhead
    <2>1. s \notin fresh
        OBVIOUS
    <2> QED
        BY <1>1, <2>1 DEF NodeInv, CountersAhead
<1> QED
    BY <1>2, <1>3, <1>4 DEF NodeInv, PendingUnused

-----------------------------------------------------------------------------
(* The calls keep the peer structure well typed *)

LEMMA WindowType ==
    ASSUME NEW w \in Windows, NEW nonce \in Nat
    PROVE  wireguard_check_replay(w, nonce) \in Windows
<1>1. SeqOf(nonce) \in Nat
    BY WidthsAssumption DEF SeqOf
<1>2. Diff(w.counter, SeqOf(nonce)) \in Nat
    BY <1>1, WidthsAssumption DEF Diff, Windows
<1>3. 0 \in Bits
    BY WidthsAssumption DEF Bits
<1>4. CASE ~AcceptsNonce(w, nonce)
    BY <1>4 DEF wireguard_check_replay
<1>5. CASE AcceptsNonce(w, nonce) /\ SeqOf(nonce) > w.counter
    BY <1>1, <1>3, <1>5 DEF wireguard_check_replay, MarkNonce, Shifted, Windows
<1>6. CASE AcceptsNonce(w, nonce) /\ ~(SeqOf(nonce) > w.counter)
    <2>1. Diff(w.counter, SeqOf(nonce)) \in Bits
        BY <1>2, <1>6, WidthsAssumption DEF AcceptsNonce, Bits
    <2> QED
        BY <1>6, <2>1 DEF wireguard_check_replay, MarkNonce, Windows
<1> QED
    BY <1>4, <1>5, <1>6

LEMMA EmptyType == EmptyKeypair \in Keypairs /\ NoKeypairs \in [Slots -> Keypairs]
BY DEF EmptyKeypair, NoKeypairs, Keypairs, FreshWindow, Windows

\* A new peer structure.
LEMMA NewPeerInv ==
    ASSUME NEW n, NEW active \in BOOLEAN, NEW N, NEW d \in Nat, NoncesUnique(n, N)
    PROVE  NewPeer(active) \in Peers /\ NodeInv(n, NewPeer(active), N, d)
<1>1. NewPeer(active) \in Peers
    BY EmptyType, PeerAssumption DEF NewPeer, Peers, Handshakes
<1>2. \A s \in Slots : NewPeer(active).kp[s] = EmptyKeypair
    BY DEF NewPeer, NoKeypairs
<1>3. PeerDrawn(NewPeer(active), d)
    BY <1>2 DEF PeerDrawn, NewPeer, EmptyKeypair
<1> QED
    BY <1>1, <1>2, <1>3
    DEF NodeInv, PendingUnused, KeysApart, CountersAhead, EmptyKeypair, NewPeer

-----------------------------------------------------------------------------
(* Slots dropped, and fields outside the slots changed *)

\* Sessions are only dropped, and the handshake stays or goes.
LEMMA Dropped ==
    ASSUME NEW n, NEW p \in Peers, NEW q \in Peers, NEW N \in SUBSET PacketType,
           NEW d \in Nat, NodeInv(n, p, N, d), NetDrawn(N, d),
           q.hs = p.hs,
           \A s \in Slots : q.kp[s] = p.kp[s] \/ q.kp[s] = EmptyKeypair
    PROVE  NodeInv(n, q, N, d)
<1>1. PeerDrawn(q, d)
    BY DEF NodeInv, PeerDrawn, EmptyKeypair
<1>2. \A s \in Slots : q.kp[s].valid => q.kp[s] = p.kp[s]
    BY DEF EmptyKeypair
<1>3. PendingUnused(n, q, N)
    BY <1>2 DEF NodeInv, PendingUnused
<1>4. KeysApart(q)
    BY <1>2 DEF NodeInv, KeysApart
<1>5. CountersAhead(n, q, N)
    BY <1>2 DEF NodeInv, CountersAhead
<1> QED
    BY <1>1, <1>3, <1>4, <1>5 DEF NodeInv
-----------------------------------------------------------------------------
(* Sending *)

LEMMA OutputType ==
    ASSUME NEW p \in Peers, NEW clock \in Nat, NEW ok \in BOOLEAN
    PROVE  /\ wireguardif_output_to_peer(p, clock, ok) \in Peers
           /\ SendSlot(p.kp) \in Slots
<1> DEFINE s == SendSlot(p.kp)
<1>1. s \in Slots
    BY DEF SendSlot, Slots
<1>2. p.kp[s] \in Keypairs /\ p.kp \in [Slots -> Keypairs]
    BY <1>1 DEF Peers
<1>3. [p.kp[s] EXCEPT !.counter = @ + 1] \in Keypairs
    BY <1>2 DEF Keypairs
<1>4. RekeyAfterSend(p.kp[s], clock) \in BOOLEAN
    BY <1>2 DEF RekeyAfterSend, Keypairs
<1> HIDE DEF s
<1>5. [p.kp EXCEPT ![s] = [p.kp[s] EXCEPT !.counter = @ + 1]] \in [Slots -> Keypairs]
    BY <1>1, <1>2, <1>3
<1>6. [p.kp EXCEPT ![s] = EmptyKeypair] \in [Slots -> Keypairs]
    BY <1>1, <1>2, EmptyType
<1>7. wireguardif_output_to_peer(p, clock, ok) \in Peers
    BY <1>4, <1>5, <1>6 DEF wireguardif_output_to_peer, Peers, s
<1> QED
    BY <1>1, <1>7 DEF s

LEMMA DataPacketType ==
    ASSUME NEW n \in Nodes, NEW p \in Peers, NEW x \in 0 .. MaxPayloads
    PROVE  /\ DataPacket(n, p, x) \in PacketType
           /\ DataPacket(n, p, x).type = "data" /\ DataPacket(n, p, x).from = n
           /\ DataPacket(n, p, x).key = KeyOf(p.kp[SendSlot(p.kp)])
           /\ DataPacket(n, p, x).counter = p.kp[SendSlot(p.kp)].counter
<1> DEFINE k == p.kp[SendSlot(p.kp)]
<1>1. k \in Keypairs
    BY DEF Peers, SendSlot, Slots
<1>2. KeyOf(k) \in Nat \X Nat /\ k.remote \in Nat /\ k.counter \in Nat
    BY <1>1, KeyFields DEF Keypairs
<1> QED
    BY <1>2 DEF DataPacket, PacketType

\* wireguardif_output_to_peer advances the counter of the slot it sends under,
\* or drops that slot; the packet it sends, if any, has the counter it passed.
LEMMA OutputInv ==
    ASSUME NEW n \in Nodes, NEW p \in Peers, NEW N \in SUBSET PacketType,
           NEW d \in Nat, NEW clock \in Nat, NEW ok \in BOOLEAN,
           NEW x \in 0 .. MaxPayloads,
           NodeInv(n, p, N, d), NetDrawn(N, d)
    PROVE  LET q == wireguardif_output_to_peer(p, clock, ok)
               M == N \cup {DataPacket(n, p, x)}
           IN  /\ NodeInv(n, q, N, d)
               /\ Encrypts(p, clock) => NetDrawn(M, d) /\ NodeInv(n, q, M, d)
<1> DEFINE q == wireguardif_output_to_peer(p, clock, ok)
           M == N \cup {DataPacket(n, p, x)}
           s == SendSlot(p.kp)
           k == p.kp[s]
           m == DataPacket(n, p, x)
<1>1. s \in Slots /\ q \in Peers
    BY OutputType
<1>2. k \in Keypairs
    BY <1>1 DEF Peers
<1>3. /\ m \in PacketType
      /\ m.type = "data" /\ m.from = n /\ m.key = KeyOf(k) /\ m.counter = k.counter
    BY DataPacketType
<1>4. CASE ~Encrypts(p, clock)
    <2>1. q.hs = p.hs /\ \A r \in Slots : q.kp[r] = p.kp[r] \/ q.kp[r] = EmptyKeypair
        BY <1>1, <1>4 DEF wireguardif_output_to_peer, Peers
    <2>2. NodeInv(n, q, N, d)
        BY <1>1, <2>1, Dropped
    <2> QED
        BY <1>3, <1>4, <2>2
<1>5. CASE Encrypts(p, clock)
    <2>1. q.hs = p.hs
        BY <1>5 DEF wireguardif_output_to_peer, Peers
    <2>2. q.kp = [p.kp EXCEPT ![s] = [k EXCEPT !.counter = @ + 1]]
        BY <1>5 DEF wireguardif_output_to_peer, Peers
    <2>3. k.valid
        BY <1>5 DEF Encrypts, HasKey
    <2> HIDE DEF q, s, k, m
    <2>4. /\ \A r \in Slots : /\ q.kp[r].valid = p.kp[r].valid
                              /\ q.kp[r].local = p.kp[r].local
                              /\ q.kp[r].remote = p.kp[r].remote
                              /\ KeyOf(q.kp[r]) = KeyOf(p.kp[r])
          /\ \A r \in Slots \ {s} : q.kp[r].counter = p.kp[r].counter
          /\ q.kp[s].counter = k.counter + 1
        <3>1. p.kp \in [Slots -> Keypairs]
            BY DEF Peers
        <3>2. q.kp[s] = [k EXCEPT !.counter = @ + 1]
            BY <1>1, <2>2, <3>1
        <3>3. \A r \in Slots \ {s} : q.kp[r] = p.kp[r]
            BY <1>1, <2>2, <3>1
        <3>4. /\ q.kp[s].valid = k.valid /\ q.kp[s].local = k.local
              /\ q.kp[s].remote = k.remote /\ KeyOf(q.kp[s]) = KeyOf(k)
              /\ q.kp[s].counter = k.counter + 1
            BY <1>2, <3>2 DEF Keypairs, KeyOf
        <3> QED
            BY <3>3, <3>4 DEF k
    <2>5. PeerDrawn(q, d)
        BY <2>1, <2>4 DEF NodeInv, PeerDrawn
    <2>6. KeysApart(q)
        BY <2>4 DEF NodeInv, KeysApart
    <2>7. Sent(n, M) = Sent(n, N) \cup {m}
        BY <1>3 DEF Sent, m
    <2>8. PendingUnused(n, q, N) /\ PendingUnused(n, q, M)
        <3>1. ASSUME q.hs.valid, q.hs.initiator
              PROVE  /\ \A r \in Slots : q.kp[r].valid => KeyOf(q.kp[r])[1] # q.hs.local
                     /\ \A a \in Sent(n, N) : a.key[1] # q.hs.local
            BY <2>1, <2>4, <3>1 DEF NodeInv, PendingUnused
        <3>2. ASSUME q.hs.valid, q.hs.initiator
              PROVE  m.key[1] # q.hs.local
            BY <1>1, <1>3, <2>3, <2>4, <3>1, <3>2 DEF k
        <3> QED
            BY <2>7, <3>1, <3>2 DEF PendingUnused
    <2>9. \A a \in Sent(n, N) : a.counter \in Nat
        BY DEF Sent, PacketType
    <2>10. k.counter \in Nat
        BY <1>2 DEF Keypairs
    <2>11. CountersAhead(n, q, N)
        <3> SUFFICES ASSUME NEW a \in Sent(n, N), NEW r \in Slots,
                            q.kp[r].valid, KeyOf(q.kp[r]) = a.key
                     PROVE  a.counter < q.kp[r].counter
            BY DEF CountersAhead
        <3>1. a.counter < p.kp[r].counter
            BY <2>4 DEF NodeInv, CountersAhead
        <3>2. CASE r = s
            BY <2>4, <2>9, <2>10, <3>1, <3>2 DEF k
        <3>3. CASE r # s
            BY <2>4, <3>1, <3>3
        <3> QED
            BY <3>2, <3>3
    <2>12. CountersAhead(n, q, M)
        <3>1. ASSUME NEW r \in Slots, q.kp[r].valid, KeyOf(q.kp[r]) = m.key
              PROVE  m.counter < q.kp[r].counter
            <4>1. r = s
                BY <1>1, <1>3, <2>3, <2>4, <3>1 DEF NodeInv, KeysApart, k
            <4> QED
                BY <1>3, <2>4, <2>10, <4>1
        <3> QED
            BY <2>7, <2>11, <3>1 DEF CountersAhead
    <2>13. NoncesUnique(n, M)
        <3>1. \A a \in Sent(n, N) : ~(a.key = m.key /\ a.counter = m.counter)
            BY <1>1, <1>3, <2>3, <2>9, <2>10 DEF NodeInv, CountersAhead, k
        <3> QED
            BY <2>7, <3>1 DEF NodeInv, NoncesUnique
    <2>14. NetDrawn(M, d)
        <3>1. m.key[1] <= d /\ m.key[2] <= d
            BY <1>1, <1>3, KeyDrawn DEF NodeInv, k
        <3>2. M = N \cup {m}
            BY DEF M, m
        <3> QED
            BY <1>3, <3>1, <3>2 DEF NetDrawn
    <2>15. NodeInv(n, q, N, d)
        BY <2>5, <2>6, <2>8, <2>11 DEF NodeInv
    <2>16. NodeInv(n, q, M, d)
        BY <2>5, <2>6, <2>8, <2>12, <2>13 DEF NodeInv
    <2> QED
        BY <1>3, <2>14, <2>15, <2>16 DEF q, m
<1> QED
    BY <1>4, <1>5
-----------------------------------------------------------------------------
(* Handshakes *)

LEMMA NewSessionType ==
    ASSUME NEW kp \in [Slots -> Keypairs], NEW new \in Keypairs
    PROVE  add_new_keypair(kp, new) \in [Slots -> Keypairs]
BY EmptyType DEF add_new_keypair, Slots

\* An initiation carries a draw nobody has used.
LEMMA StartHandshakeInv ==
    ASSUME NEW n \in Nodes, NEW p \in Peers, NEW N \in SUBSET PacketType,
           NEW d \in Nat, NEW clock \in Nat,
           NodeInv(n, p, N, d), NetDrawn(N, d)
    PROVE  /\ wireguard_start_handshake(p, d + 1, clock) \in Peers
           /\ NodeInv(n, wireguard_start_handshake(p, d + 1, clock), N, d + 1)
<1> DEFINE q == wireguard_start_handshake(p, d + 1, clock)
           hs == [p.hs EXCEPT !.valid = TRUE, !.initiator = TRUE, !.local = d + 1]
           f == [s \in Slots |-> s]
<1>1. hs \in Handshakes /\ hs.local = d + 1 /\ hs.remote = p.hs.remote
    <2>1. p.hs \in Handshakes /\ d + 1 \in Nat
        BY DEF Peers
    <2> QED
        BY <2>1 DEF Handshakes
<1>2. q \in Peers /\ q.kp = p.kp /\ q.hs = hs
    <2>1. q = [p EXCEPT !.hs = hs, !.sendHandshake = FALSE, !.lastInitTx = clock]
        BY DEF wireguard_start_handshake
    <2> HIDE DEF hs, q
    <2> QED
        BY <1>1, <2>1 DEF Peers
<1> HIDE DEF q, hs
<1>3. d + 1 \in Nat /\ d <= d + 1 /\ d + 1 > d
    OBVIOUS
<1>4. PeerDrawn(q, d + 1)
    <2>1. /\ p.hs.local \in Nat /\ p.hs.remote \in Nat
          /\ \A s \in Slots : p.kp[s].local \in Nat /\ p.kp[s].remote \in Nat
        BY DEF Peers, Handshakes, Keypairs
    <2> QED
        BY <1>1, <1>2, <2>1 DEF NodeInv, PeerDrawn
<1>5. f \in [Slots -> Slots] /\ \A s \in Slots : f[s] = s
    OBVIOUS
<1> HIDE DEF f
<1>6. Reshaped(n, p, q, N, d, f, {})
    BY <1>1, <1>2, <1>3, <1>5 DEF Reshaped
<1>7. {} \in SUBSET Slots
    OBVIOUS
<1>8. NodeInv(n, q, N, d + 1)
    BY <1>2, <1>3, <1>4, <1>5, <1>6, <1>7, Reshape
<1> QED
    BY <1>2, <1>8 DEF q

\* The responder's new session has a draw of its own in its key.
LEMMA ProcessInitiationInv ==
    ASSUME NEW n \in Nodes, NEW p \in Peers, NEW N \in SUBSET PacketType,
           NEW d \in Nat, NEW clock \in Nat, NEW sender \in Nat, sender <= d,
           NEW a \in Addrs,
           NodeInv(n, p, N, d), NetDrawn(N, d)
    PROVE  /\ ProcessInitiation(p, sender, d + 1, a, clock) \in Peers
           /\ NodeInv(n, ProcessInitiation(p, sender, d + 1, a, clock), N, d + 1)
<1> DEFINE q == ProcessInitiation(p, sender, d + 1, a, clock)
           new == [valid |-> TRUE, initiator |-> FALSE, born |-> clock,
                   counter |-> 0, lastRx |-> 0, window |-> FreshWindow,
                   local |-> d + 1, remote |-> sender]
           h == [valid |-> TRUE, initiator |-> FALSE, local |-> d + 1, remote |-> sender]
           hs == [h EXCEPT !.valid = FALSE, !.local = 0, !.remote = 0]
           f == [s \in Slots |-> s]
<1>1. new \in Keypairs /\ KeyOf(new) = <<sender, d + 1>>
    BY DEF Keypairs, FreshWindow, Windows, KeyOf
<1>2. p.kp \in [Slots -> Keypairs] /\ p.hs \in Handshakes
    BY DEF Peers
<1>3. PICK r \in Peers : q = [r EXCEPT !.hs = hs, !.kp = add_new_keypair(p.kp, new)]
    <2> DEFINE r == [p EXCEPT !.greatest = sender, !.addr = a, !.hs = h]
    <2>1. h \in Handshakes
        BY DEF Handshakes
    <2>2. h.local = d + 1 /\ h.remote = sender
        OBVIOUS
    <2> HIDE DEF h
    <2>3. r \in Peers /\ r.kp = p.kp /\ r.hs = h
        BY <2>1 DEF Peers
    <2>4. q = wireguard_start_session(r, FALSE, clock)
        BY DEF ProcessInitiation, h
    <2> HIDE DEF r, q
    <2>5. q = [r EXCEPT !.hs = hs, !.kp = add_new_keypair(p.kp, new)]
        BY <2>2, <2>3, <2>4 DEF wireguard_start_session
    <2> QED
        BY <2>3, <2>5
<1>4. add_new_keypair(p.kp, new) \in [Slots -> Keypairs] /\ hs \in Handshakes
    BY <1>1, <1>2, NewSessionType DEF Handshakes
<1>5. ~hs.valid /\ hs.local = 0 /\ hs.remote = 0 /\ new.local = d + 1
      /\ new.remote = sender /\ ~new.initiator
    OBVIOUS
<1> HIDE DEF q, new, h, hs
<1>6. q \in Peers /\ q.kp = add_new_keypair(p.kp, new) /\ q.hs = hs
    BY <1>3, <1>4 DEF Peers
<1>7. q.kp["next"] = new /\ q.kp["prev"] = EmptyKeypair /\ q.kp["curr"] = p.kp["curr"]
    BY <1>2, <1>5, <1>6 DEF add_new_keypair, Slots
<1>8. d + 1 \in Nat /\ d <= d + 1
    OBVIOUS
<1>9. PeerDrawn(q, d + 1)
    <2>1. p.kp["curr"].local \in Nat /\ p.kp["curr"].remote \in Nat
        BY <1>2 DEF Keypairs, Slots
    <2>2. p.kp["curr"].local <= d /\ p.kp["curr"].remote <= d
        BY DEF NodeInv, PeerDrawn, Slots
    <2> QED
        BY <1>5, <1>6, <1>7, <2>1, <2>2 DEF PeerDrawn, Slots, EmptyKeypair
<1>10. f \in [Slots -> Slots] /\ \A s \in Slots : f[s] = s
    OBVIOUS
<1>11. {"next"} \in SUBSET Slots /\ \A s \in {"next"} : s = "next"
    BY DEF Slots
<1> HIDE DEF f
<1>12. \A s \in Slots \ {"next"} : q.kp[s].valid => s = "curr"
    BY <1>7 DEF Slots, EmptyKeypair
<1>13. /\ \A t \in Slots : p.kp[t].valid => KeyOf(p.kp[t]) # KeyOf(q.kp["next"])
       /\ \A m \in Sent(n, N) : m.key # KeyOf(q.kp["next"])
    <2>1. \A t \in Slots : KeyOf(p.kp[t])[2] \in Nat /\ KeyOf(p.kp[t])[2] <= d
        <3> SUFFICES ASSUME NEW t \in Slots
                     PROVE  KeyOf(p.kp[t])[2] \in Nat /\ KeyOf(p.kp[t])[2] <= d
            OBVIOUS
        <3>1. p.kp[t] \in Keypairs
            BY <1>2
        <3> QED
            BY <3>1, KeyFields, KeyDrawn DEF NodeInv
    <2>2. \A m \in Sent(n, N) : m.key[2] \in Nat /\ m.key[2] <= d
        BY DEF Sent, NetDrawn, PacketType
    <2>3. KeyOf(q.kp["next"])[2] = d + 1
        BY <1>1, <1>7
    <2> QED
        BY <2>1, <2>2, <2>3
<1>14. Reshaped(n, p, q, N, d, f, {"next"})
    BY <1>5, <1>6, <1>7, <1>10, <1>11, <1>12, <1>13 DEF Reshaped
<1>15. NodeInv(n, q, N, d + 1)
    BY <1>6, <1>8, <1>9, <1>10, <1>11, <1>14, Reshape
<1> QED
    BY <1>6, <1>15 DEF q

\* The initiator's new session has the draw of its pending initiation.
LEMMA ProcessResponseInv ==
    ASSUME NEW n \in Nodes, NEW p \in Peers, NEW N \in SUBSET PacketType,
           NEW d \in Nat, NEW clock \in Nat, NEW sender \in Nat, sender <= d,
           NEW a \in Addrs, p.hs.valid, p.hs.initiator,
           NodeInv(n, p, N, d), NetDrawn(N, d)
    PROVE  /\ ProcessResponse(p, sender, a, clock) \in Peers
           /\ NodeInv(n, ProcessResponse(p, sender, a, clock), N, d)
<1> DEFINE q == ProcessResponse(p, sender, a, clock)
           new == [valid |-> TRUE, initiator |-> TRUE, born |-> clock,
                   counter |-> 0, lastRx |-> 0, window |-> FreshWindow,
                   local |-> p.hs.local, remote |-> sender]
           h == [p.hs EXCEPT !.remote = sender]
           hs == [h EXCEPT !.valid = FALSE, !.local = 0, !.remote = 0]
           f == [s \in Slots |-> IF s = "prev" /\ p.kp["next"].valid THEN "next"
                                 ELSE IF s = "prev" THEN "curr" ELSE s]
<1>1. p.kp \in [Slots -> Keypairs] /\ p.hs \in Handshakes /\ p.hs.local \in Nat
    BY DEF Peers, Handshakes
<1>2. new \in Keypairs /\ KeyOf(new) = <<p.hs.local, sender>>
    BY <1>1 DEF Keypairs, FreshWindow, Windows, KeyOf
<1>3. h \in Handshakes /\ h.local = p.hs.local /\ h.remote = sender
    BY <1>1 DEF Handshakes
<1>4. hs \in Handshakes /\ ~hs.valid /\ hs.local = 0 /\ hs.remote = 0
    BY <1>3 DEF Handshakes
<1>5. /\ new.valid /\ new.initiator /\ new.counter = 0
      /\ new.local = p.hs.local /\ new.remote = sender
    OBVIOUS
<1>6. PICK r \in Peers : q = [r EXCEPT !.hs = hs, !.kp = add_new_keypair(p.kp, new)]
    <2> DEFINE r == [p EXCEPT !.addr = a, !.hs = h]
    <2> HIDE DEF h
    <2>1. r \in Peers /\ r.kp = p.kp /\ r.hs = h
        BY <1>3 DEF Peers
    <2>2. q = wireguard_start_session(r, TRUE, clock)
        BY DEF ProcessResponse, h
    <2> HIDE DEF r, q
    <2>3. q = [r EXCEPT !.hs = hs, !.kp = add_new_keypair(p.kp, new)]
        BY <1>3, <2>1, <2>2 DEF wireguard_start_session
    <2> QED
        BY <2>1, <2>3
<1>7. add_new_keypair(p.kp, new) \in [Slots -> Keypairs]
    BY <1>1, <1>2, NewSessionType
<1> HIDE DEF q, new, h, hs
<1>8. q \in Peers /\ q.kp = add_new_keypair(p.kp, new) /\ q.hs = hs
    BY <1>4, <1>6, <1>7 DEF Peers
<1>9. /\ q.kp["curr"] = new
      /\ q.kp["prev"] = IF p.kp["next"].valid THEN p.kp["next"] ELSE p.kp["curr"]
      /\ ~q.kp["next"].valid
      /\ q.kp["next"] \in {EmptyKeypair, p.kp["next"]}
    <2>1. q.kp = [p.kp EXCEPT
                    !["prev"] = IF p.kp["next"].valid THEN p.kp["next"] ELSE p.kp["curr"],
                    !["next"] = IF p.kp["next"].valid THEN EmptyKeypair ELSE @,
                    !["curr"] = new]
        BY <1>5, <1>8 DEF add_new_keypair
    <2>2. /\ q.kp["curr"] = new
          /\ q.kp["prev"] = IF p.kp["next"].valid THEN p.kp["next"] ELSE p.kp["curr"]
          /\ q.kp["next"] = IF p.kp["next"].valid THEN EmptyKeypair ELSE p.kp["next"]
        BY <1>1, <2>1 DEF Slots
    <2>3. ~EmptyKeypair.valid
        BY DEF EmptyKeypair
    <2> QED
        BY <2>2, <2>3
<1>10. d \in Nat /\ d <= d
    OBVIOUS
<1>11. PeerDrawn(q, d)
    <2>1. \A s \in Slots : p.kp[s].local <= d /\ p.kp[s].remote <= d
        BY DEF NodeInv, PeerDrawn
    <2>2. p.hs.local <= d
        BY DEF NodeInv, PeerDrawn
    <2> QED
        BY <1>4, <1>5, <1>8, <1>9, <2>1, <2>2 DEF PeerDrawn, Slots, EmptyKeypair
<1>12. /\ f \in [Slots -> Slots]
       /\ f["prev"] = IF p.kp["next"].valid THEN "next" ELSE "curr"
    BY DEF Slots
<1>13. {"curr"} \in SUBSET Slots /\ \A s \in {"curr"} : s = "curr"
    BY DEF Slots
<1> HIDE DEF f
<1>14. \A s \in Slots \ {"curr"} : q.kp[s].valid => s = "prev"
    BY <1>9 DEF Slots
<1>15. /\ \A t \in Slots : p.kp[t].valid => KeyOf(p.kp[t]) # KeyOf(q.kp["curr"])
       /\ \A m \in Sent(n, N) : m.key # KeyOf(q.kp["curr"])
    <2>1. KeyOf(q.kp["curr"])[1] = p.hs.local
        BY <1>2, <1>9
    <2> QED
        BY <2>1 DEF NodeInv, PendingUnused
<1>16. q.kp["prev"] = p.kp[f["prev"]]
    BY <1>9, <1>12
<1>17. Reshaped(n, p, q, N, d, f, {"curr"})
    BY <1>4, <1>8, <1>13, <1>14, <1>15, <1>16 DEF Reshaped
<1>18. NodeInv(n, q, N, d)
    BY <1>8, <1>10, <1>11, <1>12, <1>13, <1>17, Reshape
<1> QED
    BY <1>8, <1>18 DEF q

-----------------------------------------------------------------------------
(* Data received, and the timer *)

\* The fields a data packet changes in the slot it names, before and after the
\* promotion, are none that a key or a counter depends on.
LEMMA ProcessDataInv ==
    ASSUME NEW n \in Nodes, NEW p \in Peers, NEW N \in SUBSET PacketType,
           NEW d \in Nat, NEW clock \in Nat, NEW slot \in Slots,
           NEW nonce \in Nat, NEW x \in Nat, NEW a \in Addrs,
           NodeInv(n, p, N, d), NetDrawn(N, d)
    PROVE  /\ ProcessData(p, slot, nonce, x, a, clock) \in Peers
           /\ NodeInv(n, ProcessData(p, slot, nonce, x, a, clock), N, d)
<1> DEFINE q == ProcessData(p, slot, nonce, x, a, clock)
           touched == [p.kp EXCEPT ![slot].lastRx = clock]
           promoted == keypair_update(touched, slot)
           marked == [promoted[slot] EXCEPT !.window = wireguard_check_replay(@, nonce)]
           kp == IF x = 0 THEN promoted ELSE [promoted EXCEPT ![slot] = marked]
           f == [s \in Slots |-> IF slot # "next" THEN s
                                 ELSE IF s = "prev" THEN "curr" ELSE "next"]
<1>1. p.kp \in [Slots -> Keypairs]
    BY DEF Peers
<1>2. touched \in [Slots -> Keypairs]
      /\ \A s \in Slots : /\ touched[s].valid = p.kp[s].valid
                          /\ touched[s].counter = p.kp[s].counter
                          /\ touched[s].local = p.kp[s].local
                          /\ touched[s].remote = p.kp[s].remote
                          /\ KeyOf(touched[s]) = KeyOf(p.kp[s])
    <2>1. p.kp[slot] \in Keypairs
        BY <1>1
    <2> DEFINE k == [p.kp[slot] EXCEPT !.lastRx = clock]
    <2>2. k \in Keypairs
        BY <2>1 DEF Keypairs
    <2>3. /\ k.valid = p.kp[slot].valid /\ k.counter = p.kp[slot].counter
          /\ k.local = p.kp[slot].local /\ k.remote = p.kp[slot].remote
          /\ KeyOf(k) = KeyOf(p.kp[slot])
        BY <2>1 DEF Keypairs, KeyOf
    <2>4. touched = [p.kp EXCEPT ![slot] = k]
        OBVIOUS
    <2> HIDE DEF k, touched
    <2> QED
        BY <1>1, <2>2, <2>3, <2>4
<1> HIDE DEF touched
<1>3. promoted \in [Slots -> Keypairs]
    BY <1>2, EmptyType DEF keypair_update, Slots
<1>4. /\ slot # "next" => promoted = touched
      /\ slot = "next" => /\ promoted["prev"] = touched["curr"]
                          /\ promoted["curr"] = touched["next"]
                          /\ promoted["next"] = EmptyKeypair
    BY <1>2 DEF keypair_update, Slots
<1> HIDE DEF promoted
<1>5. kp \in [Slots -> Keypairs]
      /\ \A s \in Slots : /\ kp[s].valid = promoted[s].valid
                          /\ kp[s].counter = promoted[s].counter
                          /\ kp[s].local = promoted[s].local
                          /\ kp[s].remote = promoted[s].remote
                          /\ KeyOf(kp[s]) = KeyOf(promoted[s])
    <2>1. promoted[slot] \in Keypairs
        BY <1>3
    <2>2. wireguard_check_replay(promoted[slot].window, nonce) \in Windows
        BY <2>1, WindowType DEF Keypairs
    <2>3. marked \in Keypairs
        BY <2>1, <2>2 DEF Keypairs
    <2>4. /\ marked.valid = promoted[slot].valid
          /\ marked.counter = promoted[slot].counter
          /\ marked.local = promoted[slot].local
          /\ marked.remote = promoted[slot].remote
          /\ KeyOf(marked) = KeyOf(promoted[slot])
        BY <2>1 DEF Keypairs, KeyOf
    <2> HIDE DEF marked
    <2> QED
        BY <1>3, <2>3, <2>4
<1>6. PICK b \in BOOLEAN :
        q = [p EXCEPT !.addr = a, !.kp = kp, !.sendHandshake = b]
    <2> DEFINE b == p.sendHandshake
                    \/ /\ promoted[slot].initiator
                       /\ wireguard_expired(promoted[slot].born,
                              RejectAfterTime - KeepaliveInterval - RekeyTimeout,
                              clock)
    <2>1. b \in BOOLEAN
        OBVIOUS
    <2>2. q = [p EXCEPT !.addr = a, !.kp = kp, !.sendHandshake = b]
        BY DEF ProcessData, touched, promoted
    <2> QED
        BY <2>1, <2>2
<1> HIDE DEF q, kp
<1>7. q \in Peers /\ q.kp = kp /\ q.hs = p.hs
    BY <1>5, <1>6 DEF Peers
<1>8. f \in [Slots -> Slots]
    BY DEF Slots
<1>9. \A s \in Slots : q.kp[s].valid =>
        /\ KeyOf(q.kp[s]) = KeyOf(p.kp[f[s]])
        /\ p.kp[f[s]].valid
        /\ q.kp[s].counter = p.kp[f[s]].counter
        /\ slot = "next" => s # "next"
    <2>1. CASE slot # "next"
        BY <1>2, <1>4, <1>5, <1>7, <2>1
    <2>2. CASE slot = "next"
        <3>1. ~q.kp["next"].valid
            BY <1>4, <1>5, <1>7, <2>2 DEF EmptyKeypair
        <3>2. f["prev"] = "curr" /\ f["curr"] = "next"
            BY <2>2 DEF Slots
        <3> HIDE DEF f
        <3> QED
            BY <1>2, <1>4, <1>5, <1>7, <2>2, <3>1, <3>2 DEF Slots
    <2> QED
        BY <2>1, <2>2
<1>10. \A s, t \in Slots : s # t /\ q.kp[s].valid /\ q.kp[t].valid => f[s] # f[t]
    BY <1>9 DEF Slots
<1>11. PeerDrawn(q, d)
    <2>1. \A s \in Slots : \/ \E r \in Slots : /\ q.kp[s].local = p.kp[r].local
                                               /\ q.kp[s].remote = p.kp[r].remote
                           \/ q.kp[s].local = 0 /\ q.kp[s].remote = 0
        <3>1. CASE slot # "next"
            BY <1>2, <1>4, <1>5, <1>7, <3>1
        <3>2. CASE slot = "next"
            BY <1>2, <1>4, <1>5, <1>7, <3>2 DEF Slots, EmptyKeypair
        <3> QED
            BY <3>1, <3>2
    <2>2. 0 <= d
        OBVIOUS
    <2> QED
        BY <1>7, <2>1, <2>2 DEF NodeInv, PeerDrawn
<1> HIDE DEF f
<1>12. Reshaped(n, p, q, N, d, f, {})
    BY <1>7, <1>9, <1>10 DEF Reshaped
<1>13. {} \in SUBSET Slots /\ d <= d
    OBVIOUS
<1>14. NodeInv(n, q, N, d)
    BY <1>7, <1>8, <1>11, <1>12, <1>13, Reshape
<1> QED
    BY <1>7, <1>14 DEF q

\* The timer only drops sessions.
LEMMA PurgeInv ==
    ASSUME NEW n \in Nodes, NEW p \in Peers, NEW N \in SUBSET PacketType,
           NEW d \in Nat, NEW clock \in Nat,
           NodeInv(n, p, N, d), NetDrawn(N, d)
    PROVE  TmrPurge(p, clock) \in Peers /\ NodeInv(n, TmrPurge(p, clock), N, d)
<1> DEFINE q == TmrPurge(p, clock)
           r == IF should_reset_peer(p, clock)
                THEN [p EXCEPT !.kp = NoKeypairs, !.addr = ConnectAddr] ELSE p
<1>1. p.kp \in [Slots -> Keypairs] /\ "curr" \in Slots
    BY DEF Peers, Slots
<1>2. /\ r \in Peers /\ r.hs = p.hs
      /\ \A s \in Slots : r.kp[s] = p.kp[s] \/ r.kp[s] = EmptyKeypair
    BY <1>1, EmptyType, PeerAssumption DEF Peers, NoKeypairs
<1> HIDE DEF r
<1>3. q = IF should_destroy_current_keypair(r, clock)
          THEN [r EXCEPT !.kp = [@ EXCEPT !["curr"] = EmptyKeypair]] ELSE r
    BY DEF TmrPurge, r
<1>4. r.kp \in [Slots -> Keypairs]
    BY <1>2 DEF Peers
<1>5. [r.kp EXCEPT !["curr"] = EmptyKeypair] \in [Slots -> Keypairs]
      /\ \A s \in Slots : \/ [r.kp EXCEPT !["curr"] = EmptyKeypair][s] = r.kp[s]
                          \/ [r.kp EXCEPT !["curr"] = EmptyKeypair][s] = EmptyKeypair
    BY <1>1, <1>4, EmptyType
<1> HIDE DEF q
<1>6. /\ q \in Peers /\ q.hs = r.hs
      /\ \A s \in Slots : q.kp[s] = r.kp[s] \/ q.kp[s] = EmptyKeypair
    BY <1>2, <1>3, <1>5 DEF Peers
<1>7. \A s \in Slots : q.kp[s] = p.kp[s] \/ q.kp[s] = EmptyKeypair
    BY <1>2, <1>6
<1>8. NodeInv(n, q, N, d)
    BY <1>2, <1>6, <1>7, Dropped
<1> QED
    BY <1>6, <1>8 DEF q

-----------------------------------------------------------------------------
(* The actions *)

\* A step of node n that adds packets of its own leaves the others as they were.
LEMMA NodeStep ==
    ASSUME IInv, NEW n \in Nodes, NEW q \in Peers, NEW e \in Nat,
           NEW M \in SUBSET PacketType, draws <= e, net \subseteq M,
           \A m \in M \ net : m.from = n,
           NodeInv(n, q, M, e)
    PROVE  /\ [peer EXCEPT ![n] = q] \in [Nodes -> Peers]
           /\ \A o \in Nodes : NodeInv(o, [peer EXCEPT ![n] = q][o], M, e)
<1>1. peer \in [Nodes -> Peers] /\ draws \in Nat
    BY DEF IInv, TypeOK
<1>2. ASSUME NEW o \in Nodes, o # n
      PROVE  NodeInv(o, peer[o], M, e)
    <2>1. NodeInv(o, peer[o], net, draws)
        BY DEF IInv
    <2>2. Sent(o, M) = Sent(o, net)
        BY <1>2 DEF Sent
    <2>3. PeerDrawn(peer[o], e)
        <3>1. peer[o] \in Peers
            BY <1>1
        <3>2. /\ peer[o].hs.local \in Nat /\ peer[o].hs.remote \in Nat
              /\ \A s \in Slots : peer[o].kp[s].local \in Nat /\ peer[o].kp[s].remote \in Nat
            BY <3>1 DEF Peers, Handshakes, Keypairs
        <3> QED
            BY <1>1, <2>1, <3>2 DEF NodeInv, PeerDrawn
    <2> QED
        BY <2>1, <2>2, <2>3 DEF NodeInv, PendingUnused, CountersAhead, NoncesUnique
<1> QED
    BY <1>1, <1>2

\* More draws, and more packets whose numbers are drawn.
LEMMA NetDrawnMore ==
    ASSUME NEW N \in SUBSET PacketType, NEW d \in Nat, NEW e \in Nat, d <= e,
           NetDrawn(N, d)
    PROVE  NetDrawn(N, e)
<1> SUFFICES ASSUME NEW m \in N
             PROVE  /\ m.type \in {"init", "resp"} => m.sender <= e
                    /\ m.type = "resp" => m.receiver <= e
                    /\ m.type = "data" => m.key[1] <= e /\ m.key[2] <= e
    BY DEF NetDrawn
<1>1. /\ m.type \in {"init", "resp"} => m.sender <= d
      /\ m.type = "resp" => m.receiver <= d
      /\ m.type = "data" => m.key[1] <= d /\ m.key[2] <= d
    BY DEF NetDrawn
<1>2. CASE m.type = "init"
    BY <1>1, <1>2 DEF PacketType
<1>3. CASE m.type = "resp"
    BY <1>1, <1>3 DEF PacketType
<1>4. CASE m.type = "data"
    BY <1>1, <1>4 DEF PacketType
<1> QED
    BY <1>2, <1>3, <1>4 DEF PacketType

LEMMA InitHolds == Init => IInv
<1> SUFFICES ASSUME Init
             PROVE  IInv
    OBVIOUS
<1>1. PICK active \in [Nodes -> BOOLEAN] : peer = [n \in Nodes |-> NewPeer(active[n])]
    BY DEF Init
<1>2. \A n \in Nodes : NoncesUnique(n, net)
    BY DEF Init, NoncesUnique, Sent
<1>3. draws = 0 /\ net = {}
    BY DEF Init
<1>4. \A n \in Nodes : peer[n] \in Peers /\ NodeInv(n, peer[n], net, draws)
    BY <1>1, <1>2, <1>3, NewPeerInv
<1>5. TypeOK
    <2>1. peer \in [Nodes -> Peers]
        BY <1>1, <1>4
    <2> QED
        BY <2>1, TunnelAssumption DEF Init, TypeOK
<1> QED
    BY <1>3, <1>4, <1>5 DEF IInv, NetDrawn

LEMMA OutputStep ==
    ASSUME IInv, NEW n \in Nodes, Output(n)
    PROVE  IInv'
<1>1. PICK ok \in BOOLEAN :
        /\ peer' = [peer EXCEPT ![n] = wireguardif_output_to_peer(@, now, ok)]
        /\ IF Encrypts(peer[n], now) /\ ok
           THEN /\ net' = net \cup {DataPacket(n, peer[n], sent + 1)}
                /\ sent' = sent + 1
           ELSE UNCHANGED <<net, sent>>
    BY DEF Output
<1> DEFINE q == wireguardif_output_to_peer(peer[n], now, ok)
           x == sent + 1
<1>2. TypeOK /\ peer[n] \in Peers /\ now \in Nat /\ draws \in Nat
      /\ net \in SUBSET PacketType
    BY DEF IInv, TypeOK
<1>3. NodeInv(n, peer[n], net, draws) /\ NetDrawn(net, draws)
    BY DEF IInv
<1>4. x \in 0 .. MaxPayloads
    BY TunnelAssumption DEF Output, IInv, TypeOK
<1>5. q \in Peers
    BY <1>2, OutputType
<1>6. DataPacket(n, peer[n], x) \in PacketType /\ DataPacket(n, peer[n], x).from = n
    BY <1>2, <1>4, DataPacketType
<1> HIDE DEF x
<1>7. /\ NodeInv(n, q, net, draws)
      /\ Encrypts(peer[n], now) =>
            /\ NetDrawn(net \cup {DataPacket(n, peer[n], x)}, draws)
            /\ NodeInv(n, q, net \cup {DataPacket(n, peer[n], x)}, draws)
    BY <1>2, <1>3, <1>4, OutputInv
<1> HIDE DEF q
<1>8. /\ net' \in SUBSET PacketType /\ net \subseteq net'
      /\ \A m \in net' \ net : m.from = n
      /\ NodeInv(n, q, net', draws) /\ NetDrawn(net', draws)
      /\ sent' \in 0 .. MaxPayloads
    <2>1. CASE Encrypts(peer[n], now) /\ ok
        <3>1. net' = net \cup {DataPacket(n, peer[n], x)} /\ sent' = x
            BY <1>1, <2>1 DEF x
        <3> QED
            BY <1>2, <1>4, <1>6, <1>7, <2>1, <3>1
    <2>2. CASE ~(Encrypts(peer[n], now) /\ ok)
        <3>1. net' = net /\ sent' = sent
            BY <1>1, <2>2
        <3> QED
            BY <1>2, <1>3, <1>7, <3>1 DEF TypeOK
    <2> QED
        BY <2>1, <2>2
<1>9. peer' = [peer EXCEPT ![n] = q]
    BY <1>1 DEF q
<1>10. draws <= draws
    BY <1>2
<1>11. peer' \in [Nodes -> Peers] /\ \A o \in Nodes : NodeInv(o, peer'[o], net', draws)
    BY <1>2, <1>5, <1>8, <1>9, <1>10, NodeStep
<1>12. UNCHANGED <<now, draws, link, delivered, tmrDue, restarts, disconnected>>
    BY DEF Output
<1> QED
    BY <1>2, <1>8, <1>11, <1>12 DEF IInv, TypeOK

LEMMA TimerStep ==
    ASSUME IInv, NEW n \in Nodes, Timer(n)
    PROVE  IInv'
<1> DEFINE purged == TmrPurge(peer[n], now)
<1>1. PICK ok \in BOOLEAN :
        LET kept   == TmrKeepalive(purged, now, ok)
            alive  == should_send_keepalive(purged, now) /\ Encrypts(purged, now) /\ ok
            hello  == should_send_initiation(kept, now)
        IN  /\ hello => draws < MaxDraws
            /\ draws' = IF hello THEN draws + 1 ELSE draws
            /\ peer' = [peer EXCEPT ![n] =
                    IF hello THEN wireguard_start_handshake(kept, draws + 1, now) ELSE kept]
            /\ net' = net
                    \cup (IF alive THEN {DataPacket(n, purged, 0)} ELSE {})
                    \cup (IF hello THEN {InitPacket(n, draws + 1)} ELSE {})
            /\ link' = [link EXCEPT ![n] = LinkAfterTimer(@, kept)]
            /\ tmrDue' = tmrDue \ {n}
            /\ UNCHANGED <<now, sent, delivered, restarts, disconnected>>
    BY DEF Timer
<1> DEFINE kept   == TmrKeepalive(purged, now, ok)
           alive  == should_send_keepalive(purged, now) /\ Encrypts(purged, now) /\ ok
           hello  == should_send_initiation(kept, now)
           q == IF hello THEN wireguard_start_handshake(kept, draws + 1, now) ELSE kept
           M == net \cup (IF alive THEN {DataPacket(n, purged, 0)} ELSE {})
           H == IF hello THEN {InitPacket(n, draws + 1)} ELSE {}
           e == IF hello THEN draws + 1 ELSE draws
<1>2. TypeOK /\ peer[n] \in Peers /\ now \in Nat /\ draws \in Nat
      /\ net \in SUBSET PacketType /\ 0 \in 0 .. MaxPayloads
    BY TunnelAssumption DEF IInv, TypeOK
<1>3. NodeInv(n, peer[n], net, draws) /\ NetDrawn(net, draws)
    BY DEF IInv
<1>4. purged \in Peers /\ NodeInv(n, purged, net, draws)
    BY <1>2, <1>3, PurgeInv
<1>5. /\ draws' = e /\ peer' = [peer EXCEPT ![n] = q] /\ net' = M \cup H
      /\ link' = [link EXCEPT ![n] = LinkAfterTimer(@, kept)]
      /\ tmrDue' = tmrDue \ {n}
      /\ UNCHANGED <<now, sent, delivered, restarts, disconnected>>
    BY <1>1
<1> HIDE DEF purged
<1>6. kept \in Peers
    BY <1>2, <1>4, OutputType DEF TmrKeepalive
<1>7. DataPacket(n, purged, 0) \in PacketType /\ DataPacket(n, purged, 0).from = n
    BY <1>2, <1>4, DataPacketType
<1>8. NodeInv(n, kept, M, draws) /\ NetDrawn(M, draws)
    <2>1. CASE should_send_keepalive(purged, now)
        BY <1>2, <1>3, <1>4, <2>1, OutputInv DEF TmrKeepalive
    <2>2. CASE ~should_send_keepalive(purged, now)
        BY <1>3, <1>4, <2>2 DEF TmrKeepalive
    <2> QED
        BY <2>1, <2>2
<1>9. M \in SUBSET PacketType /\ net \subseteq M /\ \A m \in M \ net : m.from = n
    BY <1>2, <1>7
<1> HIDE DEF kept, alive, M
<1>10. /\ InitPacket(n, draws + 1) \in PacketType
       /\ InitPacket(n, draws + 1).from = n /\ InitPacket(n, draws + 1).type = "init"
       /\ InitPacket(n, draws + 1).sender = draws + 1
    BY <1>2 DEF InitPacket, PacketType
<1>11. /\ e \in Nat /\ draws <= e /\ q \in Peers
       /\ NodeInv(n, q, M, e) /\ NetDrawn(M, e)
    <2>1. CASE hello
        <3>1. e = draws + 1 /\ e \in Nat /\ draws <= e
            BY <1>2, <2>1
        <3>2. q = wireguard_start_handshake(kept, draws + 1, now)
            BY <2>1
        <3>3. q \in Peers /\ NodeInv(n, q, M, draws + 1)
            BY <1>2, <1>6, <1>8, <1>9, <3>2, StartHandshakeInv
        <3>4. NetDrawn(M, e)
            BY <1>2, <1>8, <1>9, <3>1, NetDrawnMore
        <3> QED
            BY <3>1, <3>3, <3>4
    <2>2. CASE ~hello
        BY <1>2, <1>6, <1>8, <2>2
    <2> QED
        BY <2>1, <2>2
<1>12. /\ M \cup H \in SUBSET PacketType /\ net \subseteq M \cup H
       /\ \A m \in (M \cup H) \ net : m.from = n
       /\ \A m \in H : m.type = "init" /\ m.sender = e
    BY <1>9, <1>10
<1> HIDE DEF hello, q, H, e
<1>13. NodeInv(n, q, M \cup H, e)
    BY <1>11, <1>12, OtherPackets
<1>14. NetDrawn(M \cup H, e)
    BY <1>11, <1>12 DEF NetDrawn
<1>15. peer' \in [Nodes -> Peers] /\ \A o \in Nodes : NodeInv(o, peer'[o], net', e)
    BY <1>5, <1>11, <1>12, <1>13, NodeStep
<1>16. link' \in [Nodes -> BOOLEAN]
    BY <1>2, <1>5 DEF TypeOK, LinkAfterTimer
<1> QED
    BY <1>2, <1>5, <1>11, <1>12, <1>14, <1>15, <1>16 DEF IInv, TypeOK

LEMMA ReceiveInitiationStep ==
    ASSUME IInv, NEW n \in Nodes, ReceiveInitiation(n)
    PROVE  IInv'
<1>1. PICK m \in InitPackets, a \in Addrs :
        /\ draws' = draws + 1
        /\ peer' = [peer EXCEPT ![n] = ProcessInitiation(@, m.sender, draws + 1, a, now)]
        /\ net' = net \cup {RespPacket(n, draws + 1, m.sender)}
        /\ disconnected' = disconnected \ {n}
        /\ UNCHANGED <<now, link, sent, delivered, tmrDue, restarts>>
    BY DEF ReceiveInitiation
<1> DEFINE q == ProcessInitiation(peer[n], m.sender, draws + 1, a, now)
           r == RespPacket(n, draws + 1, m.sender)
<1>2. TypeOK /\ peer[n] \in Peers /\ now \in Nat /\ draws \in Nat
      /\ net \in SUBSET PacketType
    BY DEF IInv, TypeOK
<1>3. NodeInv(n, peer[n], net, draws) /\ NetDrawn(net, draws)
    BY DEF IInv
<1>4. m \in net /\ m.type = "init" /\ m.sender \in Nat /\ m.sender <= draws
    BY <1>2, <1>3 DEF InitPackets, NetDrawn, PacketType
<1>5. q \in Peers /\ NodeInv(n, q, net, draws + 1)
    BY <1>2, <1>3, <1>4, ProcessInitiationInv
<1> HIDE DEF q
<1>6. /\ r \in PacketType /\ r.from = n /\ r.type = "resp"
      /\ r.sender = draws + 1 /\ r.receiver = m.sender
    BY <1>2, <1>4 DEF RespPacket, PacketType
<1> HIDE DEF r
<1>7. /\ draws + 1 \in Nat /\ draws <= draws + 1
      /\ net' = net \cup {r} /\ net' \in SUBSET PacketType /\ net \subseteq net'
      /\ \A b \in net' \ net : b.from = n
    BY <1>1, <1>2, <1>6 DEF r
<1>8. NodeInv(n, q, net', draws + 1)
    BY <1>5, <1>6, <1>7, OtherPackets
<1>9. NetDrawn(net', draws + 1)
    <2>1. NetDrawn(net, draws + 1)
        BY <1>2, <1>3, <1>7, NetDrawnMore
    <2>2. m.sender <= draws + 1 /\ draws + 1 <= draws + 1
        BY <1>2, <1>4
    <2> QED
        BY <1>6, <1>7, <2>1, <2>2 DEF NetDrawn
<1>10. peer' = [peer EXCEPT ![n] = q]
    BY <1>1 DEF q
<1>11. peer' \in [Nodes -> Peers] /\ \A o \in Nodes : NodeInv(o, peer'[o], net', draws + 1)
    BY <1>5, <1>7, <1>8, <1>10, NodeStep
<1> QED
    BY <1>1, <1>2, <1>7, <1>9, <1>11 DEF IInv, TypeOK

LEMMA ReceiveResponseStep ==
    ASSUME IInv, NEW n \in Nodes, ReceiveResponse(n)
    PROVE  IInv'
<1>1. PICK m \in RespPackets, a \in Addrs, ok \in BOOLEAN :
        LET started == ProcessResponse(peer[n], m.sender, a, now)
        IN  /\ AcceptsResponse(peer[n], m.receiver)
            /\ peer' = [peer EXCEPT ![n] = wireguardif_output_to_peer(started, now, ok)]
            /\ net' = IF Encrypts(started, now) /\ ok
                      THEN net \cup {DataPacket(n, started, 0)} ELSE net
            /\ link' = [link EXCEPT ![n] = TRUE]
            /\ UNCHANGED <<now, draws, sent, delivered, tmrDue, restarts, disconnected>>
    BY DEF ReceiveResponse
<1> DEFINE started == ProcessResponse(peer[n], m.sender, a, now)
           q == wireguardif_output_to_peer(started, now, ok)
           x == 0
<1>2. TypeOK /\ peer[n] \in Peers /\ now \in Nat /\ draws \in Nat
      /\ net \in SUBSET PacketType /\ x \in 0 .. MaxPayloads
    BY TunnelAssumption DEF IInv, TypeOK
<1>3. NodeInv(n, peer[n], net, draws) /\ NetDrawn(net, draws)
    BY DEF IInv
<1>4. m \in net /\ m.type = "resp" /\ m.sender \in Nat /\ m.sender <= draws
    BY <1>2, <1>3 DEF RespPackets, NetDrawn, PacketType
<1>5. peer[n].hs.valid /\ peer[n].hs.initiator
    BY <1>1 DEF AcceptsResponse
<1>6. started \in Peers /\ NodeInv(n, started, net, draws)
    BY <1>2, <1>3, <1>4, <1>5, ProcessResponseInv
<1>7. /\ peer' = [peer EXCEPT ![n] = q]
      /\ net' = IF Encrypts(started, now) /\ ok
                THEN net \cup {DataPacket(n, started, x)} ELSE net
      /\ link' = [link EXCEPT ![n] = TRUE]
      /\ UNCHANGED <<now, draws, sent, delivered, tmrDue, restarts, disconnected>>
    BY <1>1
<1> HIDE DEF started, x
<1>8. q \in Peers
    BY <1>2, <1>6, OutputType
<1>9. DataPacket(n, started, x) \in PacketType /\ DataPacket(n, started, x).from = n
    BY <1>2, <1>6, DataPacketType
<1>10. /\ NodeInv(n, q, net, draws)
       /\ Encrypts(started, now) =>
            /\ NetDrawn(net \cup {DataPacket(n, started, x)}, draws)
            /\ NodeInv(n, q, net \cup {DataPacket(n, started, x)}, draws)
    BY <1>2, <1>3, <1>6, OutputInv
<1> HIDE DEF q
<1>11. /\ net' \in SUBSET PacketType /\ net \subseteq net'
       /\ \A b \in net' \ net : b.from = n
       /\ NodeInv(n, q, net', draws) /\ NetDrawn(net', draws)
    <2>1. CASE Encrypts(started, now) /\ ok
        <3>1. net' = net \cup {DataPacket(n, started, x)}
            BY <1>7, <2>1
        <3> QED
            BY <1>2, <1>9, <1>10, <2>1, <3>1
    <2>2. CASE ~(Encrypts(started, now) /\ ok)
        <3>1. net' = net
            BY <1>7, <2>2
        <3> QED
            BY <1>2, <1>3, <1>10, <3>1
    <2> QED
        BY <2>1, <2>2
<1>12. draws <= draws
    BY <1>2
<1>13. peer' \in [Nodes -> Peers] /\ \A o \in Nodes : NodeInv(o, peer'[o], net', draws)
    BY <1>2, <1>7, <1>8, <1>11, <1>12, NodeStep
<1> QED
    BY <1>2, <1>7, <1>11, <1>13 DEF IInv, TypeOK

\* Steps that change the peer structure of n and send nothing.
LEMMA QuietStep ==
    ASSUME IInv, NEW n \in Nodes, NEW q \in Peers, NodeInv(n, q, net, draws),
           peer' = [peer EXCEPT ![n] = q], UNCHANGED <<net, draws>>
    PROVE  /\ peer' \in [Nodes -> Peers]
           /\ NetDrawn(net, draws)'
           /\ \A o \in Nodes : NodeInv(o, peer'[o], net', draws')
<1>1. draws \in Nat /\ draws <= draws /\ net \in SUBSET PacketType
      /\ net \subseteq net /\ \A m \in net \ net : m.from = n
    BY DEF IInv, TypeOK
<1>2. peer' \in [Nodes -> Peers] /\ \A o \in Nodes : NodeInv(o, peer'[o], net, draws)
    BY <1>1, NodeStep
<1> QED
    BY <1>2 DEF IInv

LEMMA SlotOfIndex ==
    ASSUME NEW kp, NEW idx
    PROVE  get_peer_keypair_for_idx(kp, idx) \in Slots
BY DEF get_peer_keypair_for_idx, Slots

LEMMA ReceiveDataStep ==
    ASSUME IInv, NEW n \in Nodes, ReceiveData(n)
    PROVE  IInv'
<1>1. PICK m \in DataPackets, a \in Addrs :
        LET p    == peer[n]
            slot == get_peer_keypair_for_idx(p.kp, m.receiver)
        IN  /\ peer' = [peer EXCEPT ![n] =
                    ProcessData(p, slot, m.counter, m.payload, a, now)]
            /\ delivered' = IF DeliversData(p, slot, m.counter, m.payload)
                            THEN [delivered EXCEPT ![n][m.payload] = @ + 1]
                            ELSE delivered
            /\ link' = [link EXCEPT ![n] = TRUE]
            /\ UNCHANGED <<now, draws, net, sent, tmrDue, restarts, disconnected>>
    BY DEF ReceiveData
<1> DEFINE slot == get_peer_keypair_for_idx(peer[n].kp, m.receiver)
           q == ProcessData(peer[n], slot, m.counter, m.payload, a, now)
<1>2. TypeOK /\ peer[n] \in Peers /\ now \in Nat /\ draws \in Nat
      /\ net \in SUBSET PacketType
    BY DEF IInv, TypeOK
<1>3. NodeInv(n, peer[n], net, draws) /\ NetDrawn(net, draws)
    BY DEF IInv
<1>4. m.counter \in Nat /\ m.payload \in Nat /\ m.payload \in 0 .. MaxPayloads
    BY <1>2 DEF DataPackets, PacketType
<1>5. slot \in Slots
    BY SlotOfIndex
<1>6. /\ peer' = [peer EXCEPT ![n] = q]
      /\ delivered' = IF DeliversData(peer[n], slot, m.counter, m.payload)
                      THEN [delivered EXCEPT ![n][m.payload] = @ + 1] ELSE delivered
      /\ link' = [link EXCEPT ![n] = TRUE]
      /\ UNCHANGED <<now, draws, net, sent, tmrDue, restarts, disconnected>>
    BY <1>1
<1> HIDE DEF slot
<1>7. q \in Peers /\ NodeInv(n, q, net, draws)
    BY <1>2, <1>3, <1>4, <1>5, ProcessDataInv
<1> HIDE DEF q
<1>8. /\ peer' \in [Nodes -> Peers]
      /\ NetDrawn(net, draws)'
      /\ \A o \in Nodes : NodeInv(o, peer'[o], net', draws')
    BY <1>6, <1>7, QuietStep
<1>9. delivered' \in [Nodes -> [Payloads -> Nat]]
    <2>1. delivered \in [Nodes -> [Payloads -> Nat]]
        BY <1>2 DEF TypeOK
    <2>2. CASE DeliversData(peer[n], slot, m.counter, m.payload)
        <3>1. m.payload \in Payloads
            BY <1>4, <2>2, TunnelAssumption DEF DeliversData, Payloads
        <3> QED
            BY <1>6, <2>1, <2>2, <3>1
    <2> QED
        BY <1>6, <2>1, <2>2
<1> QED
    BY <1>2, <1>6, <1>8, <1>9 DEF IInv, TypeOK

LEMMA ReceiveStaleStep ==
    ASSUME IInv, NEW n \in Nodes, ReceiveStale(n)
    PROVE  IInv'
<1>1. PICK m \in DataPackets :
        /\ peer' = [peer EXCEPT
                ![n].kp[get_peer_keypair_for_idx(peer[n].kp, m.receiver)] = EmptyKeypair]
        /\ UNCHANGED <<now, draws, link, net, sent, delivered, tmrDue, restarts, disconnected>>
    BY DEF ReceiveStale
<1> DEFINE slot == get_peer_keypair_for_idx(peer[n].kp, m.receiver)
           q == [peer[n] EXCEPT !.kp = [@ EXCEPT ![slot] = EmptyKeypair]]
<1>2. TypeOK /\ peer[n] \in Peers /\ draws \in Nat /\ net \in SUBSET PacketType
    BY DEF IInv, TypeOK
<1>3. NodeInv(n, peer[n], net, draws) /\ NetDrawn(net, draws)
    BY DEF IInv
<1>4. slot \in Slots
    BY SlotOfIndex
<1>5. peer' = [peer EXCEPT ![n] = q]
    BY <1>1
<1> HIDE DEF slot
<1>6. /\ q \in Peers /\ q.hs = peer[n].hs
      /\ \A s \in Slots : q.kp[s] = peer[n].kp[s] \/ q.kp[s] = EmptyKeypair
    <2>1. peer[n].kp \in [Slots -> Keypairs]
        BY <1>2 DEF Peers
    <2>2. [peer[n].kp EXCEPT ![slot] = EmptyKeypair] \in [Slots -> Keypairs]
        BY <2>1, EmptyType
    <2> QED
        BY <1>2, <1>4, <2>1, <2>2 DEF Peers
<1> HIDE DEF q
<1>7. NodeInv(n, q, net, draws)
    BY <1>2, <1>3, <1>6, Dropped
<1>8. /\ peer' \in [Nodes -> Peers]
      /\ NetDrawn(net, draws)'
      /\ \A o \in Nodes : NodeInv(o, peer'[o], net', draws')
    BY <1>1, <1>5, <1>6, <1>7, QuietStep
<1> QED
    BY <1>1, <1>2, <1>8 DEF IInv, TypeOK

LEMMA ConnectStep ==
    ASSUME IInv, NEW n \in Nodes, Connect(n)
    PROVE  IInv'
<1> DEFINE q == [peer[n] EXCEPT !.active = TRUE, !.addr = ConnectAddr]
<1>1. TypeOK /\ peer[n] \in Peers /\ draws \in Nat /\ net \in SUBSET PacketType
      /\ peer \in [Nodes -> Peers]
    BY DEF IInv, TypeOK
<1>2. NodeInv(n, peer[n], net, draws) /\ NetDrawn(net, draws)
    BY DEF IInv
<1>3. peer' = [peer EXCEPT ![n] = q]
    BY <1>1 DEF Connect
<1>4. q \in Peers /\ q.hs = peer[n].hs /\ q.kp = peer[n].kp
    BY <1>1, PeerAssumption DEF Peers
<1> HIDE DEF q
<1>5. NodeInv(n, q, net, draws)
    BY <1>1, <1>2, <1>4, Dropped
<1>6. UNCHANGED <<net, draws>>
    BY DEF Connect
<1>7. /\ peer' \in [Nodes -> Peers]
      /\ NetDrawn(net, draws)'
      /\ \A o \in Nodes : NodeInv(o, peer'[o], net', draws')
    BY <1>3, <1>4, <1>5, <1>6, QuietStep
<1> QED
    BY <1>1, <1>7 DEF IInv, TypeOK, Connect

LEMMA DisconnectStep ==
    ASSUME IInv, NEW n \in Nodes, Disconnect(n)
    PROVE  IInv'
<1> DEFINE q == [peer[n] EXCEPT !.active = FALSE, !.kp = NoKeypairs]
<1>1. TypeOK /\ peer[n] \in Peers /\ draws \in Nat /\ net \in SUBSET PacketType
      /\ peer \in [Nodes -> Peers]
    BY DEF IInv, TypeOK
<1>2. NodeInv(n, peer[n], net, draws) /\ NetDrawn(net, draws)
    BY DEF IInv
<1>3. peer' = [peer EXCEPT ![n] = q]
    BY <1>1 DEF Disconnect
<1>4. q \in Peers /\ q.hs = peer[n].hs /\ \A s \in Slots : q.kp[s] = EmptyKeypair
    BY <1>1, EmptyType DEF Peers, NoKeypairs
<1> HIDE DEF q
<1>5. NodeInv(n, q, net, draws)
    BY <1>1, <1>2, <1>4, Dropped
<1>6. UNCHANGED <<net, draws>>
    BY DEF Disconnect
<1>7. /\ peer' \in [Nodes -> Peers]
      /\ NetDrawn(net, draws)'
      /\ \A o \in Nodes : NodeInv(o, peer'[o], net', draws')
    BY <1>3, <1>4, <1>5, <1>6, QuietStep
<1> QED
    BY <1>1, <1>7 DEF IInv, TypeOK, Disconnect

LEMMA RestartStep ==
    ASSUME IInv, NEW n \in Nodes, Restart(n)
    PROVE  IInv'
<1> DEFINE q == NewPeer(peer[n].active)
<1>1. TypeOK /\ peer[n] \in Peers /\ draws \in Nat
    BY DEF IInv, TypeOK
<1>2. NoncesUnique(n, net)
    BY DEF IInv, NodeInv
<1>3. peer[n].active \in BOOLEAN
    BY <1>1 DEF Peers
<1>4. q \in Peers /\ NodeInv(n, q, net, draws)
    BY <1>1, <1>2, <1>3, NewPeerInv
<1>5. peer' = [peer EXCEPT ![n] = q]
    BY DEF Restart
<1> HIDE DEF q
<1>6. UNCHANGED <<net, draws>>
    BY DEF Restart
<1>7. /\ peer' \in [Nodes -> Peers]
      /\ NetDrawn(net, draws)'
      /\ \A o \in Nodes : NodeInv(o, peer'[o], net', draws')
    BY <1>4, <1>5, <1>6, QuietStep
<1> QED
    BY <1>1, <1>7 DEF IInv, TypeOK, Restart

-----------------------------------------------------------------------------
(* The theorems *)

\* Every step keeps the invariant.
LEMMA Inductive == IInv /\ [Next]_vars => IInv'
<1> SUFFICES ASSUME IInv, [Next]_vars
             PROVE  IInv'
    OBVIOUS
<1>1. CASE UNCHANGED vars
    BY <1>1 DEF IInv, TypeOK, vars
<1>2. CASE Tick
    BY <1>2 DEF IInv, TypeOK, Tick
<1>3. CASE \E n \in Nodes :
            \/ Output(n) \/ Timer(n)
            \/ ReceiveInitiation(n) \/ ReceiveResponse(n)
            \/ ReceiveData(n) \/ ReceiveStale(n)
            \/ Connect(n) \/ Disconnect(n) \/ Restart(n)
    BY <1>3, OutputStep, TimerStep, ReceiveInitiationStep, ReceiveResponseStep,
       ReceiveDataStep, ReceiveStaleStep, ConnectStep, DisconnectStep, RestartStep
<1> QED
    BY <1>1, <1>2, <1>3 DEF Next

\* IInv holds in every reachable state of every instance.
THEOREM TunnelInvariant == Spec => []IInv
<1>1. IInv /\ [Next]_vars => IInv'
    BY Inductive
<1> QED
    BY InitHolds, <1>1, PTL DEF Spec

\* The peer structures, packets and counters of WgTunnel keep their types.
THEOREM TunnelTypeCorrect == Spec => []TypeOK
<1>1. IInv => TypeOK
    BY DEF IInv
<1> QED
    BY TunnelInvariant, <1>1, PTL

\* wireguard_encrypt_packet never uses a key and a counter twice: across slots,
\* rekeying, disconnects and restarts, whatever the bounds.
THEOREM NoNonceReuse == Spec => []NonceNeverReused
<1>1. IInv => NonceNeverReused
    <2> SUFFICES ASSUME IInv, NEW a \in DataPackets
                 PROVE  /\ \A s \in Slots :
                            LET k == peer[a.from].kp[s]
                            IN  k.valid /\ KeyOf(k) = a.key => a.counter < k.counter
                        /\ \A b \in DataPackets :
                            a.from = b.from /\ a.key = b.key /\ a.counter = b.counter
                                => a = b
        BY DEF NonceNeverReused
    <2>1. a.from \in Nodes
        BY DEF IInv, TypeOK, DataPackets, PacketType
    <2>2. NodeInv(a.from, peer[a.from], net, draws)
        BY <2>1 DEF IInv
    <2>3. a \in Sent(a.from, net)
        BY DEF DataPackets, Sent
    <2> QED
        BY <2>2, <2>3 DEF NodeInv, CountersAhead, NoncesUnique, DataPackets, Sent
<1> QED
    BY TunnelInvariant, <1>1, PTL
=============================================================================
