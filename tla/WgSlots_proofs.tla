--------------------------- MODULE WgSlots_proofs ---------------------------
(***************************************************************************)
(* More proofs about WgTunnel.  The three keypair slots of a peer hold     *)
(* three different sessions, and the current one is confirmed: facts about *)
(* one peer structure at a time.  Then, from what each call leaves of the  *)
(* sessions: the link is up while there is one, a responder waits for the  *)
(* initiator, an initiation has one answer, rekeying cuts no session, and  *)
(* one packet of a session at most is delivered twice.                     *)
(***************************************************************************)
EXTENDS WgTunnel_proofs, FiniteSetTheorems

\* A session has its index from the handshake that started it, so the indices of
\* the sessions and of the handshake under way must differ, and a new draw must
\* differ from all of them.
SlotsInv(p, d) ==
    /\ \A s, t \in Slots :
        s # t /\ p.kp[s].valid /\ p.kp[t].valid => p.kp[s].local # p.kp[t].local
    /\ \A s \in Slots : p.kp[s].valid => p.kp[s].local <= d
    /\ p.hs.valid => /\ p.hs.local <= d
                     /\ \A s \in Slots : p.kp[s].valid => p.kp[s].local # p.hs.local
    /\ p.kp["curr"].valid /\ ~p.kp["curr"].initiator => p.kp["curr"].lastRx # 0

SInv == now >= 1 /\ \A n \in Nodes : SlotsInv(peer[n], draws)

LEMMA SlotsTypes ==
    ASSUME NEW p \in Peers
    PROVE  /\ p.kp \in [Slots -> Keypairs] /\ p.hs \in Handshakes
           /\ \A s \in Slots : p.kp[s] \in Keypairs /\ p.kp[s].local \in Nat
           /\ p.hs.local \in Nat
           /\ Slots = {"curr", "prev", "next"}
  BY DEF Peers, Handshakes, Keypairs, Slots

\* Sessions stay where they are or go; the handshake stays.
LEMMA SlotsDropped ==
    ASSUME NEW p \in Peers, NEW q, NEW d \in Nat, SlotsInv(p, d), q.hs = p.hs,
           \A s \in Slots : q.kp[s].valid =>
               /\ p.kp[s].valid /\ q.kp[s].local = p.kp[s].local
               /\ q.kp[s].initiator = p.kp[s].initiator
               /\ q.kp[s].lastRx = p.kp[s].lastRx
    PROVE  SlotsInv(q, d)
  BY DEF SlotsInv, Slots

\* More draws.
LEMMA SlotsMore ==
    ASSUME NEW p \in Peers, NEW d \in Nat, NEW e \in Nat, d <= e, SlotsInv(p, d)
    PROVE  SlotsInv(p, e)
  BY SlotsTypes DEF SlotsInv

LEMMA OutputSlots ==
    ASSUME NEW p \in Peers, NEW d \in Nat, NEW clock \in Nat, NEW ok \in BOOLEAN,
           SlotsInv(p, d)
    PROVE  SlotsInv(wireguardif_output_to_peer(p, clock, ok), d)
<1> DEFINE s == SendSlot(p.kp)
           q == wireguardif_output_to_peer(p, clock, ok)
<1>1. s \in Slots /\ p.kp \in [Slots -> Keypairs] /\ p.kp[s] \in Keypairs
  BY OutputType, SlotsTypes
<1>2. CASE Encrypts(p, clock)
  <2> DEFINE k == [p.kp[s] EXCEPT !.counter = @ + 1]
  <2>1. /\ k.local = p.kp[s].local /\ k.initiator = p.kp[s].initiator
        /\ k.lastRx = p.kp[s].lastRx /\ k.valid = p.kp[s].valid
    BY <1>1 DEF Keypairs
  <2> HIDE DEF k
  <2>2. q.kp = [p.kp EXCEPT ![s] = k] /\ q.hs = p.hs
    BY <1>2 DEF wireguardif_output_to_peer, Peers, k
  <2> HIDE DEF s, q
  <2>3. \A t \in Slots : /\ q.kp[t].valid = p.kp[t].valid
                         /\ q.kp[t].local = p.kp[t].local
                         /\ q.kp[t].initiator = p.kp[t].initiator
                         /\ q.kp[t].lastRx = p.kp[t].lastRx
    BY <1>1, <2>1, <2>2
  <2>4. SlotsInv(q, d)
    BY <2>2, <2>3 DEF SlotsInv, Slots
  <2> QED
    BY <2>4 DEF q
<1>3. CASE ~Encrypts(p, clock) /\ HasKey(p.kp[s])
  <2>1. q.kp = [p.kp EXCEPT ![s] = EmptyKeypair] /\ q.hs = p.hs
    BY <1>3 DEF wireguardif_output_to_peer, Peers
  <2>2. ~EmptyKeypair.valid
    BY DEF EmptyKeypair
  <2> HIDE DEF s, q
  <2>3. \A t \in Slots : q.kp[t] = p.kp[t] \/ q.kp[t] = EmptyKeypair
    BY <1>1, <2>1
  <2>4. SlotsInv(q, d)
    BY <2>1, <2>2, <2>3 DEF SlotsInv, Slots
  <2> QED
    BY <2>4 DEF q
<1>4. CASE ~Encrypts(p, clock) /\ ~HasKey(p.kp[s])
  BY <1>4 DEF wireguardif_output_to_peer
<1> QED
  BY <1>2, <1>3, <1>4

LEMMA PurgeSlots ==
    ASSUME NEW p \in Peers, NEW d \in Nat, NEW clock \in Nat, SlotsInv(p, d)
    PROVE  SlotsInv(TmrPurge(p, clock), d)
<1> DEFINE q == TmrPurge(p, clock)
<1>1. \A s \in Slots : q.kp[s] = p.kp[s] \/ q.kp[s] = EmptyKeypair
  BY SlotsTypes DEF TmrPurge, NoKeypairs, Peers
<1>2. q.hs = p.hs
  BY DEF TmrPurge, Peers
<1>3. ~EmptyKeypair.valid
  BY DEF EmptyKeypair
<1> HIDE DEF q
<1> QED
  BY <1>1, <1>2, <1>3, SlotsDropped DEF q

LEMMA StartHandshakeSlots ==
    ASSUME NEW p \in Peers, NEW d \in Nat, NEW clock \in Nat, SlotsInv(p, d)
    PROVE  SlotsInv(wireguard_start_handshake(p, d + 1, clock), d + 1)
<1> DEFINE q == wireguard_start_handshake(p, d + 1, clock)
<1>1. q.kp = p.kp /\ q.hs.local = d + 1
  BY SlotsTypes DEF wireguard_start_handshake, Peers, Handshakes
<1>2. \A s \in Slots : p.kp[s].valid => p.kp[s].local # d + 1 /\ p.kp[s].local <= d + 1
  BY SlotsTypes DEF SlotsInv
<1> HIDE DEF q
<1> QED
  BY <1>1, <1>2 DEF SlotsInv, q

\* The responder's new session has the new draw as its index; "prev" goes.
LEMMA ProcessInitiationSlots ==
    ASSUME NEW p \in Peers, NEW d \in Nat, NEW clock \in Nat, NEW sender \in Nat,
           NEW a \in Addrs, SlotsInv(p, d)
    PROVE  SlotsInv(ProcessInitiation(p, sender, d + 1, a, clock), d + 1)
<1> DEFINE q == ProcessInitiation(p, sender, d + 1, a, clock)
           r == [p EXCEPT !.greatest = sender, !.addr = a,
                          !.hs = [valid |-> TRUE, initiator |-> FALSE,
                                  local |-> d + 1, remote |-> sender]]
           new == [valid |-> TRUE, initiator |-> FALSE, born |-> clock,
                   counter |-> 0, lastRx |-> 0, window |-> FreshWindow,
                   local |-> d + 1, remote |-> sender]
<1>1. r \in Peers /\ r.kp = p.kp /\ r.hs.local = d + 1 /\ r.hs.remote = sender
  <2> DEFINE h == [valid |-> TRUE, initiator |-> FALSE, local |-> d + 1, remote |-> sender]
  <2>1. h \in Handshakes /\ h.local = d + 1 /\ h.remote = sender
    BY DEF Handshakes
  <2> HIDE DEF h
  <2> QED
    BY <2>1 DEF Peers, h
<1>2. q = wireguard_start_session(r, FALSE, clock)
  BY DEF ProcessInitiation
<1> HIDE DEF r, q
<1>3. ~q.hs.valid /\ q.kp = add_new_keypair(p.kp, new)
  BY <1>1, <1>2 DEF wireguard_start_session, Peers, Handshakes
<1>4. ~new.initiator /\ new.local = d + 1
  OBVIOUS
<1> HIDE DEF new
<1>5. q.kp["next"] = new /\ ~q.kp["prev"].valid /\ q.kp["curr"] = p.kp["curr"]
  BY <1>3, <1>4, SlotsTypes DEF add_new_keypair, EmptyKeypair
<1>6. p.kp["curr"].local \in Nat /\ (p.kp["curr"].valid => p.kp["curr"].local <= d)
  BY SlotsTypes DEF SlotsInv
<1> QED
  BY <1>3, <1>4, <1>5, <1>6, SlotsTypes DEF SlotsInv, q

\* The initiator's new session has the index of its handshake.
LEMMA ProcessResponseSlots ==
    ASSUME NEW p \in Peers, NEW d \in Nat, NEW clock \in Nat, NEW sender \in Nat,
           NEW a \in Addrs, p.hs.valid, SlotsInv(p, d)
    PROVE  SlotsInv(ProcessResponse(p, sender, a, clock), d)
<1> DEFINE q == ProcessResponse(p, sender, a, clock)
           r == [p EXCEPT !.addr = a, !.hs = [@ EXCEPT !.remote = sender]]
           new == [valid |-> TRUE, initiator |-> TRUE, born |-> clock,
                   counter |-> 0, lastRx |-> 0, window |-> FreshWindow,
                   local |-> p.hs.local, remote |-> sender]
<1>1. r \in Peers /\ r.kp = p.kp /\ r.hs.local = p.hs.local /\ r.hs.remote = sender
  <2> DEFINE h == [p.hs EXCEPT !.remote = sender]
  <2>1. h \in Handshakes /\ h.local = p.hs.local /\ h.remote = sender
    BY SlotsTypes DEF Handshakes
  <2> HIDE DEF h
  <2> QED
    BY <2>1 DEF Peers, h
<1>2. q = wireguard_start_session(r, TRUE, clock)
  BY DEF ProcessResponse
<1> HIDE DEF r, q
<1>3. ~q.hs.valid /\ q.kp = add_new_keypair(p.kp, new)
  BY <1>1, <1>2 DEF wireguard_start_session, Peers, Handshakes
<1>4. new.initiator /\ new.local = p.hs.local
  OBVIOUS
<1> HIDE DEF new
<1>5. /\ q.kp["curr"] = new /\ ~q.kp["next"].valid
      /\ q.kp["prev"] = IF p.kp["next"].valid THEN p.kp["next"] ELSE p.kp["curr"]
  BY <1>3, <1>4, SlotsTypes DEF add_new_keypair, EmptyKeypair
<1>6. PICK f \in Slots : q.kp["prev"] = p.kp[f]
  BY <1>5, SlotsTypes
<1> QED
  BY <1>3, <1>4, <1>5, <1>6, SlotsTypes DEF SlotsInv, q

\* The packet that promotes "next" is the one that confirms it.
LEMMA ProcessDataSlots ==
    ASSUME NEW p \in Peers, NEW d \in Nat, NEW clock \in Nat, clock >= 1,
           NEW slot \in Slots, NEW nonce \in Nat, NEW x \in Nat, NEW a \in Addrs,
           SlotsInv(p, d)
    PROVE  SlotsInv(ProcessData(p, slot, nonce, x, a, clock), d)
<1> DEFINE q == ProcessData(p, slot, nonce, x, a, clock)
           touched == [p.kp EXCEPT ![slot].lastRx = clock]
           promoted == keypair_update(touched, slot)
           marked == [promoted[slot] EXCEPT !.window = wireguard_check_replay(@, nonce)]
           kp == IF x = 0 THEN promoted ELSE [promoted EXCEPT ![slot] = marked]
<1>1. /\ touched \in [Slots -> Keypairs]
      /\ touched[slot].lastRx = clock
      /\ \A s \in Slots : /\ touched[s].valid = p.kp[s].valid
                          /\ touched[s].local = p.kp[s].local
                          /\ touched[s].initiator = p.kp[s].initiator
                          /\ s # slot => touched[s].lastRx = p.kp[s].lastRx
  <2> DEFINE k == [p.kp[slot] EXCEPT !.lastRx = clock]
  <2>1. /\ k \in Keypairs /\ k.lastRx = clock /\ k.valid = p.kp[slot].valid
        /\ k.local = p.kp[slot].local /\ k.initiator = p.kp[slot].initiator
    BY SlotsTypes DEF Keypairs
  <2>2. touched = [p.kp EXCEPT ![slot] = k]
    OBVIOUS
  <2> HIDE DEF k, touched
  <2> QED
    BY <2>1, <2>2, SlotsTypes
<1> HIDE DEF touched
<1>2. promoted \in [Slots -> Keypairs]
  BY <1>1, EmptyType, SlotsTypes DEF keypair_update
<1>3. /\ slot # "next" => promoted = touched
      /\ slot = "next" => /\ promoted["prev"] = touched["curr"]
                          /\ promoted["curr"] = touched["next"]
                          /\ ~promoted["next"].valid
  BY <1>1, SlotsTypes DEF keypair_update, EmptyKeypair
<1> HIDE DEF promoted
<1>4. \A s \in Slots : /\ kp[s].valid = promoted[s].valid
                       /\ kp[s].local = promoted[s].local
                       /\ kp[s].initiator = promoted[s].initiator
                       /\ kp[s].lastRx = promoted[s].lastRx
  <2>1. /\ marked.valid = promoted[slot].valid /\ marked.local = promoted[slot].local
        /\ marked.initiator = promoted[slot].initiator
        /\ marked.lastRx = promoted[slot].lastRx
    BY <1>2 DEF Keypairs
  <2> HIDE DEF marked
  <2> QED
    BY <1>2, <2>1
<1>5. q.kp = kp /\ q.hs = p.hs
  BY DEF ProcessData, Peers, touched, promoted
<1> HIDE DEF q, kp
<1>6. CASE slot # "next"
  <2>1. \A s \in Slots : /\ q.kp[s].valid = p.kp[s].valid
                         /\ q.kp[s].local = p.kp[s].local
                         /\ q.kp[s].initiator = p.kp[s].initiator
                         /\ s # slot => q.kp[s].lastRx = p.kp[s].lastRx
    BY <1>1, <1>3, <1>4, <1>5, <1>6
  <2>2. slot = "curr" => q.kp["curr"].lastRx # 0
    BY <1>1, <1>3, <1>4, <1>5, <1>6
  <2> QED
    BY <1>5, <2>1, <2>2, SlotsTypes DEF SlotsInv, q
<1>7. CASE slot = "next"
  <2>1. /\ q.kp["prev"].valid = p.kp["curr"].valid
        /\ q.kp["prev"].local = p.kp["curr"].local
        /\ q.kp["curr"].valid = p.kp["next"].valid
        /\ q.kp["curr"].local = p.kp["next"].local
        /\ q.kp["curr"].lastRx # 0
        /\ ~q.kp["next"].valid
    BY <1>1, <1>3, <1>4, <1>5, <1>7, SlotsTypes
  <2> QED
    BY <1>5, <2>1, SlotsTypes DEF SlotsInv, q
<1> QED
  BY <1>6, <1>7

-----------------------------------------------------------------------------
(* The actions *)

LEMMA SlotsStep ==
    ASSUME SInv, IInv, NEW n \in Nodes, NEW q, peer' = [peer EXCEPT ![n] = q],
           draws' \in Nat, draws <= draws', now' = now, SlotsInv(q, draws')
    PROVE  SInv'
<1>1. peer \in [Nodes -> Peers] /\ draws \in Nat
  BY DEF IInv, TypeOK
<1>2. ASSUME NEW o \in Nodes, o # n
      PROVE  SlotsInv(peer[o], draws')
  BY <1>1, SlotsMore DEF SInv
<1>3. \A o \in Nodes : SlotsInv(peer'[o], draws')
  BY <1>1, <1>2
<1> QED
  BY <1>3 DEF SInv

LEMMA OutputKeepsSlots ==
    ASSUME SInv, IInv, NEW n \in Nodes, Output(n)
    PROVE  SInv'
<1>1. PICK ok \in BOOLEAN :
        peer' = [peer EXCEPT ![n] = wireguardif_output_to_peer(@, now, ok)]
  BY DEF Output
<1>2. draws' = draws /\ now' = now
  BY DEF Output
<1> DEFINE q == wireguardif_output_to_peer(peer[n], now, ok)
<1>3. peer[n] \in Peers /\ now \in Nat /\ draws \in Nat /\ draws <= draws
  BY DEF IInv, TypeOK
<1>4. SlotsInv(q, draws)
  BY <1>3, OutputSlots DEF SInv
<1>5. peer' = [peer EXCEPT ![n] = q]
  BY <1>1
<1> HIDE DEF q
<1> QED
  BY <1>2, <1>3, <1>4, <1>5, SlotsStep

LEMMA TimerKeepsSlots ==
    ASSUME SInv, IInv, NEW n \in Nodes, Timer(n)
    PROVE  SInv'
<1> DEFINE purged == TmrPurge(peer[n], now)
<1>1. PICK ok \in BOOLEAN :
        LET kept  == TmrKeepalive(purged, now, ok)
            hello == should_send_initiation(kept, now)
        IN  /\ draws' = IF hello THEN draws + 1 ELSE draws
            /\ peer' = [peer EXCEPT ![n] =
                    IF hello THEN wireguard_start_handshake(kept, draws + 1, now) ELSE kept]
            /\ now' = now
  BY DEF Timer
<1> DEFINE kept  == TmrKeepalive(purged, now, ok)
           hello == should_send_initiation(kept, now)
           q == IF hello THEN wireguard_start_handshake(kept, draws + 1, now) ELSE kept
<1>2. /\ draws' = IF hello THEN draws + 1 ELSE draws
      /\ peer' = [peer EXCEPT ![n] = q] /\ now' = now
  BY <1>1
<1>3. /\ peer[n] \in Peers /\ now \in Nat /\ draws \in Nat /\ net \in SUBSET PacketType
      /\ NodeInv(n, peer[n], net, draws) /\ NetDrawn(net, draws)
      /\ SlotsInv(peer[n], draws)
  BY DEF IInv, TypeOK, SInv
<1>4. purged \in Peers /\ SlotsInv(purged, draws)
  BY <1>3, PurgeInv, PurgeSlots
<1> HIDE DEF purged
<1>5. kept \in Peers /\ SlotsInv(kept, draws)
  BY <1>3, <1>4, OutputType, OutputSlots DEF TmrKeepalive
<1> HIDE DEF kept, hello
<1>6. CASE hello
  <2>1. draws' = draws + 1 /\ draws' \in Nat /\ draws <= draws'
    BY <1>2, <1>3, <1>6
  <2>2. SlotsInv(q, draws')
    BY <1>3, <1>5, <1>6, <2>1, StartHandshakeSlots
  <2> HIDE DEF q
  <2> QED
    BY <1>2, <2>1, <2>2, SlotsStep
<1>7. CASE ~hello
  <2>1. draws' = draws /\ draws' \in Nat /\ draws <= draws'
    BY <1>2, <1>3, <1>7
  <2>2. SlotsInv(q, draws')
    BY <1>5, <1>7, <2>1
  <2> HIDE DEF q
  <2> QED
    BY <1>2, <2>1, <2>2, SlotsStep
<1> QED
  BY <1>6, <1>7

LEMMA InitiationKeepsSlots ==
    ASSUME SInv, IInv, NEW n \in Nodes, ReceiveInitiation(n)
    PROVE  SInv'
<1>1. PICK m \in InitPackets, a \in Addrs :
        /\ draws' = draws + 1
        /\ peer' = [peer EXCEPT ![n] = ProcessInitiation(@, m.sender, draws + 1, a, now)]
        /\ now' = now
  BY DEF ReceiveInitiation
<1> DEFINE q == ProcessInitiation(peer[n], m.sender, draws + 1, a, now)
<1>2. /\ peer[n] \in Peers /\ now \in Nat /\ draws \in Nat /\ net \subseteq PacketType
      /\ SlotsInv(peer[n], draws)
  BY DEF IInv, TypeOK, SInv
<1>3. m.sender \in Nat
  BY <1>2 DEF InitPackets, PacketType
<1>4. SlotsInv(q, draws + 1)
  BY <1>2, <1>3, ProcessInitiationSlots
<1>5. draws' \in Nat /\ draws <= draws' /\ peer' = [peer EXCEPT ![n] = q]
  BY <1>1, <1>2
<1> HIDE DEF q
<1> QED
  BY <1>1, <1>4, <1>5, SlotsStep

LEMMA ResponseKeepsSlots ==
    ASSUME SInv, IInv, NEW n \in Nodes, ReceiveResponse(n)
    PROVE  SInv'
<1>1. PICK m \in RespPackets, a \in Addrs, ok \in BOOLEAN :
        /\ AcceptsResponse(peer[n], m.receiver)
        /\ peer' = [peer EXCEPT ![n] = wireguardif_output_to_peer(
                        ProcessResponse(peer[n], m.sender, a, now), now, ok)]
        /\ UNCHANGED <<now, draws>>
  BY DEF ReceiveResponse
<1> DEFINE started == ProcessResponse(peer[n], m.sender, a, now)
           q == wireguardif_output_to_peer(started, now, ok)
<1>2. /\ peer[n] \in Peers /\ now \in Nat /\ draws \in Nat /\ net \in SUBSET PacketType
      /\ NodeInv(n, peer[n], net, draws) /\ NetDrawn(net, draws)
      /\ SlotsInv(peer[n], draws)
  BY DEF IInv, TypeOK, SInv
<1>3. m \in net /\ m.type = "resp" /\ m.sender \in Nat /\ m.sender <= draws
  BY <1>2 DEF RespPackets, NetDrawn, PacketType
<1>4. peer[n].hs.valid /\ peer[n].hs.initiator
  BY <1>1 DEF AcceptsResponse
<1>5. started \in Peers
  BY <1>2, <1>3, <1>4, ProcessResponseInv
<1>6. SlotsInv(started, draws)
  BY <1>2, <1>3, <1>4, ProcessResponseSlots
<1>7. peer' = [peer EXCEPT ![n] = q]
  BY <1>1
<1> HIDE DEF started
<1>8. SlotsInv(q, draws)
  BY <1>2, <1>5, <1>6, OutputSlots
<1>9. draws' = draws /\ draws' \in Nat /\ draws <= draws' /\ now' = now
  BY <1>1, <1>2
<1> HIDE DEF q
<1> QED
  BY <1>7, <1>8, <1>9, SlotsStep

LEMMA DataKeepsSlots ==
    ASSUME SInv, IInv, NEW n \in Nodes, ReceiveData(n)
    PROVE  SInv'
<1>1. PICK m \in DataPackets, a \in Addrs :
        /\ peer' = [peer EXCEPT ![n] =
                ProcessData(peer[n], get_peer_keypair_for_idx(peer[n].kp, m.receiver),
                            m.counter, m.payload, a, now)]
        /\ UNCHANGED <<now, draws>>
  BY DEF ReceiveData
<1> DEFINE slot == get_peer_keypair_for_idx(peer[n].kp, m.receiver)
           q == ProcessData(peer[n], slot, m.counter, m.payload, a, now)
<1>2. /\ peer[n] \in Peers /\ now \in Nat /\ now >= 1 /\ draws \in Nat
      /\ net \subseteq PacketType /\ SlotsInv(peer[n], draws)
  BY DEF IInv, TypeOK, SInv
<1>3. m.counter \in Nat /\ m.payload \in Nat
  BY <1>2 DEF DataPackets, PacketType
<1>4. slot \in Slots
  BY SlotOfIndex
<1>5. peer' = [peer EXCEPT ![n] = q]
  BY <1>1
<1> HIDE DEF slot
<1>6. SlotsInv(q, draws)
  BY <1>2, <1>3, <1>4, ProcessDataSlots
<1>7. draws' = draws /\ draws' \in Nat /\ draws <= draws' /\ now' = now
  BY <1>1, <1>2
<1> HIDE DEF q
<1> QED
  BY <1>5, <1>6, <1>7, SlotsStep

\* A stale session, a connect, a disconnect and a new device only take sessions
\* away.
LEMMA OthersKeepSlots ==
    ASSUME SInv, IInv, NEW n \in Nodes,
           ReceiveStale(n) \/ Connect(n) \/ Disconnect(n) \/ Restart(n)
    PROVE  SInv'
<1>1. /\ peer \in [Nodes -> Peers] /\ peer[n] \in Peers /\ draws \in Nat
      /\ SlotsInv(peer[n], draws) /\ peer[n].kp \in [Slots -> Keypairs]
  BY SlotsTypes DEF IInv, TypeOK, SInv
<1>2. draws' = draws /\ draws' \in Nat /\ draws <= draws' /\ now' = now
  BY <1>1 DEF ReceiveStale, Connect, Disconnect, Restart
<1>3. ~EmptyKeypair.valid
  BY DEF EmptyKeypair
<1>4. CASE ReceiveStale(n)
  <2>1. PICK m \in DataPackets : peer' = [peer EXCEPT
            ![n].kp[get_peer_keypair_for_idx(peer[n].kp, m.receiver)] = EmptyKeypair]
    BY <1>4 DEF ReceiveStale
  <2> DEFINE slot == get_peer_keypair_for_idx(peer[n].kp, m.receiver)
             q == [peer[n] EXCEPT !.kp = [@ EXCEPT ![slot] = EmptyKeypair]]
  <2>2. peer' = [peer EXCEPT ![n] = q]
    BY <2>1
  <2>3. slot \in Slots
    BY SlotOfIndex
  <2> HIDE DEF slot
  <2>4. q.hs = peer[n].hs /\ \A t \in Slots : q.kp[t] = peer[n].kp[t] \/ q.kp[t] = EmptyKeypair
    BY <1>1, <2>3 DEF Peers
  <2> HIDE DEF q
  <2>5. SlotsInv(q, draws)
    BY <1>1, <1>3, <2>4 DEF SlotsInv, Slots
  <2> QED
    BY <1>2, <2>2, <2>5, SlotsStep
<1>5. CASE Connect(n)
  <2> DEFINE q == [peer[n] EXCEPT !.active = TRUE, !.addr = ConnectAddr]
  <2>1. peer' = [peer EXCEPT ![n] = q]
    BY <1>1, <1>5 DEF Connect
  <2>2. q.hs = peer[n].hs /\ q.kp = peer[n].kp
    BY <1>1 DEF Peers
  <2> HIDE DEF q
  <2>3. SlotsInv(q, draws)
    BY <1>1, <2>2 DEF SlotsInv
  <2> QED
    BY <1>2, <2>1, <2>3, SlotsStep
<1>6. CASE Disconnect(n)
  <2> DEFINE q == [peer[n] EXCEPT !.active = FALSE, !.kp = NoKeypairs]
  <2>1. peer' = [peer EXCEPT ![n] = q]
    BY <1>1, <1>6 DEF Disconnect
  <2>2. q.hs = peer[n].hs /\ \A t \in Slots : q.kp[t] = EmptyKeypair
    BY <1>1 DEF Peers, NoKeypairs
  <2> HIDE DEF q
  <2>3. SlotsInv(q, draws)
    BY <1>1, <1>3, <2>2 DEF SlotsInv, Slots
  <2> QED
    BY <1>2, <2>1, <2>3, SlotsStep
<1>7. CASE Restart(n)
  <2> DEFINE q == NewPeer(peer[n].active)
  <2>1. peer' = [peer EXCEPT ![n] = q]
    BY <1>7 DEF Restart
  <2>2. ~q.hs.valid /\ \A t \in Slots : ~q.kp[t].valid
    BY <1>3 DEF NewPeer, NoKeypairs
  <2> HIDE DEF q
  <2>3. SlotsInv(q, draws)
    BY <2>2 DEF SlotsInv, Slots
  <2> QED
    BY <1>2, <2>1, <2>3, SlotsStep
<1> QED
  BY <1>4, <1>5, <1>6, <1>7

-----------------------------------------------------------------------------
(* The theorems *)

LEMMA SlotsInit == Init => SInv
<1> SUFFICES ASSUME Init
             PROVE  SInv
  OBVIOUS
<1>1. PICK active \in [Nodes -> BOOLEAN] : peer = [n \in Nodes |-> NewPeer(active[n])]
  BY DEF Init
<1>2. \A n \in Nodes : ~peer[n].hs.valid /\ \A t \in Slots : ~peer[n].kp[t].valid
  BY <1>1 DEF NewPeer, NoKeypairs, EmptyKeypair
<1> QED
  BY <1>2 DEF SInv, SlotsInv, Slots, Init

LEMMA SlotsInductive == SInv /\ IInv /\ [Next]_vars => SInv'
<1> SUFFICES ASSUME SInv, IInv, [Next]_vars
             PROVE  SInv'
  OBVIOUS
<1>1. CASE UNCHANGED vars
  BY <1>1 DEF SInv, vars
<1>2. CASE Tick
  BY <1>2 DEF SInv, IInv, TypeOK, Tick
<1>3. CASE \E n \in Nodes :
            \/ Output(n) \/ Timer(n)
            \/ ReceiveInitiation(n) \/ ReceiveResponse(n)
            \/ ReceiveData(n) \/ ReceiveStale(n)
            \/ Connect(n) \/ Disconnect(n) \/ Restart(n)
  BY <1>3, OutputKeepsSlots, TimerKeepsSlots, InitiationKeepsSlots,
     ResponseKeepsSlots, DataKeepsSlots, OthersKeepSlots
<1> QED
  BY <1>1, <1>2, <1>3 DEF Next

LEMMA SlotsInvariant == Spec => []SInv
<1>1. SInv /\ IInv /\ [Next]_vars => SInv'
  BY SlotsInductive
<1> QED
  BY SlotsInit, TunnelInvariant, <1>1, PTL DEF Spec

\* add_new_keypair and keypair_update never leave one session in two slots,
\* whatever the order of handshakes, data, timers and teardowns.
THEOREM SlotsApart == Spec => []OneSlotPerSession
<1>1. SInv => OneSlotPerSession
  BY DEF SInv, SlotsInv, OneSlotPerSession
<1> QED
  BY SlotsInvariant, <1>1, PTL

\* A responder's session becomes current only with a packet received under it.
THEOREM CurrentIsConfirmed == Spec => []CurrentConfirmed
<1>1. SInv => CurrentConfirmed
  BY DEF SInv, SlotsInv, CurrentConfirmed
<1> QED
  BY SlotsInvariant, <1>1, PTL

-----------------------------------------------------------------------------
(* What each call leaves of the sessions: for the properties of links, key *)
(* confirmation, answers and rekeying, which follow one by one below.      *)

\* A session as it was, its counter apart.
Like(j, k) ==
    /\ j.valid /\ j.local = k.local /\ j.remote = k.remote
    /\ j.initiator = k.initiator /\ j.lastRx = k.lastRx /\ j.window = k.window

\* No session is made or moved.
Keeps(p, q) ==
    /\ q.greatest = p.greatest
    /\ \A s \in Slots : q.kp[s].valid => Like(p.kp[s], q.kp[s])

\* A current session that is still good at that time stays current.
Stays(p, q, clock) ==
    p.kp["curr"].valid /\ Usable(p.kp["curr"], clock) => q.kp["curr"].valid

LEMMA LikeKeys == ASSUME NEW j, NEW k, Like(j, k) PROVE KeyOf(j) = KeyOf(k)
BY DEF Like, KeyOf

LEMMA KeepsSame == ASSUME NEW p, NEW q, q.greatest = p.greatest, q.kp = p.kp PROVE Keeps(p, q)
BY DEF Keeps, Like

LEMMA KeepsBoth == ASSUME NEW p, NEW q, NEW r, Keeps(p, q), Keeps(q, r) PROVE Keeps(p, r)
BY DEF Keeps, Like

LEMMA KeepsUp == ASSUME NEW p, NEW q, Keeps(p, q), peer_is_up(q) PROVE peer_is_up(p)
BY DEF Keeps, Like, peer_is_up, Slots

\* A call that sends never drops a good session: a current one has been confirmed,
\* so it is the one the call sends under.
LEMMA OutputKeeps ==
    ASSUME NEW p \in Peers, NEW clock \in Nat, NEW ok \in BOOLEAN
    PROVE  LET q == wireguardif_output_to_peer(p, clock, ok)
           IN  /\ Keeps(p, q)
               /\ \A d \in Nat : SlotsInv(p, d) => Stays(p, q, clock)
<1> DEFINE s == SendSlot(p.kp)
           q == wireguardif_output_to_peer(p, clock, ok)
<1>1. s \in Slots /\ p.kp \in [Slots -> Keypairs] /\ p.kp[s] \in Keypairs
  BY OutputType, SlotsTypes
<1>2. CASE Encrypts(p, clock)
  <2> DEFINE k == [p.kp[s] EXCEPT !.counter = @ + 1]
  <2>1. p.kp[s].valid /\ Like(p.kp[s], k) /\ k.valid
    BY <1>1, <1>2 DEF Keypairs, Encrypts, HasKey, Like
  <2> HIDE DEF k
  <2>2. q.kp = [p.kp EXCEPT ![s] = k] /\ q.greatest = p.greatest
    BY <1>2 DEF wireguardif_output_to_peer, Peers, k
  <2> HIDE DEF s, q
  <2>3. \A t \in Slots : q.kp[t] = p.kp[t] \/ (t = s /\ q.kp[t] = k)
    BY <1>1, <2>2
  <2>4. Keeps(p, q)
    BY <2>1, <2>2, <2>3 DEF Keeps, Like
  <2>5. Stays(p, q, clock)
    BY <2>1, <2>3 DEF Stays, Slots
  <2> QED
    BY <2>4, <2>5 DEF q
<1>3. CASE ~Encrypts(p, clock) /\ HasKey(p.kp[s])
  <2>1. q.kp = [p.kp EXCEPT ![s] = EmptyKeypair] /\ q.greatest = p.greatest
    BY <1>3 DEF wireguardif_output_to_peer, Peers
  <2>2. ~EmptyKeypair.valid
    BY DEF EmptyKeypair
  <2>3. ASSUME NEW d \in Nat, SlotsInv(p, d), p.kp["curr"].valid
        PROVE  s = "curr"
    BY <2>3 DEF SlotsInv, SendSlot
  <2>4. s = "curr" => ~Usable(p.kp["curr"], clock)
    BY <1>3 DEF Encrypts
  <2> HIDE DEF s, q
  <2>5. \A t \in Slots : q.kp[t] = p.kp[t] \/ q.kp[t] = EmptyKeypair
    BY <1>1, <2>1
  <2>6. Keeps(p, q)
    BY <2>1, <2>2, <2>5 DEF Keeps, Like
  <2>7. ASSUME NEW d \in Nat, SlotsInv(p, d)
        PROVE  Stays(p, q, clock)
    BY <2>3, <2>4, <2>7 DEF Stays
  <2> QED
    BY <2>6, <2>7 DEF q
<1>4. CASE ~Encrypts(p, clock) /\ ~HasKey(p.kp[s])
  <2>1. q = p
    BY <1>4 DEF wireguardif_output_to_peer
  <2> HIDE DEF q
  <2> QED
    BY <2>1, KeepsSame DEF Stays, q
<1> QED
  BY <1>2, <1>3, <1>4

LEMMA OutputElsewhere ==
    ASSUME NEW p \in Peers, NEW clock, NEW ok, NEW t \in Slots, t # SendSlot(p.kp)
    PROVE  wireguardif_output_to_peer(p, clock, ok).kp[t] = p.kp[t]
<1>1. p.kp \in [Slots -> Keypairs]
  BY SlotsTypes
<1> QED
  BY <1>1 DEF wireguardif_output_to_peer, Peers

LEMMA OutputHandshake ==
    ASSUME NEW p \in Peers, NEW clock, NEW ok
    PROVE  wireguardif_output_to_peer(p, clock, ok).hs = p.hs
  BY DEF wireguardif_output_to_peer, Peers

LEMMA PurgeKeeps ==
    ASSUME NEW p \in Peers, NEW clock \in Nat
    PROVE  LET q == TmrPurge(p, clock)
           IN  /\ Keeps(p, q)
               /\ p.kp["curr"].valid /\ Usable(p.kp["curr"], clock) =>
                      q.kp["curr"] = p.kp["curr"]
<1> DEFINE q == TmrPurge(p, clock)
<1>1. \A s \in Slots : q.kp[s] = p.kp[s] \/ q.kp[s] = EmptyKeypair
  BY SlotsTypes DEF TmrPurge, NoKeypairs, Peers
<1>2. q.greatest = p.greatest /\ ~EmptyKeypair.valid
  BY DEF TmrPurge, Peers, EmptyKeypair
<1>3. Keeps(p, q)
  <2> HIDE DEF q
  <2> QED
    BY <1>1, <1>2 DEF Keeps, Like
<1>4. ASSUME p.kp["curr"].valid, Usable(p.kp["curr"], clock)
      PROVE  q.kp["curr"] = p.kp["curr"]
  <2>1. ~should_reset_peer(p, clock)
    <3>1. p.kp["curr"].born \in Nat
      BY SlotsTypes DEF Keypairs
    <3> QED
      BY <1>4, <3>1, PeerAssumption DEF should_reset_peer, Usable, wireguard_expired
  <2>2. ~should_destroy_current_keypair(p, clock)
    BY <1>4 DEF should_destroy_current_keypair
  <2> QED
    BY <2>1, <2>2 DEF TmrPurge
<1> QED
  BY <1>3, <1>4

LEMMA StartHandshakeKeeps ==
    ASSUME NEW p \in Peers, NEW d, NEW clock
    PROVE  LET q == wireguard_start_handshake(p, d, clock)
           IN  q.kp = p.kp /\ q.greatest = p.greatest
BY DEF wireguard_start_handshake, Peers

\* The responder's session waits in "next", and "prev" goes.
LEMMA InitiationEffect ==
    ASSUME NEW p \in Peers, NEW d \in Nat, NEW clock \in Nat, NEW sender \in Nat, NEW a \in Addrs
    PROVE  LET q == ProcessInitiation(p, sender, d, a, clock)
           IN  /\ q.greatest = sender /\ q.kp["curr"] = p.kp["curr"] /\ ~q.kp["prev"].valid
               /\ q.kp["next"].local = d /\ q.kp["next"].remote = sender
               /\ ~q.kp["next"].initiator /\ q.kp["next"].lastRx = 0
               /\ q.kp["next"].window = FreshWindow /\ ~q.hs.valid
<1> DEFINE q == ProcessInitiation(p, sender, d, a, clock)
           r == [p EXCEPT !.greatest = sender, !.addr = a,
                          !.hs = [valid |-> TRUE, initiator |-> FALSE,
                                  local |-> d, remote |-> sender]]
           new == [valid |-> TRUE, initiator |-> FALSE, born |-> clock,
                   counter |-> 0, lastRx |-> 0, window |-> FreshWindow,
                   local |-> d, remote |-> sender]
<1>1. /\ r \in Peers /\ r.kp = p.kp /\ r.hs.local = d /\ r.hs.remote = sender
      /\ r.greatest = sender
  <2> DEFINE h == [valid |-> TRUE, initiator |-> FALSE, local |-> d, remote |-> sender]
  <2>1. h \in Handshakes /\ h.local = d /\ h.remote = sender
    BY DEF Handshakes
  <2> HIDE DEF h
  <2> QED
    BY <2>1 DEF Peers, h
<1>2. q = wireguard_start_session(r, FALSE, clock)
  BY DEF ProcessInitiation
<1> HIDE DEF r, q
<1>3. q.greatest = r.greatest /\ ~q.hs.valid /\ q.kp = add_new_keypair(p.kp, new)
  BY <1>1, <1>2 DEF wireguard_start_session, Peers, Handshakes
<1>4. /\ ~new.initiator /\ new.local = d /\ new.remote = sender /\ new.lastRx = 0
      /\ new.window = FreshWindow
  OBVIOUS
<1> HIDE DEF new
<1>5. q.kp["next"] = new /\ ~q.kp["prev"].valid /\ q.kp["curr"] = p.kp["curr"]
  BY <1>3, <1>4, SlotsTypes DEF add_new_keypair, EmptyKeypair
<1>6. q.greatest = sender /\ q.kp["curr"] = p.kp["curr"] /\ ~q.kp["prev"].valid
  BY <1>1, <1>3, <1>5
<1>7. /\ q.kp["next"].local = d /\ q.kp["next"].remote = sender
      /\ ~q.kp["next"].initiator /\ q.kp["next"].lastRx = 0
      /\ q.kp["next"].window = FreshWindow /\ ~q.hs.valid
  BY <1>3, <1>4, <1>5
<1> QED
  BY <1>6, <1>7 DEF q

\* The initiator's session is current at once; the one before, or else the one that
\* waited, is "prev".
LEMMA ResponseEffect ==
    ASSUME NEW p \in Peers, NEW clock \in Nat, NEW sender \in Nat, NEW a \in Addrs
    PROVE  LET q == ProcessResponse(p, sender, a, clock)
           IN  /\ q.greatest = p.greatest /\ ~q.kp["next"].valid
               /\ q.kp["prev"] = IF p.kp["next"].valid THEN p.kp["next"] ELSE p.kp["curr"]
               /\ q.kp["curr"].local = p.hs.local /\ q.kp["curr"].remote = sender
               /\ q.kp["curr"].initiator /\ q.kp["curr"].valid
               /\ q.kp["curr"].born = clock /\ q.kp["curr"].counter = 0
               /\ q.kp["curr"].window = FreshWindow /\ ~q.hs.valid
<1> DEFINE q == ProcessResponse(p, sender, a, clock)
           r == [p EXCEPT !.addr = a, !.hs = [@ EXCEPT !.remote = sender]]
           new == [valid |-> TRUE, initiator |-> TRUE, born |-> clock,
                   counter |-> 0, lastRx |-> 0, window |-> FreshWindow,
                   local |-> p.hs.local, remote |-> sender]
<1>1. /\ r \in Peers /\ r.kp = p.kp /\ r.hs.local = p.hs.local /\ r.hs.remote = sender
      /\ r.greatest = p.greatest
  <2> DEFINE h == [p.hs EXCEPT !.remote = sender]
  <2>1. h \in Handshakes /\ h.local = p.hs.local /\ h.remote = sender
    BY SlotsTypes DEF Handshakes
  <2> HIDE DEF h
  <2> QED
    BY <2>1 DEF Peers, h
<1>2. q = wireguard_start_session(r, TRUE, clock)
  BY DEF ProcessResponse
<1> HIDE DEF r, q
<1>3. q.greatest = r.greatest /\ ~q.hs.valid /\ q.kp = add_new_keypair(p.kp, new)
  BY <1>1, <1>2 DEF wireguard_start_session, Peers, Handshakes
<1>4. /\ new.initiator /\ new.local = p.hs.local /\ new.remote = sender /\ new.valid
      /\ new.born = clock /\ new.counter = 0 /\ new.window = FreshWindow
  OBVIOUS
<1> HIDE DEF new
<1>5. /\ q.kp["curr"] = new /\ ~q.kp["next"].valid
      /\ q.kp["prev"] = IF p.kp["next"].valid THEN p.kp["next"] ELSE p.kp["curr"]
  BY <1>3, <1>4, SlotsTypes DEF add_new_keypair, EmptyKeypair
<1>6. /\ q.kp["curr"].local = p.hs.local /\ q.kp["curr"].remote = sender
      /\ q.kp["curr"].initiator /\ q.kp["curr"].valid
      /\ q.kp["curr"].born = clock /\ q.kp["curr"].counter = 0
      /\ q.kp["curr"].window = FreshWindow
  BY <1>4, <1>5
<1> QED
  BY <1>1, <1>3, <1>5, <1>6 DEF q

\* Like, but for the time of the last packet.
Alike(j, k) ==
    j.valid = k.valid /\ j.local = k.local /\ j.remote = k.remote /\ j.initiator = k.initiator

LEMMA AlikeKeys == ASSUME NEW j, NEW k, Alike(j, k) PROVE KeyOf(j) = KeyOf(k)
BY DEF Alike, KeyOf

\* A data packet changes one session where it is, or promotes "next".
InPlace(p, q, slot, nonce, x) ==
    /\ \A s \in Slots : /\ Alike(p.kp[s], q.kp[s])
                        /\ s # slot => /\ q.kp[s].lastRx = p.kp[s].lastRx
                                       /\ q.kp[s].window = p.kp[s].window
    /\ q.kp[slot].window = IF x = 0 THEN p.kp[slot].window
                           ELSE wireguard_check_replay(p.kp[slot].window, nonce)

Promoted(p, q) ==
    /\ Alike(p.kp["curr"], q.kp["prev"]) /\ q.kp["prev"].lastRx = p.kp["curr"].lastRx
    /\ Alike(p.kp["next"], q.kp["curr"]) /\ ~q.kp["next"].valid
    /\ q.kp["prev"].window = p.kp["curr"].window
    /\ q.kp["curr"].window = p.kp["next"].window

LEMMA DataEffect ==
    ASSUME NEW p \in Peers, NEW clock \in Nat, NEW slot \in Slots, NEW nonce \in Nat,
           NEW x \in Nat, NEW a \in Addrs
    PROVE  LET q == ProcessData(p, slot, nonce, x, a, clock)
           IN  /\ q.greatest = p.greatest /\ q.hs = p.hs
               /\ slot # "next" => InPlace(p, q, slot, nonce, x)
               /\ slot = "next" => Promoted(p, q)
<1> DEFINE q == ProcessData(p, slot, nonce, x, a, clock)
           touched == [p.kp EXCEPT ![slot].lastRx = clock]
           promoted == keypair_update(touched, slot)
           marked == [promoted[slot] EXCEPT !.window = wireguard_check_replay(@, nonce)]
           kp == IF x = 0 THEN promoted ELSE [promoted EXCEPT ![slot] = marked]
<1>1. /\ touched \in [Slots -> Keypairs]
      /\ \A s \in Slots : /\ Alike(p.kp[s], touched[s])
                          /\ touched[s].window = p.kp[s].window
                          /\ s # slot => touched[s].lastRx = p.kp[s].lastRx
  <2> DEFINE k == [p.kp[slot] EXCEPT !.lastRx = clock]
  <2>1. k \in Keypairs /\ Alike(p.kp[slot], k) /\ k.window = p.kp[slot].window
    BY SlotsTypes DEF Keypairs, Alike
  <2>2. touched = [p.kp EXCEPT ![slot] = k]
    OBVIOUS
  <2> HIDE DEF k, touched
  <2>3. \A s \in Slots : touched[s] = IF s = slot THEN k ELSE p.kp[s]
    BY <2>2, SlotsTypes
  <2> QED
    BY <2>1, <2>2, <2>3, SlotsTypes DEF Alike
<1> HIDE DEF touched
<1>2. promoted \in [Slots -> Keypairs]
  BY <1>1, EmptyType, SlotsTypes DEF keypair_update
<1>3. /\ slot # "next" => promoted = touched
      /\ slot = "next" => /\ promoted["prev"] = touched["curr"]
                          /\ promoted["curr"] = touched["next"]
                          /\ ~promoted["next"].valid
  BY <1>1, SlotsTypes DEF keypair_update, EmptyKeypair
<1> HIDE DEF promoted
<1>4. /\ \A s \in Slots : /\ Alike(promoted[s], kp[s]) /\ kp[s].lastRx = promoted[s].lastRx
                          /\ s # slot => kp[s].window = promoted[s].window
      /\ kp[slot].window = IF x = 0 THEN promoted[slot].window
                           ELSE wireguard_check_replay(promoted[slot].window, nonce)
  <2>1. /\ Alike(promoted[slot], marked) /\ marked.lastRx = promoted[slot].lastRx
        /\ marked.window = wireguard_check_replay(promoted[slot].window, nonce)
    BY <1>2 DEF Keypairs, Alike
  <2> HIDE DEF marked
  <2>2. \A s \in Slots : kp[s] = IF s = slot /\ x # 0 THEN marked ELSE promoted[s]
    BY <1>2
  <2> HIDE DEF kp
  <2> QED
    BY <2>1, <2>2 DEF Alike
<1>5. q.kp = kp /\ q.greatest = p.greatest /\ q.hs = p.hs
  BY DEF ProcessData, Peers, touched, promoted
<1> HIDE DEF q, kp
<1>6. slot # "next" => InPlace(p, q, slot, nonce, x)
  BY <1>1, <1>3, <1>4, <1>5 DEF Alike, InPlace
<1>7. slot = "next" => Promoted(p, q)
  BY <1>1, <1>3, <1>4, <1>5 DEF Alike, Slots, Promoted
<1> QED
  BY <1>5, <1>6, <1>7 DEF q

-----------------------------------------------------------------------------
(* What each action leaves of the sessions *)

\* A data packet sent under a session the sender may send under.
Emitted(n, m, p) ==
    /\ m.type = "data" /\ m.from = n
    /\ \E s \in Slots : /\ p.kp[s].valid /\ HasKey(p.kp[s])
                        /\ m.key = KeyOf(p.kp[s]) /\ m.receiver = p.kp[s].remote

LEMMA EncryptsEmits ==
    ASSUME NEW n, NEW p \in Peers, NEW clock, NEW x, Encrypts(p, clock)
    PROVE  Emitted(n, DataPacket(n, p, x), p)
<1>1. SendSlot(p.kp) \in Slots /\ HasKey(p.kp[SendSlot(p.kp)])
  BY DEF SendSlot, Slots, Encrypts
<1>2. p.kp[SendSlot(p.kp)].valid
  BY <1>1 DEF HasKey
<1> QED
  BY <1>1, <1>2 DEF Emitted, DataPacket

LEMMA EmittedBefore ==
    ASSUME NEW n, NEW m, NEW p, NEW q, Keeps(p, q), Emitted(n, m, q)
    PROVE  Emitted(n, m, p)
<1>1. PICK s \in Slots : /\ q.kp[s].valid /\ HasKey(q.kp[s])
                         /\ m.key = KeyOf(q.kp[s]) /\ m.receiver = q.kp[s].remote
  BY DEF Emitted
<1>2. Like(p.kp[s], q.kp[s])
  BY <1>1 DEF Keeps
<1>3. p.kp[s].valid /\ HasKey(p.kp[s]) /\ m.key = KeyOf(p.kp[s]) /\ m.receiver = p.kp[s].remote
  BY <1>1, <1>2, LikeKeys DEF Like, HasKey
<1> QED
  BY <1>3 DEF Emitted

\* The actions that make no session and move none.
QuietStepOf(n) ==
    /\ Keeps(peer[n], peer'[n])
    /\ \A o \in Nodes : o # n => peer'[o] = peer[o] /\ link'[o] = link[o]
    /\ link'[n] = link[n] \/ (link'[n] = (link[n] /\ peer_is_up(peer'[n])))
    /\ UNCHANGED <<now, restarts, delivered>>
    /\ net \subseteq net'
    /\ \A m \in net' \ net : m.type = "init" \/ Emitted(n, m, peer[n])

LEMMA OutputQuiet ==
    ASSUME IInv, SInv, NEW n \in Nodes, Output(n)
    PROVE  QuietStepOf(n) /\ Stays(peer[n], peer'[n], now)
<1>1. PICK ok \in BOOLEAN :
        /\ peer' = [peer EXCEPT ![n] = wireguardif_output_to_peer(@, now, ok)]
        /\ \/ Encrypts(peer[n], now) /\ net' = net \cup {DataPacket(n, peer[n], sent + 1)}
           \/ net' = net
  BY DEF Output
<1>2. UNCHANGED <<now, restarts, link, delivered>>
  BY DEF Output
<1>3. /\ peer[n] \in Peers /\ peer \in [Nodes -> Peers] /\ now \in Nat /\ draws \in Nat
      /\ SlotsInv(peer[n], draws)
  BY DEF IInv, TypeOK, SInv
<1> DEFINE q == wireguardif_output_to_peer(peer[n], now, ok)
<1>4. Keeps(peer[n], q) /\ Stays(peer[n], q, now)
  BY <1>3, OutputKeeps
<1> HIDE DEF q
<1>5. peer'[n] = q /\ \A o \in Nodes : o # n => peer'[o] = peer[o]
  BY <1>1, <1>3 DEF q
<1>6. net \subseteq net' /\ \A m \in net' \ net : Emitted(n, m, peer[n])
  BY <1>1, <1>3, EncryptsEmits
<1> QED
  BY <1>2, <1>4, <1>5, <1>6 DEF QuietStepOf

LEMMA TimerQuiet ==
    ASSUME IInv, SInv, NEW n \in Nodes, Timer(n)
    PROVE  QuietStepOf(n) /\ Stays(peer[n], peer'[n], now)
<1> DEFINE purged == TmrPurge(peer[n], now)
<1>1. PICK ok \in BOOLEAN :
        LET kept   == TmrKeepalive(purged, now, ok)
            alive  == should_send_keepalive(purged, now) /\ Encrypts(purged, now) /\ ok
            hello  == should_send_initiation(kept, now)
        IN  /\ peer' = [peer EXCEPT ![n] =
                    IF hello THEN wireguard_start_handshake(kept, draws + 1, now) ELSE kept]
            /\ net' = net
                    \cup (IF alive THEN {DataPacket(n, purged, 0)} ELSE {})
                    \cup (IF hello THEN {InitPacket(n, draws + 1)} ELSE {})
            /\ link' = [link EXCEPT ![n] = LinkAfterTimer(@, kept)]
  BY DEF Timer
<1> DEFINE kept   == TmrKeepalive(purged, now, ok)
           alive  == should_send_keepalive(purged, now) /\ Encrypts(purged, now) /\ ok
           hello  == should_send_initiation(kept, now)
           q == IF hello THEN wireguard_start_handshake(kept, draws + 1, now) ELSE kept
<1>2. UNCHANGED <<now, restarts, delivered>>
  BY DEF Timer
<1>3. /\ peer[n] \in Peers /\ peer \in [Nodes -> Peers] /\ now \in Nat /\ draws \in Nat
      /\ net \in SUBSET PacketType /\ NodeInv(n, peer[n], net, draws) /\ NetDrawn(net, draws)
      /\ SlotsInv(peer[n], draws) /\ link \in [Nodes -> BOOLEAN]
  BY DEF IInv, TypeOK, SInv
<1>4. purged \in Peers /\ SlotsInv(purged, draws) /\ Keeps(peer[n], purged)
  BY <1>3, PurgeInv, PurgeSlots, PurgeKeeps
<1>5. peer[n].kp["curr"].valid /\ Usable(peer[n].kp["curr"], now) =>
        purged.kp["curr"] = peer[n].kp["curr"]
  BY <1>3, PurgeKeeps
<1>6. /\ peer' = [peer EXCEPT ![n] = q]
      /\ net' = net \cup (IF alive THEN {DataPacket(n, purged, 0)} ELSE {})
                    \cup (IF hello THEN {InitPacket(n, draws + 1)} ELSE {})
      /\ link' = [link EXCEPT ![n] = @ /\ peer_is_up(kept)]
  BY <1>1 DEF LinkAfterTimer
<1>7. alive => Emitted(n, DataPacket(n, purged, 0), peer[n])
  BY <1>4, EncryptsEmits, EmittedBefore
<1> HIDE DEF purged
<1>8. kept \in Peers /\ Keeps(purged, kept) /\ Stays(purged, kept, now)
  <2>1. kept = wireguardif_output_to_peer(purged, now, ok) \/ kept = purged
    BY DEF TmrKeepalive
  <2>2. Keeps(purged, purged) /\ Stays(purged, purged, now)
    BY KeepsSame DEF Stays
  <2> HIDE DEF kept
  <2> QED
    BY <1>3, <1>4, <2>1, <2>2, OutputKeeps, OutputType
<1> HIDE DEF kept
<1>9. q.kp = kept.kp /\ q.greatest = kept.greatest
  BY <1>8, StartHandshakeKeeps
<1> HIDE DEF q, alive, hello
<1>10. Keeps(peer[n], q)
  BY <1>4, <1>8, <1>9, KeepsBoth, KeepsSame
<1>11. Stays(peer[n], q, now)
  BY <1>5, <1>8, <1>9 DEF Stays
<1>12. peer'[n] = q /\ \A o \in Nodes : o # n => peer'[o] = peer[o] /\ link'[o] = link[o]
  BY <1>3, <1>6
<1>13. link'[n] = (link[n] /\ peer_is_up(q))
  BY <1>3, <1>6, <1>9 DEF peer_is_up
<1>14. net \subseteq net' /\ \A m \in net' \ net : m.type = "init" \/ Emitted(n, m, peer[n])
  BY <1>6, <1>7 DEF InitPacket
<1> QED
  BY <1>2, <1>10, <1>11, <1>12, <1>13, <1>14 DEF QuietStepOf

LEMMA OthersQuiet ==
    ASSUME IInv, SInv, NEW n \in Nodes, ReceiveStale(n) \/ Connect(n) \/ Disconnect(n)
    PROVE  /\ QuietStepOf(n)
           /\ ~Disconnect(n) => Stays(peer[n], peer'[n], now)
<1>1. /\ peer \in [Nodes -> Peers] /\ peer[n] \in Peers
      /\ peer[n].kp \in [Slots -> Keypairs]
      /\ UNCHANGED <<now, restarts, link, net, delivered>> /\ ~EmptyKeypair.valid
  BY SlotsTypes DEF IInv, TypeOK, ReceiveStale, Connect, Disconnect, EmptyKeypair
<1>2. ASSUME NEW q, peer' = [peer EXCEPT ![n] = q], Keeps(peer[n], q)
      PROVE  QuietStepOf(n)
  BY <1>1, <1>2 DEF QuietStepOf
<1>3. CASE ReceiveStale(n)
  <2>1. PICK m \in DataPackets :
          LET slot == get_peer_keypair_for_idx(peer[n].kp, m.receiver)
          IN  /\ ~Usable(peer[n].kp[slot], now)
              /\ peer' = [peer EXCEPT ![n].kp[slot] = EmptyKeypair]
    BY <1>3 DEF ReceiveStale
  <2> DEFINE slot == get_peer_keypair_for_idx(peer[n].kp, m.receiver)
             q == [peer[n] EXCEPT !.kp = [@ EXCEPT ![slot] = EmptyKeypair]]
  <2>2. peer' = [peer EXCEPT ![n] = q] /\ ~Usable(peer[n].kp[slot], now)
    BY <2>1
  <2>3. slot \in Slots
    BY SlotOfIndex
  <2> HIDE DEF slot
  <2>4. q.greatest = peer[n].greatest /\ q.kp = [peer[n].kp EXCEPT ![slot] = EmptyKeypair]
    BY <1>1 DEF Peers
  <2> HIDE DEF q
  <2>5. \A t \in Slots : q.kp[t] = IF t = slot THEN EmptyKeypair ELSE peer[n].kp[t]
    BY <1>1, <2>4
  <2>6. Keeps(peer[n], q)
    BY <1>1, <2>4, <2>5 DEF Keeps, Like
  <2>7. Stays(peer[n], q, now)
    BY <2>2, <2>5 DEF Stays, Slots
  <2>8. peer'[n] = q
    BY <1>1, <2>2
  <2> QED
    BY <1>2, <2>2, <2>6, <2>7, <2>8
<1>4. CASE Connect(n)
  <2> DEFINE q == [peer[n] EXCEPT !.active = TRUE, !.addr = ConnectAddr]
  <2>1. peer' = [peer EXCEPT ![n] = q]
    BY <1>1, <1>4 DEF Connect
  <2>2. q.greatest = peer[n].greatest /\ q.kp = peer[n].kp
    BY <1>1 DEF Peers
  <2> HIDE DEF q
  <2>3. Keeps(peer[n], q) /\ Stays(peer[n], q, now) /\ peer'[n] = q
    BY <1>1, <2>1, <2>2, KeepsSame DEF Stays
  <2> QED
    BY <1>2, <2>1, <2>3
<1>5. CASE Disconnect(n)
  <2> DEFINE q == [peer[n] EXCEPT !.active = FALSE, !.kp = NoKeypairs]
  <2>1. peer' = [peer EXCEPT ![n] = q]
    BY <1>1, <1>5 DEF Disconnect
  <2>2. q.greatest = peer[n].greatest /\ \A t \in Slots : q.kp[t] = EmptyKeypair
    BY <1>1 DEF Peers, NoKeypairs
  <2> HIDE DEF q
  <2>3. Keeps(peer[n], q)
    BY <1>1, <2>2 DEF Keeps
  <2> QED
    BY <1>2, <1>5, <2>1, <2>3
<1> QED
  BY <1>3, <1>4, <1>5

\* The new session of a response that is accepted; then the keepalive is sent.
Started(n, m, p) ==
    /\ p.greatest = peer[n].greatest /\ ~p.kp["next"].valid
    /\ p.kp["prev"] = IF peer[n].kp["next"].valid THEN peer[n].kp["next"] ELSE peer[n].kp["curr"]
    /\ p.kp["curr"].local = m.receiver /\ p.kp["curr"].remote = m.sender
    /\ p.kp["curr"].initiator /\ p.kp["curr"].valid
    /\ p.kp["curr"].born = now /\ p.kp["curr"].counter = 0
    /\ p.kp["curr"].window = FreshWindow /\ ~p.hs.valid
    /\ peer[n].hs.valid /\ peer[n].hs.initiator /\ peer[n].hs.local = m.receiver

LEMMA ResponseStep ==
    ASSUME IInv, SInv, NEW n \in Nodes, ReceiveResponse(n)
    PROVE  \E m \in RespPackets, p \in Peers :
             /\ Started(n, m, p)
             /\ Keeps(p, peer'[n]) /\ Stays(p, peer'[n], now)
             /\ peer'[n].kp["prev"] = p.kp["prev"] /\ peer'[n].hs = p.hs
             /\ \A o \in Nodes : o # n => peer'[o] = peer[o] /\ link'[o] = link[o]
             /\ link'[n] = TRUE /\ UNCHANGED <<restarts, delivered>>
             /\ net \subseteq net' /\ \A c \in net' \ net : Emitted(n, c, p)
<1>1. PICK m \in RespPackets, a \in Addrs, ok \in BOOLEAN :
        LET started == ProcessResponse(peer[n], m.sender, a, now)
        IN  /\ AcceptsResponse(peer[n], m.receiver)
            /\ peer' = [peer EXCEPT ![n] = wireguardif_output_to_peer(started, now, ok)]
            /\ net' = IF Encrypts(started, now) /\ ok
                      THEN net \cup {DataPacket(n, started, 0)} ELSE net
            /\ link' = [link EXCEPT ![n] = TRUE]
            /\ UNCHANGED <<restarts, delivered>>
  BY DEF ReceiveResponse
<1> DEFINE p == ProcessResponse(peer[n], m.sender, a, now)
           q == wireguardif_output_to_peer(p, now, ok)
<1>2. /\ peer[n] \in Peers /\ now \in Nat /\ draws \in Nat /\ net \in SUBSET PacketType
      /\ NodeInv(n, peer[n], net, draws) /\ NetDrawn(net, draws)
      /\ SlotsInv(peer[n], draws) /\ peer \in [Nodes -> Peers] /\ link \in [Nodes -> BOOLEAN]
  BY DEF IInv, TypeOK, SInv
<1>3. m \in net /\ m.type = "resp" /\ m.sender \in Nat /\ m.sender <= draws
  BY <1>2 DEF RespPackets, NetDrawn, PacketType
<1>4. peer[n].hs.valid /\ peer[n].hs.initiator /\ peer[n].hs.local = m.receiver
  BY <1>1 DEF AcceptsResponse
<1>5. p \in Peers
  BY <1>2, <1>3, <1>4, ProcessResponseInv
<1>6. SlotsInv(p, draws)
  BY <1>2, <1>3, <1>4, ProcessResponseSlots
<1>7. Started(n, m, p)
  BY <1>2, <1>3, <1>4, ResponseEffect DEF Started
<1>8. /\ peer' = [peer EXCEPT ![n] = q]
      /\ net' = IF Encrypts(p, now) /\ ok THEN net \cup {DataPacket(n, p, 0)} ELSE net
      /\ link' = [link EXCEPT ![n] = TRUE]
  BY <1>1
<1> HIDE DEF p
<1>9. Keeps(p, q) /\ Stays(p, q, now) /\ q.kp["prev"] = p.kp["prev"] /\ q.hs = p.hs
  <2>1. SendSlot(p.kp) = "curr"
    BY <1>7 DEF Started, SendSlot
  <2>2. q.kp["prev"] = p.kp["prev"]
    BY <1>5, <2>1, OutputElsewhere DEF Slots
  <2> QED
    BY <1>2, <1>5, <1>6, <2>2, OutputKeeps, OutputHandshake
<1> HIDE DEF q
<1>10. net \subseteq net' /\ \A c \in net' \ net : Emitted(n, c, p)
  BY <1>5, <1>8, EncryptsEmits
<1>11. /\ peer'[n] = q
       /\ \A o \in Nodes : o # n => peer'[o] = peer[o] /\ link'[o] = link[o]
       /\ link'[n] = TRUE
  BY <1>2, <1>8
<1> QED
  BY <1>1, <1>5, <1>7, <1>9, <1>10, <1>11

\* The payload is handed to ip_input, and marked in the window of its session.
Delivers(n, m) == m.payload # 0 /\ delivered' = [delivered EXCEPT ![n][m.payload] = @ + 1]
Marks(n, m, slot) ==
    /\ AcceptsNonce(peer[n].kp[slot].window, m.counter)
    /\ peer'[n].kp[slot].window = MarkNonce(peer[n].kp[slot].window, m.counter)

\* What a data packet m under the session of a slot changes.
DataChanges(n, m, slot) ==
    /\ m.from # n /\ m.key = KeyOf(peer[n].kp[slot]) /\ peer[n].kp[slot].valid
    /\ peer'[n].greatest = peer[n].greatest /\ peer'[n].hs = peer[n].hs
    /\ slot # "next" =>
           /\ \A s \in Slots : /\ Alike(peer[n].kp[s], peer'[n].kp[s])
                               /\ s # slot => /\ peer'[n].kp[s].lastRx = peer[n].kp[s].lastRx
                                              /\ peer'[n].kp[s].window = peer[n].kp[s].window
           /\ \/ Marks(n, m, slot) /\ Delivers(n, m)
              \/ UNCHANGED delivered /\ peer'[n].kp[slot].window = peer[n].kp[slot].window
    /\ slot = "next" => /\ Promoted(peer[n], peer'[n])
                        /\ Delivers(n, m) \/ UNCHANGED delivered
    /\ \A o \in Nodes : o # n => peer'[o] = peer[o] /\ link'[o] = link[o]
    /\ link'[n] = TRUE /\ UNCHANGED <<net, restarts>>

\* The slot that the index of a packet names holds a session.
LEMMA IndexFound ==
    ASSUME NEW kp, NEW idx, SlotsWithIndex(kp, idx) # {}
    PROVE  kp[get_peer_keypair_for_idx(kp, idx)].valid
  BY DEF get_peer_keypair_for_idx, SlotsWithIndex, Slots

LEMMA DataStep ==
    ASSUME IInv, NEW n \in Nodes, ReceiveData(n)
    PROVE  \E m \in DataPackets, slot \in Slots : DataChanges(n, m, slot)
<1>1. PICK m \in DataPackets, a \in Addrs :
        LET slot == get_peer_keypair_for_idx(peer[n].kp, m.receiver)
        IN  /\ m.from # n /\ m.key = KeyOf(peer[n].kp[slot])
            /\ SlotsWithIndex(peer[n].kp, m.receiver) # {}
            /\ peer' = [peer EXCEPT ![n] =
                    ProcessData(peer[n], slot, m.counter, m.payload, a, now)]
            /\ delivered' = IF DeliversData(peer[n], slot, m.counter, m.payload)
                            THEN [delivered EXCEPT ![n][m.payload] = @ + 1]
                            ELSE delivered
            /\ link' = [link EXCEPT ![n] = TRUE]
            /\ UNCHANGED <<net, restarts>>
  BY DEF ReceiveData
<1> DEFINE slot == get_peer_keypair_for_idx(peer[n].kp, m.receiver)
           q == ProcessData(peer[n], slot, m.counter, m.payload, a, now)
<1>2. /\ peer \in [Nodes -> Peers] /\ peer[n] \in Peers /\ now \in Nat
      /\ net \subseteq PacketType /\ link \in [Nodes -> BOOLEAN]
  BY DEF IInv, TypeOK
<1>3. m.counter \in Nat /\ m.payload \in Nat
  BY <1>2 DEF DataPackets, PacketType
<1>4. slot \in Slots /\ peer[n].kp[slot].valid
  BY <1>1, SlotOfIndex, IndexFound
<1>5. /\ m.from # n /\ m.key = KeyOf(peer[n].kp[slot])
      /\ peer' = [peer EXCEPT ![n] = q]
      /\ delivered' = IF DeliversData(peer[n], slot, m.counter, m.payload)
                      THEN [delivered EXCEPT ![n][m.payload] = @ + 1] ELSE delivered
  BY <1>1
<1> HIDE DEF slot
<1>6. /\ q.greatest = peer[n].greatest /\ q.hs = peer[n].hs
      /\ slot # "next" => InPlace(peer[n], q, slot, m.counter, m.payload)
      /\ slot = "next" => Promoted(peer[n], q)
  BY <1>2, <1>3, <1>4, DataEffect
<1> HIDE DEF q
<1>7. /\ peer'[n] = q
      /\ \A o \in Nodes : o # n => peer'[o] = peer[o] /\ link'[o] = link[o]
      /\ link'[n] = TRUE
  BY <1>1, <1>2, <1>5
<1>8. Delivers(n, m) \/ UNCHANGED delivered
  BY <1>5 DEF Delivers, DeliversData
<1>9. ASSUME slot # "next"
      PROVE  \/ Marks(n, m, slot) /\ Delivers(n, m)
             \/ UNCHANGED delivered /\ peer'[n].kp[slot].window = peer[n].kp[slot].window
  <2>1. DeliversData(peer[n], slot, m.counter, m.payload) <=>
          m.payload # 0 /\ AcceptsNonce(peer[n].kp[slot].window, m.counter)
    BY <1>9 DEF DeliversData, keypair_update
  <2>2. CASE m.payload # 0 /\ AcceptsNonce(peer[n].kp[slot].window, m.counter)
    BY <1>5, <1>6, <1>7, <1>9, <2>1, <2>2 DEF Marks, Delivers, InPlace, wireguard_check_replay
  <2>3. CASE ~(m.payload # 0 /\ AcceptsNonce(peer[n].kp[slot].window, m.counter))
    BY <1>5, <1>6, <1>7, <1>9, <2>1, <2>3 DEF InPlace, wireguard_check_replay
  <2> QED
    BY <2>2, <2>3
<1>10. DataChanges(n, m, slot)
  BY <1>1, <1>4, <1>5, <1>6, <1>7, <1>8, <1>9 DEF DataChanges, InPlace
<1> QED
  BY <1>4, <1>10

LEMMA InitiationStep ==
    ASSUME IInv, NEW n \in Nodes, ReceiveInitiation(n)
    PROVE  \E m \in InitPackets :
             /\ m.sender > peer[n].greatest /\ peer'[n].greatest = m.sender
             /\ peer'[n].kp["curr"] = peer[n].kp["curr"] /\ ~peer'[n].kp["prev"].valid
             /\ peer'[n].kp["next"].local = draws + 1 /\ peer'[n].kp["next"].remote = m.sender
             /\ ~peer'[n].kp["next"].initiator /\ peer'[n].kp["next"].lastRx = 0
             /\ peer'[n].kp["next"].window = FreshWindow /\ ~peer'[n].hs.valid
             /\ \A o \in Nodes : o # n => peer'[o] = peer[o]
             /\ net' = net \cup {RespPacket(n, draws + 1, m.sender)}
             /\ UNCHANGED <<link, restarts, delivered>>
<1>1. PICK m \in InitPackets, a \in Addrs :
        /\ m.sender > peer[n].greatest
        /\ peer' = [peer EXCEPT ![n] = ProcessInitiation(@, m.sender, draws + 1, a, now)]
        /\ net' = net \cup {RespPacket(n, draws + 1, m.sender)}
        /\ UNCHANGED <<link, restarts, delivered>>
  BY DEF ReceiveInitiation, AcceptsInitiation
<1> DEFINE q == ProcessInitiation(peer[n], m.sender, draws + 1, a, now)
<1>2. /\ peer \in [Nodes -> Peers] /\ peer[n] \in Peers /\ now \in Nat
      /\ draws + 1 \in Nat /\ net \subseteq PacketType
  BY DEF IInv, TypeOK
<1>3. m.sender \in Nat
  BY <1>2 DEF InitPackets, PacketType
<1>4. /\ q.greatest = m.sender /\ q.kp["curr"] = peer[n].kp["curr"] /\ ~q.kp["prev"].valid
      /\ q.kp["next"].local = draws + 1 /\ q.kp["next"].remote = m.sender
      /\ ~q.kp["next"].initiator /\ q.kp["next"].lastRx = 0
      /\ q.kp["next"].window = FreshWindow /\ ~q.hs.valid
  BY <1>2, <1>3, InitiationEffect
<1>5. peer' = [peer EXCEPT ![n] = q]
  BY <1>1
<1> HIDE DEF q
<1>6. peer'[n] = q /\ \A o \in Nodes : o # n => peer'[o] = peer[o]
  BY <1>2, <1>5
<1> QED
  BY <1>1, <1>4, <1>6

LEMMA RestartStepOf ==
    ASSUME IInv, NEW n \in Nodes, Restart(n)
    PROVE  /\ peer'[n].greatest = 0 /\ \A s \in Slots : ~peer'[n].kp[s].valid
           /\ \A o \in Nodes : o # n => /\ peer'[o] = peer[o] /\ link'[o] = link[o]
                                        /\ restarts'[o] = restarts[o]
           /\ link'[n] = FALSE /\ restarts'[n] = restarts[n] + 1 /\ UNCHANGED <<net, delivered>>
<1>1. /\ peer \in [Nodes -> Peers] /\ link \in [Nodes -> BOOLEAN] /\ restarts \in [Nodes -> Nat]
      /\ peer' = [peer EXCEPT ![n] = NewPeer(@.active)]
      /\ link' = [link EXCEPT ![n] = FALSE]
      /\ restarts' = [restarts EXCEPT ![n] = @ + 1] /\ UNCHANGED <<net, delivered>>
  BY DEF IInv, TypeOK, Restart
<1>2. /\ NewPeer(peer[n].active).greatest = 0
      /\ \A s \in Slots : ~NewPeer(peer[n].active).kp[s].valid
  BY DEF NewPeer, NoKeypairs, EmptyKeypair
<1> QED
  BY <1>1, <1>2

\* The cases of a step.
TunnelCases(n) ==
    \/ QuietStepOf(n)
    \/ ReceiveInitiation(n) \/ ReceiveResponse(n) \/ ReceiveData(n) \/ Restart(n)

LEMMA StepCases ==
    ASSUME IInv, SInv, [Next]_vars
    PROVE  \/ UNCHANGED <<peer, link, net, restarts, delivered>>
           \/ \E n \in Nodes : TunnelCases(n)
<1>1. CASE UNCHANGED vars \/ Tick
  BY <1>1 DEF vars, Tick
<1>2. ASSUME NEW n \in Nodes,
             Output(n) \/ Timer(n) \/ ReceiveStale(n) \/ Connect(n) \/ Disconnect(n)
      PROVE  QuietStepOf(n)
  BY <1>2, OutputQuiet, TimerQuiet, OthersQuiet
<1> QED
  BY <1>1, <1>2 DEF Next, TunnelCases
-----------------------------------------------------------------------------
(* The link *)

LEMMA LinkStep == IInv /\ SInv /\ LinkUpWithSession /\ [Next]_vars => LinkUpWithSession'
<1> SUFFICES ASSUME IInv, SInv, LinkUpWithSession, [Next]_vars PROVE LinkUpWithSession'
  OBVIOUS
<1>1. CASE UNCHANGED <<peer, link, net, restarts, delivered>>
  BY <1>1 DEF LinkUpWithSession
<1>2. ASSUME NEW n \in Nodes, \A o \in Nodes : o # n => peer'[o] = peer[o] /\ link'[o] = link[o],
             peer_is_up(peer'[n]) => link'[n]
      PROVE  LinkUpWithSession'
  BY <1>2 DEF LinkUpWithSession
<1>3. ASSUME NEW n \in Nodes, TunnelCases(n)
      PROVE  LinkUpWithSession'
  <2>1. CASE QuietStepOf(n)
    BY <1>2, <2>1, KeepsUp DEF QuietStepOf, LinkUpWithSession
  <2>2. CASE ReceiveInitiation(n)
    BY <1>2, <2>2, InitiationStep DEF peer_is_up, LinkUpWithSession
  <2>3. CASE ReceiveResponse(n)
    BY <1>2, <2>3, ResponseStep
  <2>4. CASE ReceiveData(n)
    BY <1>2, <2>4, DataStep DEF DataChanges
  <2>5. CASE Restart(n)
    BY <1>2, <2>5, RestartStepOf DEF peer_is_up, Slots
  <2> QED
    BY <1>3, <2>1, <2>2, <2>3, <2>4, <2>5 DEF TunnelCases
<1> QED
  BY <1>1, <1>3, StepCases

\* A node that counts itself connected has its interface up: the timer takes the link
\* down with the last session only, and no packet brings a session without the link.
THEOREM LinkFollowsSessions == Spec => []LinkUpWithSession
<1>1. Init => LinkUpWithSession
  <2> SUFFICES ASSUME Init PROVE LinkUpWithSession
    OBVIOUS
  <2>1. PICK active \in [Nodes -> BOOLEAN] : peer = [n \in Nodes |-> NewPeer(active[n])]
    BY DEF Init
  <2> QED
    BY <2>1 DEF LinkUpWithSession, peer_is_up, NewPeer, NoKeypairs, EmptyKeypair, Slots
<1> QED
  BY <1>1, LinkStep, TunnelInvariant, SlotsInvariant, PTL DEF Spec
-----------------------------------------------------------------------------
(* Key confirmation *)

\* A responder's session that may be used has been received under; and no session
\* has one draw for both halves, so that a packet shows who sent it.
PeerConf(n, p, N) ==
    \A s \in Slots : p.kp[s].valid =>
        /\ p.kp[s].local # p.kp[s].remote
        /\ ~p.kp[s].initiator /\ p.kp[s].lastRx # 0 =>
              \E c \in N : c.type = "data" /\ c.from # n /\ c.key = KeyOf(p.kp[s])

ConfInv ==
    /\ \A m \in RespPackets : m.sender # m.receiver
    /\ \A n \in Nodes : PeerConf(n, peer[n], net)
    /\ ResponderConfirmed

LEMMA ConfMoves ==
    ASSUME NEW n, NEW p, NEW q, NEW N, NEW M, N \subseteq M, PeerConf(n, p, N),
           \A s \in Slots : q.kp[s].valid => \E t \in Slots : Like(p.kp[t], q.kp[s])
    PROVE  PeerConf(n, q, M)
<1> SUFFICES ASSUME NEW s \in Slots, q.kp[s].valid
             PROVE  /\ q.kp[s].local # q.kp[s].remote
                    /\ ~q.kp[s].initiator /\ q.kp[s].lastRx # 0 =>
                         \E c \in M : c.type = "data" /\ c.from # n /\ c.key = KeyOf(q.kp[s])
  BY DEF PeerConf
<1>1. PICK t \in Slots : Like(p.kp[t], q.kp[s])
  OBVIOUS
<1>2. KeyOf(p.kp[t]) = KeyOf(q.kp[s])
  BY <1>1, LikeKeys
<1> QED
  BY <1>1, <1>2 DEF PeerConf, Like

LEMMA ConfEmits ==
    ASSUME NEW n, NEW p \in Peers, NEW N, PeerConf(n, p, N), NEW m, Emitted(n, m, p), m.receiver = m.key[1]
    PROVE  \E c \in N : c.type = "data" /\ c.from # m.from /\ c.key = m.key
<1>1. PICK s \in Slots : /\ p.kp[s].valid /\ HasKey(p.kp[s])
                         /\ m.key = KeyOf(p.kp[s]) /\ m.receiver = p.kp[s].remote
  BY DEF Emitted
<1>2. ~p.kp[s].initiator
  <2>1. p.kp[s] \in Keypairs
    BY SlotsTypes
  <2>2. p.kp[s].initiator => m.key[1] = p.kp[s].local
    BY <1>1, <2>1, KeyFields
  <2> QED
    BY <1>1, <2>2 DEF PeerConf
<1>3. p.kp[s].lastRx # 0
  BY <1>1, <1>2 DEF HasKey
<1> QED
  BY <1>1, <1>2, <1>3 DEF PeerConf, Emitted

LEMMA ConfStep == IInv /\ SInv /\ ConfInv /\ [Next]_vars => ConfInv'
<1> SUFFICES ASSUME IInv, SInv, ConfInv, [Next]_vars PROVE ConfInv'
  OBVIOUS
<1>0. /\ \A n \in Nodes : peer[n] \in Peers /\ PeerConf(n, peer[n], net)
      /\ draws \in Nat /\ NetDrawn(net, draws) /\ net \subseteq PacketType
  BY DEF IInv, TypeOK, ConfInv
<1>1. CASE UNCHANGED <<peer, link, net, restarts, delivered>>
  BY <1>1 DEF ConfInv, RespPackets, ResponderConfirmed, DataPackets
<1>2. ASSUME NEW n \in Nodes, \A o \in Nodes : o # n => peer'[o] = peer[o],
             net \subseteq net', PeerConf(n, peer'[n], net'),
             \A m \in net' \ net : \/ m.type = "init"
                                   \/ m.type = "resp" /\ m.sender # m.receiver
                                   \/ \E p \in Peers : PeerConf(n, p, net) /\ Emitted(n, m, p)
      PROVE  ConfInv'
  <2>1. \A m \in RespPackets' : m.sender # m.receiver
    BY <1>2 DEF ConfInv, RespPackets, Emitted
  <2>2. ASSUME NEW o \in Nodes PROVE PeerConf(o, peer'[o], net')
    <3>1. CASE o # n
      <4>1. \A s \in Slots : peer[o].kp[s].valid => Like(peer[o].kp[s], peer[o].kp[s])
        BY DEF Like
      <4> QED
        BY <1>0, <1>2, <3>1, <4>1, ConfMoves
    <3> QED
      BY <1>2, <3>1
  <2>3. ResponderConfirmed'
    <3> SUFFICES ASSUME NEW m \in net', m.type = "data", m.receiver = m.key[1]
                 PROVE  \E c \in net' : c.type = "data" /\ c.from # m.from /\ c.key = m.key
      BY DEF ResponderConfirmed, DataPackets
    <3>1. CASE m \in net
      BY <1>2, <3>1 DEF ConfInv, ResponderConfirmed, DataPackets
    <3>2. CASE m \notin net
      <4>1. PICK p \in Peers : PeerConf(n, p, net) /\ Emitted(n, m, p)
        BY <1>2, <3>2
      <4> QED
        <5>1. \E c \in net : c.type = "data" /\ c.from # m.from /\ c.key = m.key
          BY <4>1, ConfEmits
        <5> QED
          BY <1>2, <5>1
    <3> QED
      BY <3>1, <3>2
  <2> QED
    BY <2>1, <2>2, <2>3 DEF ConfInv
<1>3. ASSUME NEW n \in Nodes, TunnelCases(n)
      PROVE  ConfInv'
  <2>1. CASE QuietStepOf(n)
    <3>1. PeerConf(n, peer'[n], net')
      BY <1>0, <2>1, ConfMoves DEF QuietStepOf, Keeps
    <3> QED
      BY <1>0, <1>2, <2>1, <3>1 DEF QuietStepOf
  <2>2. CASE ReceiveInitiation(n)
    <3>1. PICK m \in InitPackets :
             /\ peer'[n].kp["curr"] = peer[n].kp["curr"] /\ ~peer'[n].kp["prev"].valid
             /\ peer'[n].kp["next"].local = draws + 1 /\ peer'[n].kp["next"].remote = m.sender
             /\ ~peer'[n].kp["next"].initiator /\ peer'[n].kp["next"].lastRx = 0
             /\ \A o \in Nodes : o # n => peer'[o] = peer[o]
             /\ net' = net \cup {RespPacket(n, draws + 1, m.sender)}
      BY <2>2, InitiationStep
    <3>2. m.sender \in Nat /\ m.sender <= draws
      BY <1>0 DEF InitPackets, NetDrawn, PacketType
    <3>3. m.sender # draws + 1
      BY <1>0, <3>2
    <3>4. PeerConf(n, peer'[n], net')
      BY <1>0, <3>1, <3>3 DEF PeerConf, Slots
    <3> QED
      BY <1>2, <3>1, <3>3, <3>4 DEF RespPacket
  <2>3. CASE ReceiveResponse(n)
    <3>1. PICK m \in RespPackets, p \in Peers :
             /\ Started(n, m, p) /\ Keeps(p, peer'[n])
             /\ \A o \in Nodes : o # n => peer'[o] = peer[o]
             /\ net \subseteq net' /\ \A c \in net' \ net : Emitted(n, c, p)
      BY <2>3, ResponseStep
    <3>2. PeerConf(n, p, net)
      <4>1. m.sender # m.receiver
        BY DEF ConfInv
      <4> QED
        BY <1>0, <3>1, <4>1 DEF PeerConf, Started, Slots
    <3>3. PeerConf(n, peer'[n], net')
      BY <3>1, <3>2, ConfMoves DEF Keeps
    <3> QED
      BY <1>2, <3>1, <3>2, <3>3
  <2>4. CASE ReceiveData(n)
    <3>1. PICK m \in DataPackets, slot \in Slots : DataChanges(n, m, slot)
      BY <2>4, DataStep
    <3>2. ASSUME NEW s \in Slots, NEW t \in Slots, peer'[n].kp[s].valid,
                 Alike(peer[n].kp[t], peer'[n].kp[s]),
                 t = slot \/ peer'[n].kp[s].lastRx = peer[n].kp[t].lastRx
          PROVE  /\ peer'[n].kp[s].local # peer'[n].kp[s].remote
                 /\ ~peer'[n].kp[s].initiator /\ peer'[n].kp[s].lastRx # 0 =>
                       \E c \in net : /\ c.type = "data" /\ c.from # n
                                      /\ c.key = KeyOf(peer'[n].kp[s])
      <4>1. KeyOf(peer'[n].kp[s]) = KeyOf(peer[n].kp[t])
        BY <3>2, AlikeKeys
      <4>2. m \in net /\ m.type = "data"
        BY DEF DataPackets
      <4>3. t = slot => m.from # n /\ m.key = KeyOf(peer'[n].kp[s])
        BY <3>1, <4>1 DEF DataChanges
      <4>4. peer[n].kp[t].valid => /\ peer[n].kp[t].local # peer[n].kp[t].remote
                                   /\ ~peer[n].kp[t].initiator /\ peer[n].kp[t].lastRx # 0 =>
                                        \E c \in net : /\ c.type = "data" /\ c.from # n
                                                       /\ c.key = KeyOf(peer'[n].kp[s])
        BY <1>0, <4>1 DEF PeerConf
      <4> QED
        BY <3>2, <4>2, <4>3, <4>4 DEF Alike
    <3>3. PeerConf(n, peer'[n], net')
      <4>1. ASSUME NEW s \in Slots, peer'[n].kp[s].valid
            PROVE  \E t \in Slots : /\ Alike(peer[n].kp[t], peer'[n].kp[s])
                                    /\ t = slot \/ peer'[n].kp[s].lastRx = peer[n].kp[t].lastRx
        BY <3>1, <4>1 DEF Slots, DataChanges, Promoted
      <4>2. net' = net
        BY <3>1 DEF DataChanges
      <4> QED
        BY <3>2, <4>1, <4>2 DEF PeerConf
    <3> QED
      BY <1>2, <3>1, <3>3 DEF DataChanges
  <2>5. CASE Restart(n)
    <3>1. PeerConf(n, peer'[n], net')
      BY <2>5, RestartStepOf DEF PeerConf
    <3> QED
      BY <1>2, <2>5, <3>1, RestartStepOf
  <2> QED
    BY <1>3, <2>1, <2>2, <2>3, <2>4, <2>5 DEF TunnelCases
<1> QED
  BY <1>1, <1>3, StepCases

\* A responder transmits under a session only after a packet of the initiator under it.
THEOREM ResponderWaits == Spec => []ResponderConfirmed
<1>1. Init => ConfInv
  <2> SUFFICES ASSUME Init PROVE ConfInv
    OBVIOUS
  <2>1. PICK active \in [Nodes -> BOOLEAN] : peer = [n \in Nodes |-> NewPeer(active[n])]
    BY DEF Init
  <2>2. \A n \in Nodes, s \in Slots : ~peer[n].kp[s].valid
    BY <2>1 DEF NewPeer, NoKeypairs, EmptyKeypair
  <2> QED
    BY <2>2 DEF ConfInv, PeerConf, ResponderConfirmed, RespPackets, DataPackets, Init
<1>2. ConfInv => ResponderConfirmed
  BY DEF ConfInv
<1> QED
  BY <1>1, <1>2, ConfStep, TunnelInvariant, SlotsInvariant, PTL DEF Spec
-----------------------------------------------------------------------------
(* Answers to an initiation *)

Answers(n, i) == {m \in RespPackets : m.from = n /\ m.receiver = i}

\* In one life of the device an initiation up to the greatest seen has one answer at
\* most, and a later one none.
AnswerInv ==
    \A n \in Nodes : \A i \in Nat \ {0} :
        /\ IsFiniteSet(Answers(n, i))
        /\ Cardinality(Answers(n, i)) <= restarts[n] + (IF i <= peer[n].greatest THEN 1 ELSE 0)

LEMMA AnswerStep == IInv /\ SInv /\ AnswerInv /\ [Next]_vars => AnswerInv'
<1> SUFFICES ASSUME IInv, SInv, AnswerInv, [Next]_vars PROVE AnswerInv'
  OBVIOUS
<1>0. /\ \A n \in Nodes : peer[n].greatest \in Nat /\ restarts[n] \in Nat
      /\ net \subseteq PacketType
  BY DEF IInv, TypeOK, Peers
<1>1. ASSUME NEW n \in Nodes, \A m \in net' \ net : m.type # "resp", net \subseteq net',
             \A o \in Nodes : o # n => peer'[o] = peer[o] /\ restarts'[o] = restarts[o],
             \/ restarts'[n] = restarts[n] /\ peer'[n].greatest = peer[n].greatest
             \/ restarts'[n] = restarts[n] + 1 /\ peer'[n].greatest = 0
      PROVE  AnswerInv'
  <2>1. \A o \in Nodes, i \in Nat \ {0} : Answers(o, i)' = Answers(o, i)
    BY <1>1 DEF Answers, RespPackets
  <2>2. ASSUME NEW o \in Nodes, NEW i \in Nat \ {0}
        PROVE  /\ IsFiniteSet(Answers(o, i)')
               /\ Cardinality(Answers(o, i)') <=
                     restarts'[o] + (IF i <= peer'[o].greatest THEN 1 ELSE 0)
    <3>1. /\ IsFiniteSet(Answers(o, i)) /\ Cardinality(Answers(o, i)) \in Nat
          /\ Cardinality(Answers(o, i)) <= restarts[o] + (IF i <= peer[o].greatest THEN 1 ELSE 0)
      BY FS_CardinalityType DEF AnswerInv
    <3> QED
      BY <1>0, <1>1, <2>1, <3>1
  <2> QED
    BY <2>2 DEF AnswerInv
<1>2. CASE UNCHANGED <<peer, link, net, restarts, delivered>>
  BY <1>2 DEF AnswerInv, Answers, RespPackets
<1>3. ASSUME NEW n \in Nodes, TunnelCases(n)
      PROVE  AnswerInv'
  <2>1. CASE QuietStepOf(n)
    BY <1>1, <2>1 DEF QuietStepOf, Keeps, Emitted
  <2>2. CASE ReceiveInitiation(n)
    <3>1. PICK m \in InitPackets :
             /\ m.sender > peer[n].greatest /\ peer'[n].greatest = m.sender
             /\ \A o \in Nodes : o # n => peer'[o] = peer[o]
             /\ net' = net \cup {RespPacket(n, draws + 1, m.sender)}
             /\ UNCHANGED restarts
      BY <2>2, InitiationStep
    <3> DEFINE r == RespPacket(n, draws + 1, m.sender)
    <3>2. m.sender \in Nat
      BY <1>0 DEF InitPackets, PacketType
    <3>3. r.type = "resp" /\ r.from = n /\ r.receiver = m.sender
      BY DEF RespPacket
    <3> HIDE DEF r
    <3>4. ASSUME NEW o \in Nodes, NEW i \in Nat \ {0}
          PROVE  /\ IsFiniteSet(Answers(o, i)')
                 /\ Cardinality(Answers(o, i)') <=
                       restarts'[o] + (IF i <= peer'[o].greatest THEN 1 ELSE 0)
      <4>1. /\ IsFiniteSet(Answers(o, i)) /\ Cardinality(Answers(o, i)) \in Nat
            /\ Cardinality(Answers(o, i)) <= restarts[o] + (IF i <= peer[o].greatest THEN 1 ELSE 0)
        BY FS_CardinalityType DEF AnswerInv
      <4>2. CASE o = n /\ i = m.sender
        <5>1. Answers(o, i)' = Answers(o, i) \cup {r}
          BY <3>1, <3>3, <4>2 DEF Answers, RespPackets, r
        <5>2. /\ IsFiniteSet(Answers(o, i)')
              /\ Cardinality(Answers(o, i)') <= Cardinality(Answers(o, i)) + 1
          <6> DEFINE S == Answers(o, i)
          <6>1. IsFiniteSet(S) /\ Cardinality(S) \in Nat
            BY <4>1, FS_CardinalityType
          <6> HIDE DEF S
          <6>2. /\ IsFiniteSet(S \cup {r})
                /\ Cardinality(S \cup {r}) = IF r \in S THEN Cardinality(S)
                                             ELSE Cardinality(S) + 1
            BY <6>1, FS_AddElement
          <6>3. Cardinality(S \cup {r}) <= Cardinality(S) + 1
            BY <6>1, <6>2
          <6> QED
            BY <5>1, <6>2, <6>3 DEF S
        <5>3. Cardinality(Answers(o, i)') \in Nat
          BY <5>2, FS_CardinalityType
        <5> QED
          BY <1>0, <3>1, <3>2, <4>1, <4>2, <5>2, <5>3
      <4>3. CASE ~(o = n /\ i = m.sender)
        <5>1. Answers(o, i)' = Answers(o, i)
          BY <3>1, <3>3, <4>3 DEF Answers, RespPackets, r
        <5>2. restarts'[o] = restarts[o] /\ (i <= peer[o].greatest => i <= peer'[o].greatest)
          BY <1>0, <3>1, <3>2
        <5> QED
          BY <1>0, <4>1, <5>1, <5>2
      <4> QED
        BY <4>2, <4>3
    <3> QED
      BY <3>4 DEF AnswerInv
  <2>3. CASE ReceiveResponse(n)
    <3>1. PICK m \in RespPackets, p \in Peers :
             /\ Started(n, m, p) /\ Keeps(p, peer'[n])
             /\ \A o \in Nodes : o # n => peer'[o] = peer[o]
             /\ UNCHANGED restarts
             /\ net \subseteq net' /\ \A c \in net' \ net : Emitted(n, c, p)
      BY <2>3, ResponseStep
    <3> QED
      BY <1>1, <3>1 DEF Keeps, Started, Emitted
  <2>4. CASE ReceiveData(n)
    <3>1. PICK m \in DataPackets, slot \in Slots : DataChanges(n, m, slot)
      BY <2>4, DataStep
    <3> QED
      BY <1>1, <3>1 DEF DataChanges
  <2>5. CASE Restart(n)
    BY <1>1, <2>5, RestartStepOf
  <2> QED
    BY <1>3, <2>1, <2>2, <2>3, <2>4, <2>5 DEF TunnelCases
<1> QED
  BY <1>2, <1>3, StepCases

\* An initiation, however often it is delivered, is answered once for each life of
\* the device: greatest_timestamp only starts again with the device.
THEOREM AnsweredOnce == Spec => []InitiationAnsweredOnce
<1>1. Init => AnswerInv
  <2> SUFFICES ASSUME Init PROVE AnswerInv
    OBVIOUS
  <2>1. PICK active \in [Nodes -> BOOLEAN] : peer = [n \in Nodes |-> NewPeer(active[n])]
    BY DEF Init
  <2>2. \A n \in Nodes : peer[n].greatest = 0 /\ restarts[n] = 0
    BY <2>1 DEF NewPeer, Init
  <2>3. \A n \in Nodes, i \in Nat \ {0} : Answers(n, i) = {}
    BY DEF Answers, RespPackets, Init
  <2>4. IsFiniteSet({}) /\ Cardinality({}) = 0
    BY FS_EmptySet
  <2> SUFFICES ASSUME NEW n \in Nodes, NEW i \in Nat \ {0}
               PROVE  /\ IsFiniteSet(Answers(n, i))
                      /\ Cardinality(Answers(n, i)) <=
                            restarts[n] + (IF i <= peer[n].greatest THEN 1 ELSE 0)
    BY DEF AnswerInv
  <2>5. Answers(n, i) = {} /\ restarts[n] = 0 /\ ~(i <= peer[n].greatest)
    BY <2>2, <2>3
  <2> QED
    BY <2>4, <2>5
<1>2. IInv /\ AnswerInv => InitiationAnsweredOnce
  <2> SUFFICES ASSUME IInv, AnswerInv, NEW n \in Nodes, NEW i \in 1 .. draws
               PROVE  Cardinality(Answers(n, i)) <= 1 + restarts[n]
    BY DEF InitiationAnsweredOnce, Answers
  <2>1. /\ IsFiniteSet(Answers(n, i)) /\ i \in Nat \ {0} /\ restarts[n] \in Nat
        /\ Cardinality(Answers(n, i)) <= restarts[n] + (IF i <= peer[n].greatest THEN 1 ELSE 0)
    BY DEF IInv, TypeOK, AnswerInv
  <2>2. Cardinality(Answers(n, i)) \in Nat
    BY <2>1, FS_CardinalityType
  <2> QED
    BY <2>1, <2>2
<1> QED
  BY <1>1, <1>2, AnswerStep, TunnelInvariant, SlotsInvariant, PTL DEF Spec
-----------------------------------------------------------------------------
(* Rekeying *)

LEMMA RekeyStep ==
    ASSUME IInv, SInv, [Next]_vars, NEW n \in Nodes,
           peer[n].kp["curr"].valid, Usable(peer[n].kp["curr"], now),
           restarts'[n] = restarts[n], n \notin disconnected',
           ~(peer[n].kp["next"].valid /\ peer'[n].kp["curr"].initiator)
    PROVE  \E s \in {"curr", "prev"} :
             peer'[n].kp[s].valid /\ KeyOf(peer'[n].kp[s]) = KeyOf(peer[n].kp["curr"])
<1>0. peer[n] \in Peers /\ restarts \in [Nodes -> Nat] /\ now \in Nat
  BY DEF IInv, TypeOK
<1>1. ASSUME peer'[n] = peer[n]
      PROVE  \E s \in {"curr", "prev"} :
               peer'[n].kp[s].valid /\ KeyOf(peer'[n].kp[s]) = KeyOf(peer[n].kp["curr"])
  BY <1>1
<1>2. CASE UNCHANGED vars \/ Tick
  BY <1>1, <1>2 DEF vars, Tick
<1>3. ASSUME NEW o \in Nodes,
             \/ Output(o) \/ Timer(o) \/ ReceiveInitiation(o) \/ ReceiveResponse(o)
             \/ ReceiveData(o) \/ ReceiveStale(o) \/ Connect(o) \/ Disconnect(o) \/ Restart(o)
      PROVE  \E s \in {"curr", "prev"} :
               peer'[n].kp[s].valid /\ KeyOf(peer'[n].kp[s]) = KeyOf(peer[n].kp["curr"])
  <2>1. CASE Output(o) \/ Timer(o) \/ ReceiveStale(o) \/ Connect(o) \/ Disconnect(o)
    <3>1. QuietStepOf(o) /\ (~Disconnect(o) => Stays(peer[o], peer'[o], now))
      BY <2>1, OutputQuiet, TimerQuiet, OthersQuiet
    <3>2. CASE o # n
      BY <1>1, <3>1, <3>2 DEF QuietStepOf
    <3>3. CASE o = n
      <4>1. ~Disconnect(n)
        BY DEF Disconnect
      <4>2. peer'[n].kp["curr"].valid /\ Like(peer[n].kp["curr"], peer'[n].kp["curr"])
        BY <3>1, <3>3, <4>1 DEF Stays, QuietStepOf, Keeps, Slots
      <4> QED
        BY <4>2, LikeKeys
    <3> QED
      BY <3>2, <3>3
  <2>2. CASE ReceiveInitiation(o)
    BY <1>1, <2>2, InitiationStep
  <2>3. CASE ReceiveResponse(o)
    <3>1. PICK m \in RespPackets, p \in Peers :
             /\ Started(o, m, p)
             /\ Keeps(p, peer'[o]) /\ Stays(p, peer'[o], now)
             /\ peer'[o].kp["prev"] = p.kp["prev"]
             /\ \A k \in Nodes : k # o => peer'[k] = peer[k]
      BY <2>3, ResponseStep
    <3>2. CASE o # n
      BY <1>1, <3>1, <3>2
    <3>3. CASE o = n
      <4>1. Usable(p.kp["curr"], now)
        <5>1. peer[n].kp["curr"].counter \in Nat
          BY <1>0, SlotsTypes DEF Keypairs
        <5> QED
          BY <1>0, <3>1, <3>3, <5>1, PeerAssumption DEF Started, Usable, wireguard_expired
      <4>2. peer'[n].kp["curr"].valid /\ Like(p.kp["curr"], peer'[n].kp["curr"])
        BY <3>1, <3>3, <4>1 DEF Started, Stays, Keeps, Slots
      <4>3. ~peer[n].kp["next"].valid
        BY <3>1, <3>3, <4>2 DEF Started, Like
      <4> QED
        BY <3>1, <3>3, <4>3 DEF Started
    <3> QED
      BY <3>2, <3>3
  <2>4. CASE ReceiveData(o)
    <3>1. PICK m \in DataPackets, slot \in Slots : DataChanges(o, m, slot)
      BY <2>4, DataStep
    <3>2. CASE o # n
      BY <1>1, <3>1, <3>2 DEF DataChanges
    <3>3. CASE o = n
      <4>1. PICK s \in {"curr", "prev"} : Alike(peer[n].kp["curr"], peer'[n].kp[s])
        BY <3>1, <3>3 DEF DataChanges, InPlace, Promoted, Slots
      <4> QED
        BY <4>1, AlikeKeys DEF Alike
    <3> QED
      BY <3>2, <3>3
  <2>5. CASE Restart(o)
    <3>1. restarts'[o] = restarts[o] + 1 /\ restarts[o] \in Nat
      BY <1>0, <2>5, RestartStepOf
    <3>2. o # n
      BY <3>1
    <3> QED
      BY <1>1, <2>5, <3>2, RestartStepOf
  <2> QED
    BY <1>3, <2>1, <2>2, <2>3, <2>4, <2>5
<1> QED
  BY <1>2, <1>3 DEF Next

\* No step of a rekey, a timer or a packet takes away the session in use while it is
\* good: it stays current, or becomes the previous one.
THEOREM RekeyKeepsSession == Spec => SessionSurvivesRekey
<1>1. IInv /\ SInv /\ [Next]_vars =>
        \A n \in Nodes :
          LET old == peer[n].kp["curr"]
              new == peer'[n].kp
          IN  /\ old.valid /\ Usable(old, now)
              /\ restarts'[n] = restarts[n]
              /\ n \notin disconnected'
              /\ ~(peer[n].kp["next"].valid /\ new["curr"].initiator)
              => \E s \in {"curr", "prev"} :
                  new[s].valid /\ KeyOf(new[s]) = KeyOf(old)
  BY RekeyStep
<1> QED
  BY <1>1, TunnelInvariant, SlotsInvariant, PTL DEF Spec, SessionSurvivesRekey
-----------------------------------------------------------------------------
(* Packets delivered twice *)

\* No session lives long enough for the counter to leave the width of "diff".
ShortSessions == \A m \in DataPackets : m.counter + 1 < DiffRange

\* What is marked is refused from then on, and nothing refused is accepted again.
LEMMA MarkedOnce ==
    ASSUME NEW w \in Windows, w.counter < DiffRange, NEW c \in Nat, c + 1 < DiffRange,
           AcceptsNonce(w, c)
    PROVE  LET v == MarkNonce(w, c)
           IN  /\ v.counter < DiffRange /\ ~AcceptsNonce(v, c)
               /\ \A e \in Nat : e + 1 < DiffRange /\ AcceptsNonce(v, e) => AcceptsNonce(w, e)
<1> DEFINE v == MarkNonce(w, c)
           k == w.counter
<1>1. /\ k \in Nat /\ w.bitmap \subseteq Bits /\ WindowSize \in Nat \ {0}
      /\ DiffRange \in Nat /\ SeqRange \in Nat /\ WindowSize <= DiffRange /\ DiffRange <= SeqRange
  BY WidthsAssumption DEF Windows
<1>2. \A e \in Nat : e + 1 < DiffRange => SeqOf(e) = e + 1
  BY <1>1 DEF SeqOf
<1>3. \A i, j \in Nat : i >= j /\ i < DiffRange => Diff(i, j) = i - j
  BY <1>1 DEF Diff
<1>4. CASE c + 1 > k
  <2> DEFINE ahead == c + 1 - k
  <2>1. SeqOf(c) = c + 1 /\ Diff(c + 1, k) = ahead
    BY <1>1, <1>2, <1>3, <1>4
  <2>2. v = [counter |-> c + 1,
             bitmap |-> {0} \cup (IF ahead < WindowSize THEN Shifted(w.bitmap, ahead) ELSE {})]
    BY <1>4, <2>1 DEF MarkNonce
  <2>3. v.counter = c + 1 /\ 0 \in v.bitmap
    BY <2>2
  <2>4. \A b \in w.bitmap : b + ahead < WindowSize => b + ahead \in v.bitmap
    <3> SUFFICES ASSUME NEW b \in w.bitmap, b + ahead < WindowSize PROVE b + ahead \in v.bitmap
      OBVIOUS
    <3>1. b \in Nat /\ ahead \in Nat /\ ahead < WindowSize /\ b + ahead \in Bits
      BY <1>1, <1>4 DEF Bits
    <3>2. b + ahead \in Shifted(w.bitmap, ahead)
      BY <3>1 DEF Shifted
    <3> QED
      BY <2>2, <3>1, <3>2
  <2> HIDE DEF v
  <2>5. ~AcceptsNonce(v, c)
    <3>1. Diff(c + 1, c + 1) = 0
      BY <1>3
    <3> QED
      BY <2>1, <2>3, <3>1 DEF AcceptsNonce
  <2>6. ASSUME NEW e \in Nat, e + 1 < DiffRange, AcceptsNonce(v, e)
        PROVE  AcceptsNonce(w, e)
    <3>1. SeqOf(e) = e + 1 /\ e + 1 # 0
      BY <1>2, <2>6
    <3>2. CASE e + 1 > k
      BY <3>1, <3>2 DEF AcceptsNonce
    <3>3. CASE e + 1 <= k
      <4>1. ~(e + 1 > c + 1) /\ Diff(c + 1, e + 1) = c - e /\ Diff(k, e + 1) = k - (e + 1)
        BY <1>1, <1>3, <1>4, <3>3
      <4>2. c - e < WindowSize /\ c - e \notin v.bitmap
        BY <2>3, <2>6, <3>1, <4>1 DEF AcceptsNonce
      <4>3. (k - (e + 1)) + ahead = c - e
        BY <1>1
      <4>4. k - (e + 1) \notin w.bitmap
        BY <2>4, <4>2, <4>3
      <4>5. k - (e + 1) < WindowSize
        BY <1>1, <1>4, <4>2
      <4> QED
        BY <3>1, <4>1, <4>4, <4>5 DEF AcceptsNonce
    <3> QED
      BY <1>1, <3>2, <3>3
  <2> QED
    BY <2>3, <2>5, <2>6 DEF v
<1>5. CASE c + 1 <= k
  <2>1. /\ SeqOf(c) = c + 1 /\ ~(c + 1 > k)
        /\ v = [w EXCEPT !.bitmap = @ \cup {Diff(k, c + 1)}]
    BY <1>1, <1>2, <1>5 DEF MarkNonce
  <2>2. v.counter = k /\ v.bitmap = w.bitmap \cup {Diff(k, c + 1)}
    BY <2>1 DEF Windows
  <2> HIDE DEF v, k
  <2>3. ~AcceptsNonce(v, c)
    BY <2>1, <2>2 DEF AcceptsNonce
  <2>4. \A e \in Nat : AcceptsNonce(v, e) => AcceptsNonce(w, e)
    BY <2>2 DEF AcceptsNonce, k
  <2> QED
    BY <2>2, <2>3, <2>4 DEF v, k
<1> QED
  BY <1>1, <1>4, <1>5

\* The packets with a payload that n may receive, out of a set of packets.
To(n, N) == {a \in N : a.type = "data" /\ a.payload # 0 /\ a.from # n}

\* In what follows T is the set of packets for one node with peer structure p, and
\* g says how often it handed each payload to ip_input.  Of the packets of a session
\* one at most is hot: delivered twice, or once and yet to be marked.
Hot(k, g, a) ==
    g[a.payload] = 2 \/ (g[a.payload] = 1 /\ AcceptsNonce(k.window, a.counter))

Marked(k, T, g) ==
    /\ k.window.counter < DiffRange
    /\ \A a \in T : a.key = KeyOf(k) /\ AcceptsNonce(k.window, a.counter) => g[a.payload] <= 1
    /\ \A a, b \in T :
         a.key = KeyOf(k) /\ b.key = KeyOf(k) /\ Hot(k, g, a) /\ Hot(k, g, b) => a = b

Unheard(k, T, g) == \A a \in T : a.key = KeyOf(k) => g[a.payload] = 0

\* A session without a packet delivered is "next", or new; and nothing has been
\* delivered yet under the session a pending initiation may become.
Heard(p, T, g) ==
    /\ \A a \in T : g[a.payload] <= 2
    /\ \A a, b \in T : a.key = b.key /\ g[a.payload] = 2 /\ g[b.payload] = 2 => a = b
    /\ p.hs.valid /\ p.hs.initiator =>
         \A a \in T : g[a.payload] > 0 => a.key[1] # p.hs.local
    /\ \A s \in Slots : p.kp[s].valid => Marked(p.kp[s], T, g)
    /\ p.kp["next"].valid => Unheard(p.kp["next"], T, g)

\* A session keeps its marks while only packets that were not delivered are added.
LEMMA MarkedKept ==
    ASSUME NEW j, NEW k, KeyOf(k) = KeyOf(j), k.window = j.window,
           NEW T, NEW g, NEW U, NEW h, Marked(j, T, g),
           \A a \in U : (a \in T /\ h[a.payload] = g[a.payload]) \/ h[a.payload] = 0
    PROVE  Marked(k, U, h)
  BY DEF Marked, Hot

\* A session under which nothing was delivered has no marks to keep.
LEMMA MarkedNew ==
    ASSUME NEW k, NEW T, NEW g, k.window.counter < DiffRange, Unheard(k, T, g)
    PROVE  Marked(k, T, g)
  BY DEF Marked, Hot, Unheard

LEMMA FreshCounter == FreshWindow.counter < DiffRange
  BY WidthsAssumption DEF FreshWindow

\* Sessions stay or go, packets are sent.
LEMMA HeardKept ==
    ASSUME NEW p, NEW q, NEW T, NEW g, NEW U, NEW h, Heard(p, T, g),
           \A s \in Slots : q.kp[s].valid =>
               Alike(p.kp[s], q.kp[s]) /\ q.kp[s].window = p.kp[s].window,
           \A a \in U : (a \in T /\ h[a.payload] = g[a.payload]) \/ h[a.payload] = 0,
           q.hs.valid /\ q.hs.initiator =>
               q.hs = p.hs \/ \A a \in U : h[a.payload] > 0 => a.key[1] # q.hs.local
    PROVE  Heard(q, U, h)
<1>1. ASSUME NEW s \in Slots, q.kp[s].valid
      PROVE  /\ p.kp[s].valid /\ KeyOf(p.kp[s]) = KeyOf(q.kp[s]) /\ Marked(q.kp[s], U, h)
  <2>1. Alike(p.kp[s], q.kp[s]) /\ q.kp[s].window = p.kp[s].window
    BY <1>1
  <2>2. p.kp[s].valid /\ KeyOf(p.kp[s]) = KeyOf(q.kp[s])
    BY <1>1, <2>1, AlikeKeys DEF Alike
  <2> QED
    BY <2>1, <2>2, MarkedKept DEF Heard
<1>2. q.kp["next"].valid => Unheard(q.kp["next"], U, h)
  BY <1>1 DEF Heard, Unheard, Slots
<1>3. (\A a \in U : h[a.payload] <= 2)
      /\ \A a, b \in U : a.key = b.key /\ h[a.payload] = 2 /\ h[b.payload] = 2 => a = b
  BY DEF Heard
<1>4. q.hs.valid /\ q.hs.initiator => \A a \in U : h[a.payload] > 0 => a.key[1] # q.hs.local
  BY DEF Heard
<1> QED
  BY <1>1, <1>2, <1>3, <1>4 DEF Heard

\* A new session, and others moved.
LEMMA HeardNew ==
    ASSUME NEW p, NEW q, NEW T, NEW g, Heard(p, T, g), NEW new \in Slots,
           q.kp[new].window = FreshWindow, Unheard(q.kp[new], T, g), ~q.hs.valid,
           \A s \in Slots \ {new} : q.kp[s].valid => s # "next" /\ \E t \in Slots : q.kp[s] = p.kp[t]
    PROVE  Heard(q, T, g)
<1>1. \A s \in Slots : q.kp[s].valid => Marked(q.kp[s], T, g)
  BY FreshCounter, MarkedNew DEF Heard
<1>2. q.kp["next"].valid => Unheard(q.kp["next"], T, g)
  BY DEF Slots
<1> QED
  BY <1>1, <1>2 DEF Heard

\* A packet m is delivered under the session of a slot, which is not "next": it is
\* marked there.
LEMMA HeardMarked ==
    ASSUME NEW p \in Peers, NEW q, NEW T, NEW g, NEW h, Heard(p, T, g),
           KeysApart(p), NEW slot \in Slots \ {"next"}, p.kp[slot].valid,
           NEW m \in T, m.key = KeyOf(p.kp[slot]), m.counter + 1 < DiffRange,
           \A a \in T : /\ g[a.payload] \in Nat
                      /\ a.counter \in Nat /\ a.counter + 1 < DiffRange,
           \A a \in T : h[a.payload] = IF a = m THEN g[a.payload] + 1 ELSE g[a.payload],
           AcceptsNonce(p.kp[slot].window, m.counter),
           q.kp[slot].window = MarkNonce(p.kp[slot].window, m.counter),
           \A s \in Slots : Alike(p.kp[s], q.kp[s]),
           \A s \in Slots \ {slot} : q.kp[s].window = p.kp[s].window,
           q.hs = p.hs,
           p.hs.valid /\ p.hs.initiator => m.key[1] # p.hs.local
    PROVE  Heard(q, T, h)
<1> DEFINE w == p.kp[slot].window
           v == q.kp[slot].window
<1>1. /\ w \in Windows /\ \A a \in T : a.counter \in Nat
      /\ \A s \in Slots : KeyOf(q.kp[s]) = KeyOf(p.kp[s]) /\ q.kp[s].valid = p.kp[s].valid
  BY SlotsTypes, AlikeKeys DEF Keypairs, Alike
<1>2. Marked(p.kp[slot], T, g)
  BY DEF Heard
<1>3. /\ v.counter < DiffRange /\ ~AcceptsNonce(v, m.counter)
      /\ \A a \in T : AcceptsNonce(v, a.counter) => AcceptsNonce(w, a.counter)
  BY <1>1, <1>2, MarkedOnce DEF Marked
<1>4. g[m.payload] <= 1
  BY <1>2 DEF Marked
<1> HIDE DEF w, v
<1>5. \A a \in T : a.key = m.key /\ Hot(q.kp[slot], h, a) => Hot(p.kp[slot], g, a)
  BY <1>3, <1>4 DEF Hot, w, v
<1>6. Marked(q.kp[slot], T, h)
  <2>1. \A a \in T : a.key = m.key /\ AcceptsNonce(v, a.counter) => h[a.payload] <= 1
    BY <1>2, <1>3 DEF Marked, w
  <2> QED
    BY <1>1, <1>2, <1>3, <1>5, <2>1 DEF Marked, v
<1>7. ASSUME NEW s \in Slots, s # slot, q.kp[s].valid
      PROVE  /\ Marked(q.kp[s], T, h)
             /\ s = "next" => Unheard(q.kp[s], T, h)
  <2>1. KeyOf(p.kp[s]) # m.key /\ p.kp[s].valid
    BY <1>1, <1>7 DEF KeysApart
  <2>2. Marked(p.kp[s], T, g) /\ (s = "next" => Unheard(p.kp[s], T, g))
    BY <2>1 DEF Heard
  <2>3. \A a \in T : a.key = KeyOf(q.kp[s]) => h[a.payload] = g[a.payload]
    BY <1>1, <2>1
  <2> QED
    BY <1>1, <1>7, <2>2, <2>3 DEF Marked, Hot, Unheard
<1>8. \A a \in T : h[a.payload] <= 2
  BY <1>4 DEF Heard
<1>9. ASSUME NEW a \in T, NEW b \in T, a.key = b.key, h[a.payload] = 2, h[b.payload] = 2
      PROVE  a = b
  <2>1. CASE a.key = m.key
    BY <1>1, <1>6, <1>9, <2>1 DEF Marked, Hot
  <2>2. CASE a.key # m.key
    BY <1>9, <2>2 DEF Heard
  <2> QED
    BY <2>1, <2>2
<1>10. q.hs.valid /\ q.hs.initiator => \A a \in T : h[a.payload] > 0 => a.key[1] # q.hs.local
  BY DEF Heard
<1>11. \A s \in Slots : q.kp[s].valid => Marked(q.kp[s], T, h)
  BY <1>6, <1>7
<1>12. q.kp["next"].valid => Unheard(q.kp["next"], T, h)
  BY <1>7 DEF Slots
<1> QED
  BY <1>8, <1>9, <1>10, <1>11, <1>12 DEF Heard

\* A packet m is delivered under "next", which becomes current and forgets it.
LEMMA HeardPromoted ==
    ASSUME NEW p \in Peers, NEW q, NEW T, NEW g, NEW h, Heard(p, T, g), KeysApart(p),
           p.kp["next"].valid, NEW m, m.key = KeyOf(p.kp["next"]),
           \A a \in T : g[a.payload] \in Nat,
           \A a \in T : h[a.payload] = g[a.payload] \/ (a = m /\ h[a.payload] = g[a.payload] + 1),
           Alike(p.kp["curr"], q.kp["prev"]), q.kp["prev"].window = p.kp["curr"].window,
           Alike(p.kp["next"], q.kp["curr"]), q.kp["curr"].window = p.kp["next"].window,
           ~q.kp["next"].valid, q.hs = p.hs,
           p.hs.valid /\ p.hs.initiator => m.key[1] # p.hs.local
    PROVE  Heard(q, T, h)
<1>1. KeyOf(q.kp["prev"]) = KeyOf(p.kp["curr"]) /\ KeyOf(q.kp["curr"]) = m.key
  BY AlikeKeys
<1>2. \A a \in T : a.key = m.key => g[a.payload] = 0
  BY DEF Heard, Unheard
<1>3. Marked(q.kp["curr"], T, h)
  <2>1. q.kp["curr"].window.counter < DiffRange
    BY DEF Heard, Slots, Marked
  <2>2. \A a \in T : a.key = m.key => h[a.payload] = 0 \/ (a = m /\ h[a.payload] = 1)
    BY <1>2
  <2> QED
    BY <1>1, <2>1, <2>2 DEF Marked, Hot
<1>4. q.kp["prev"].valid => Marked(q.kp["prev"], T, h)
  <2> SUFFICES ASSUME q.kp["prev"].valid PROVE Marked(q.kp["prev"], T, h)
    OBVIOUS
  <2>1. p.kp["curr"].valid /\ Marked(p.kp["curr"], T, g)
    BY DEF Heard, Slots, Alike
  <2>2. KeyOf(p.kp["curr"]) # m.key
    BY <2>1 DEF KeysApart, Slots
  <2>3. \A a \in T : a.key = KeyOf(q.kp["prev"]) => h[a.payload] = g[a.payload]
    BY <1>1, <2>2
  <2> QED
    BY <1>1, <2>1, <2>3 DEF Marked, Hot
<1>5. \A a \in T : h[a.payload] <= 2
  BY <1>2 DEF Heard
<1>6. ASSUME NEW a \in T, NEW b \in T, a.key = b.key, h[a.payload] = 2, h[b.payload] = 2
      PROVE  a = b
  <2>1. a # m /\ b # m
    BY <1>2, <1>6
  <2> QED
    BY <1>6, <2>1 DEF Heard
<1>7. q.hs.valid /\ q.hs.initiator => \A a \in T : h[a.payload] > 0 => a.key[1] # q.hs.local
  BY DEF Heard
<1> QED
  BY <1>3, <1>4, <1>5, <1>6, <1>7 DEF Heard, Slots

\* A payload number is used for one packet, and nothing is delivered before it is sent.
PayloadInv ==
    /\ \A a \in DataPackets : a.payload <= sent
    /\ \A a, b \in DataPackets : a.payload # 0 /\ a.payload = b.payload => a = b
    /\ \A n \in Nodes, x \in Payloads : x > sent => delivered[n][x] = 0

\* What a step does to the payloads: it sends the next one, or delivers one, or neither.
LEMMA PayloadCases ==
    ASSUME IInv, [Next]_vars
    PROVE  \/ /\ sent' = sent + 1 /\ sent < MaxPayloads /\ UNCHANGED delivered
              /\ \E c : net' = net \cup {c} /\ c.payload = sent + 1
           \/ /\ UNCHANGED sent /\ net \subseteq net'
              /\ \A c \in net' \ net : c.type = "data" => c.payload = 0
              /\ \/ UNCHANGED delivered
                 \/ \E n \in Nodes, m \in DataPackets : m.payload # 0 /\
                      delivered' = [delivered EXCEPT ![n][m.payload] = @ + 1]
<1>1. CASE UNCHANGED vars \/ Tick
  BY <1>1 DEF vars, Tick
<1>2. ASSUME NEW n \in Nodes, Output(n)
      PROVE  /\ UNCHANGED delivered
             /\ \/ /\ sent' = sent + 1 /\ sent < MaxPayloads
                   /\ \E c : net' = net \cup {c} /\ c.payload = sent + 1
                \/ UNCHANGED <<sent, net>>
  <2>1. DataPacket(n, peer[n], sent + 1).payload = sent + 1
    BY DEF DataPacket
  <2>2. /\ UNCHANGED delivered /\ sent < MaxPayloads
        /\ \/ net' = net \cup {DataPacket(n, peer[n], sent + 1)} /\ sent' = sent + 1
           \/ UNCHANGED <<sent, net>>
    BY <1>2 DEF Output
  <2> QED
    BY <2>1, <2>2
<1>3. ASSUME NEW n \in Nodes, Timer(n)
      PROVE  /\ UNCHANGED <<sent, delivered>> /\ net \subseteq net'
             /\ \A c \in net' \ net : c.type = "data" => c.payload = 0
  <2> DEFINE purged == TmrPurge(peer[n], now)
  <2>1. PICK alive, hello :
          net' = net \cup (IF alive THEN {DataPacket(n, purged, 0)} ELSE {})
                     \cup (IF hello THEN {InitPacket(n, draws + 1)} ELSE {})
    BY <1>3 DEF Timer
  <2>2. DataPacket(n, purged, 0).payload = 0 /\ InitPacket(n, draws + 1).type = "init"
    BY DEF DataPacket, InitPacket
  <2> QED
    BY <1>3, <2>1, <2>2 DEF Timer
<1>4. ASSUME NEW n \in Nodes, ReceiveInitiation(n)
      PROVE  /\ UNCHANGED <<sent, delivered>> /\ net \subseteq net'
             /\ \A c \in net' \ net : c.type = "data" => c.payload = 0
  BY <1>4 DEF ReceiveInitiation, RespPacket
<1>5. ASSUME NEW n \in Nodes, ReceiveResponse(n)
      PROVE  /\ UNCHANGED <<sent, delivered>> /\ net \subseteq net'
             /\ \A c \in net' \ net : c.type = "data" => c.payload = 0
  BY <1>5 DEF ReceiveResponse, DataPacket
<1>6. ASSUME NEW n \in Nodes, ReceiveData(n)
      PROVE  /\ UNCHANGED <<sent, net>>
             /\ \/ UNCHANGED delivered
                \/ \E m \in DataPackets : m.payload # 0 /\
                     delivered' = [delivered EXCEPT ![n][m.payload] = @ + 1]
  BY <1>6 DEF ReceiveData, DeliversData
<1>7. ASSUME NEW n \in Nodes, ReceiveStale(n) \/ Connect(n) \/ Disconnect(n) \/ Restart(n)
      PROVE  UNCHANGED <<sent, net, delivered>>
  BY <1>7 DEF ReceiveStale, Connect, Disconnect, Restart
<1> QED
  BY <1>1, <1>2, <1>3, <1>4, <1>5, <1>6, <1>7 DEF Next

LEMMA PayloadStep ==
    ASSUME IInv, PayloadInv, [Next]_vars
    PROVE  /\ PayloadInv' /\ net \subseteq net'
           /\ \A a \in DataPackets' : a \in net \/ a.payload = 0
                \/ \A n \in Nodes : delivered'[n][a.payload] = 0
<1>0. /\ net \subseteq PacketType /\ sent \in Nat /\ MaxPayloads \in Nat
      /\ delivered \in [Nodes -> [Payloads -> Nat]]
  BY TunnelAssumption DEF IInv, TypeOK
<1>1. \A a \in DataPackets : a.payload \in Nat /\ a.payload <= sent
  BY <1>0 DEF PayloadInv, DataPackets, PacketType
<1>2. CASE /\ sent' = sent + 1 /\ sent < MaxPayloads /\ UNCHANGED delivered
           /\ \E c : net' = net \cup {c} /\ c.payload = sent + 1
  <2>1. PICK c : net' = net \cup {c} /\ c.payload = sent + 1
    BY <1>2
  <2>2. \A a \in DataPackets' : a \in DataPackets \/ a = c
    BY <2>1 DEF DataPackets
  <2>3. sent + 1 \in Payloads /\ sent + 1 > sent
    BY <1>0, <1>2 DEF Payloads
  <2>4. \A n \in Nodes : delivered'[n][c.payload] = 0
    BY <1>2, <2>1, <2>3 DEF PayloadInv
  <2>5. \A a \in DataPackets' : a.payload <= sent'
    BY <1>0, <1>1, <1>2, <2>1, <2>2
  <2>6. \A a, b \in DataPackets' : a.payload # 0 /\ a.payload = b.payload => a = b
    BY <1>0, <1>1, <2>1, <2>2 DEF PayloadInv
  <2>7. \A n \in Nodes, x \in Payloads : x > sent' => delivered'[n][x] = 0
    BY <1>0, <1>2 DEF PayloadInv, Payloads
  <2> QED
    BY <2>1, <2>2, <2>4, <2>5, <2>6, <2>7 DEF PayloadInv, DataPackets, Payloads
<1>3. CASE /\ UNCHANGED sent /\ net \subseteq net'
           /\ \A c \in net' \ net : c.type = "data" => c.payload = 0
           /\ \/ UNCHANGED delivered
              \/ \E n \in Nodes, m \in DataPackets : m.payload # 0 /\
                   delivered' = [delivered EXCEPT ![n][m.payload] = @ + 1]
  <2>1. \A a \in DataPackets' : a \in DataPackets \/ a.payload = 0
    BY <1>3 DEF DataPackets
  <2>2. \A a \in DataPackets' : a.payload <= sent'
    BY <1>0, <1>1, <1>3, <2>1
  <2>3. \A a, b \in DataPackets' : a.payload # 0 /\ a.payload = b.payload => a = b
    BY <2>1 DEF PayloadInv
  <2>4. \A n \in Nodes, x \in Payloads : x > sent => delivered'[n][x] = delivered[n][x]
    <3>1. CASE UNCHANGED delivered
      BY <3>1
    <3>2. ASSUME NEW o \in Nodes, NEW m \in DataPackets, m.payload # 0,
                 delivered' = [delivered EXCEPT ![o][m.payload] = @ + 1]
          PROVE  \A n \in Nodes, x \in Payloads : x > sent => delivered'[n][x] = delivered[n][x]
      <4>1. \A x \in Payloads : x > sent => x # m.payload
        BY <1>0, <1>1 DEF Payloads
      <4> QED
        BY <1>0, <3>2, <4>1
    <3> QED
      BY <1>3, <3>1, <3>2
  <2>5. \A n \in Nodes, x \in Payloads : x > sent' => delivered'[n][x] = 0
    BY <1>3, <2>4 DEF PayloadInv
  <2> QED
    BY <1>3, <2>1, <2>2, <2>3, <2>5 DEF PayloadInv, DataPackets, Payloads
<1> QED
  BY <1>2, <1>3, PayloadCases

\* A pending initiation stays as it was made, and a new one has a new draw.
LEMMA HandshakeStep ==
    ASSUME IInv, SInv, [Next]_vars, NEW o \in Nodes, peer'[o].hs.valid, peer'[o].hs.initiator
    PROVE  peer'[o].hs = peer[o].hs \/ peer'[o].hs.local = draws + 1
<1>0. /\ peer \in [Nodes -> Peers] /\ now \in Nat /\ draws \in Nat
      /\ net \in SUBSET PacketType
      /\ \A n \in Nodes : peer[n] \in Peers /\ NodeInv(n, peer[n], net, draws)
      /\ NetDrawn(net, draws)
  BY DEF IInv, TypeOK
<1>1. CASE UNCHANGED vars \/ Tick
  BY <1>1 DEF vars, Tick
<1>2. ASSUME NEW n \in Nodes, NEW q, peer' = [peer EXCEPT ![n] = q],
             q.hs = peer[n].hs \/ ~q.hs.valid \/ q.hs.local = draws + 1
      PROVE  peer'[o].hs = peer[o].hs \/ peer'[o].hs.local = draws + 1
  BY <1>0, <1>2
<1>3. ASSUME NEW n \in Nodes, Output(n)
      PROVE  peer'[o].hs = peer[o].hs \/ peer'[o].hs.local = draws + 1
  <2>1. PICK ok \in BOOLEAN : peer' = [peer EXCEPT ![n] = wireguardif_output_to_peer(peer[n], now, ok)]
    BY <1>3 DEF Output
  <2> QED
    BY <1>0, <1>2, <2>1, OutputHandshake
<1>4. ASSUME NEW n \in Nodes, Timer(n)
      PROVE  peer'[o].hs = peer[o].hs \/ peer'[o].hs.local = draws + 1
  <2> DEFINE purged == TmrPurge(peer[n], now)
  <2>1. PICK ok \in BOOLEAN :
          LET kept == TmrKeepalive(purged, now, ok)
          IN  \/ peer' = [peer EXCEPT ![n] = wireguard_start_handshake(kept, draws + 1, now)]
              \/ peer' = [peer EXCEPT ![n] = kept]
    BY <1>4 DEF Timer
  <2> DEFINE kept == TmrKeepalive(purged, now, ok)
  <2>2. purged \in Peers /\ purged.hs = peer[n].hs
    <3>1. purged.hs = peer[n].hs
      BY <1>0 DEF TmrPurge, Peers
    <3> QED
      BY <1>0, <3>1, PurgeInv
  <2>3. /\ \/ peer' = [peer EXCEPT ![n] = wireguard_start_handshake(kept, draws + 1, now)]
           \/ peer' = [peer EXCEPT ![n] = kept]
    BY <2>1
  <2> HIDE DEF purged
  <2>4. kept \in Peers /\ kept.hs = peer[n].hs
    BY <1>0, <2>2, OutputType, OutputHandshake DEF TmrKeepalive
  <2> HIDE DEF kept
  <2>5. wireguard_start_handshake(kept, draws + 1, now).hs.local = draws + 1
    BY <2>4 DEF wireguard_start_handshake, Peers, Handshakes
  <2> QED
    BY <1>2, <2>3, <2>4, <2>5
<1>5. ASSUME NEW n \in Nodes, ReceiveInitiation(n)
      PROVE  peer'[o].hs = peer[o].hs \/ peer'[o].hs.local = draws + 1
  BY <1>5, InitiationStep
<1>6. ASSUME NEW n \in Nodes, ReceiveResponse(n)
      PROVE  peer'[o].hs = peer[o].hs \/ peer'[o].hs.local = draws + 1
  BY <1>6, ResponseStep DEF Started
<1>7. ASSUME NEW n \in Nodes, ReceiveData(n)
      PROVE  peer'[o].hs = peer[o].hs \/ peer'[o].hs.local = draws + 1
  <2>1. PICK m \in DataPackets, slot \in Slots : DataChanges(n, m, slot)
    BY <1>7, DataStep
  <2> QED
    BY <2>1 DEF DataChanges
<1>8. ASSUME NEW n \in Nodes, ReceiveStale(n)
      PROVE  peer'[o].hs = peer[o].hs \/ peer'[o].hs.local = draws + 1
  <2>1. PICK slot : peer' = [peer EXCEPT ![n].kp[slot] = EmptyKeypair]
    BY <1>8 DEF ReceiveStale
  <2>2. [peer[n] EXCEPT !.kp[slot] = EmptyKeypair].hs = peer[n].hs
    BY <1>0 DEF Peers
  <2> QED
    BY <1>0, <1>2, <2>1, <2>2
<1>9. ASSUME NEW n \in Nodes, Connect(n) \/ Disconnect(n)
      PROVE  peer'[o].hs = peer[o].hs \/ peer'[o].hs.local = draws + 1
  <2> DEFINE on  == [peer[n] EXCEPT !.active = TRUE, !.addr = ConnectAddr]
             off == [peer[n] EXCEPT !.active = FALSE, !.kp = NoKeypairs]
  <2>1. peer' = [peer EXCEPT ![n] = on] \/ peer' = [peer EXCEPT ![n] = off]
    BY <1>0, <1>9 DEF Connect, Disconnect
  <2>2. on.hs = peer[n].hs /\ off.hs = peer[n].hs
    BY <1>0 DEF Peers
  <2> HIDE DEF on, off
  <2> QED
    BY <1>2, <2>1, <2>2
<1>10. ASSUME NEW n \in Nodes, Restart(n)
       PROVE  peer'[o].hs = peer[o].hs \/ peer'[o].hs.local = draws + 1
  <2>1. peer' = [peer EXCEPT ![n] = NewPeer(peer[n].active)]
    BY <1>10 DEF Restart
  <2>2. ~NewPeer(peer[n].active).hs.valid
    BY DEF NewPeer
  <2> QED
    BY <1>2, <2>1, <2>2
<1> QED
  BY <1>1, <1>3, <1>4, <1>5, <1>6, <1>7, <1>8, <1>9, <1>10 DEF Next

ReplayInv ==
    /\ PayloadInv
    /\ \A n \in Nodes : Heard(peer[n], To(n, net), delivered[n])

\* The packets for n after a step that delivers nothing to it: those before, and new
\* ones that were not delivered.
LEMMA ToGrows ==
    ASSUME IInv, PayloadInv, [Next]_vars, NEW n \in Nodes, delivered'[n] = delivered[n]
    PROVE  \A a \in To(n, net') :
             \/ a \in To(n, net) /\ delivered'[n][a.payload] = delivered[n][a.payload]
             \/ delivered'[n][a.payload] = 0
<1> SUFFICES ASSUME NEW a \in To(n, net'), ~(delivered'[n][a.payload] = 0)
             PROVE  a \in To(n, net)
  OBVIOUS
<1>1. a \in DataPackets' /\ a.payload # 0
  BY DEF To, DataPackets
<1>2. a \in net
  BY <1>1, PayloadStep
<1> QED
  BY <1>2 DEF To

\* The node keeps some of its sessions, and nothing is delivered to it.
LEMMA HeardStays ==
    ASSUME IInv, SInv, PayloadInv, [Next]_vars, NEW n \in Nodes, delivered'[n] = delivered[n],
           NEW p, Heard(p, To(n, net), delivered[n]),
           p.hs = peer[n].hs \/ ~peer'[n].hs.valid,
           \A s \in Slots : peer'[n].kp[s].valid =>
               /\ Alike(p.kp[s], peer'[n].kp[s])
               /\ peer'[n].kp[s].window = p.kp[s].window
    PROVE  Heard(peer'[n], To(n, net'), delivered'[n])
<1> DEFINE q == peer'[n]
           T == To(n, net)
           U == To(n, net')
           g == delivered[n]
           h == delivered'[n]
<1>1. \A a \in U : (a \in T /\ h[a.payload] = g[a.payload]) \/ h[a.payload] = 0
  BY ToGrows
<1>2. q.hs.valid /\ q.hs.initiator =>
        q.hs = p.hs \/ \A a \in U : h[a.payload] > 0 => a.key[1] # q.hs.local
  <2> SUFFICES ASSUME q.hs.valid, q.hs.initiator, q.hs # p.hs,
                      NEW a \in U, h[a.payload] > 0
               PROVE  a.key[1] # q.hs.local
    OBVIOUS
  <2>1. q.hs.local = draws + 1
    BY HandshakeStep
  <2>2. a \in net /\ a.type = "data"
    BY <1>1 DEF To
  <2>3. a.key \in Nat \X Nat /\ a.key[1] <= draws /\ draws \in Nat
    BY <2>2 DEF IInv, NetDrawn, TypeOK, PacketType
  <2> QED
    BY <2>1, <2>3
<1> HIDE DEF q, T, U, g, h
<1>3. Heard(p, T, g)
  BY DEF T, g
<1>4. \A s \in Slots : q.kp[s].valid => Alike(p.kp[s], q.kp[s]) /\ q.kp[s].window = p.kp[s].window
  BY DEF q
<1>5. Heard(q, U, h)
  BY <1>1, <1>2, <1>3, <1>4, HeardKept
<1> QED
  BY <1>5 DEF q, U, h

LEMMA KeepsAlike ==
    ASSUME NEW p, NEW q, Keeps(p, q), p \in Peers, q \in Peers
    PROVE  \A s \in Slots : q.kp[s].valid =>
             Alike(p.kp[s], q.kp[s]) /\ q.kp[s].window = p.kp[s].window
<1> SUFFICES ASSUME NEW s \in Slots, q.kp[s].valid
             PROVE  Alike(p.kp[s], q.kp[s]) /\ q.kp[s].window = p.kp[s].window
  OBVIOUS
<1>1. Like(p.kp[s], q.kp[s])
  BY DEF Keeps
<1>2. p.kp[s].valid = q.kp[s].valid
  BY <1>1, SlotsTypes DEF Like, Keypairs
<1> QED
  BY <1>1, <1>2 DEF Like, Alike

\* The new session of an answered initiation, which waits in "next".
LEMMA InitiationHeard ==
    ASSUME IInv, SInv, ReplayInv, [Next]_vars, NEW n \in Nodes, ReceiveInitiation(n)
    PROVE  Heard(peer'[n], To(n, net'), delivered'[n])
<1> DEFINE q == peer'[n]
           T == To(n, net)
           g == delivered[n]
<1>1. PICK m \in InitPackets :
        /\ q.kp["curr"] = peer[n].kp["curr"] /\ ~q.kp["prev"].valid
        /\ q.kp["next"].local = draws + 1 /\ q.kp["next"].remote = m.sender
        /\ ~q.kp["next"].initiator /\ q.kp["next"].window = FreshWindow /\ ~q.hs.valid
        /\ UNCHANGED delivered
  BY InitiationStep
<1>2. Unheard(q.kp["next"], T, g)
  <2> SUFFICES ASSUME NEW a \in T, a.key = KeyOf(q.kp["next"]) PROVE FALSE
    BY DEF Unheard
  <2>1. a.key[2] = draws + 1
    BY <1>1 DEF KeyOf
  <2>2. a.key \in Nat \X Nat /\ a.key[2] <= draws /\ draws \in Nat
    BY DEF To, IInv, NetDrawn, TypeOK, PacketType
  <2> QED
    BY <2>1, <2>2
<1>3. Heard(peer[n], T, g)
  BY DEF ReplayInv
<1> HIDE DEF q, T, g
<1>4. "next" \in Slots /\ \A s \in Slots \ {"next"} : q.kp[s].valid =>
        s # "next" /\ \E t \in Slots : q.kp[s] = peer[n].kp[t]
  BY <1>1 DEF Slots
<1>5. Heard(q, T, g)
  BY <1>1, <1>2, <1>3, <1>4, HeardNew
<1>6. \A s \in Slots : Alike(q.kp[s], q.kp[s])
  BY DEF Alike
<1> QED
  BY <1>1, <1>5, <1>6, HeardStays DEF q, T, g, ReplayInv

\* The new session of an accepted response: the pending initiation becomes current.
LEMMA ResponseHeard ==
    ASSUME IInv, IInv', SInv, ReplayInv, [Next]_vars, NEW n \in Nodes, ReceiveResponse(n)
    PROVE  Heard(peer'[n], To(n, net'), delivered'[n])
<1> DEFINE T == To(n, net)
           g == delivered[n]
<1>1. PICK m \in RespPackets, p \in Peers :
        /\ Started(n, m, p) /\ Keeps(p, peer'[n]) /\ peer'[n].hs = p.hs
        /\ UNCHANGED delivered
  BY ResponseStep
<1>2. /\ peer[n].hs.valid /\ peer[n].hs.initiator /\ peer[n].hs.local = m.receiver
      /\ p.kp["curr"].local = m.receiver /\ p.kp["curr"].initiator
      /\ p.kp["curr"].window = FreshWindow /\ ~p.hs.valid /\ ~p.kp["next"].valid
      /\ p.kp["prev"] = IF peer[n].kp["next"].valid THEN peer[n].kp["next"] ELSE peer[n].kp["curr"]
  BY <1>1 DEF Started
<1>3. Heard(peer[n], T, g)
  BY DEF ReplayInv
<1>4. Unheard(p.kp["curr"], T, g)
  <2> SUFFICES ASSUME NEW a \in T, a.key = KeyOf(p.kp["curr"]) PROVE g[a.payload] = 0
    BY DEF Unheard
  <2>1. a.key[1] = peer[n].hs.local
    BY <1>2 DEF KeyOf
  <2>2. ~(g[a.payload] > 0)
    BY <1>2, <1>3, <2>1 DEF Heard
  <2>3. a.payload \in Payloads
    BY DEF To, IInv, TypeOK, PacketType, Payloads
  <2>4. g[a.payload] \in Nat
    BY <2>3 DEF IInv, TypeOK
  <2> QED
    BY <2>2, <2>4
<1> HIDE DEF T, g
<1>5. "curr" \in Slots /\ \A s \in Slots \ {"curr"} : p.kp[s].valid =>
        s # "next" /\ \E t \in Slots : p.kp[s] = peer[n].kp[t]
  BY <1>2 DEF Slots
<1>6. Heard(p, T, g)
  BY <1>2, <1>3, <1>4, <1>5, HeardNew
<1>7. peer'[n] \in Peers
  BY DEF IInv, TypeOK
<1>8. \A s \in Slots : peer'[n].kp[s].valid =>
        Alike(p.kp[s], peer'[n].kp[s]) /\ peer'[n].kp[s].window = p.kp[s].window
  BY <1>1, <1>7, KeepsAlike
<1> QED
  BY <1>1, <1>2, <1>6, <1>8, HeardStays DEF T, g, ReplayInv

\* A data packet: delivered and marked, delivered and forgotten, or not delivered.
LEMMA DataHeard ==
    ASSUME IInv, IInv', SInv, ReplayInv, ShortSessions, [Next]_vars, NEW n \in Nodes,
           ReceiveData(n)
    PROVE  Heard(peer'[n], To(n, net'), delivered'[n])
<1> DEFINE p == peer[n]
           q == peer'[n]
           T == To(n, net)
           g == delivered[n]
           h == delivered'[n]
<1>1. PICK m \in DataPackets, slot \in Slots : DataChanges(n, m, slot)
  BY DataStep
<1>2. /\ p \in Peers /\ q \in Peers /\ KeysApart(p) /\ PendingUnused(n, p, net)
      /\ net \subseteq PacketType /\ delivered \in [Nodes -> [Payloads -> Nat]]
      /\ Heard(p, T, g) /\ To(n, net') = T
  BY <1>1 DEF IInv, TypeOK, NodeInv, ReplayInv, DataChanges
<1>3. /\ m.from # n /\ m.key = KeyOf(p.kp[slot]) /\ p.kp[slot].valid
      /\ q.hs = p.hs
  BY <1>1 DEF DataChanges
<1>4. p.hs.valid /\ p.hs.initiator => m.key[1] # p.hs.local
  BY <1>2, <1>3 DEF PendingUnused
<1>5. /\ \A a \in T : a \in DataPackets /\ a.payload \in Payloads
      /\ \A a \in T : /\ g[a.payload] \in Nat
                      /\ a.counter \in Nat /\ a.counter + 1 < DiffRange
  <2>1. ASSUME NEW a \in T
        PROVE  /\ a \in DataPackets /\ a.payload \in 0 .. MaxPayloads /\ a.payload # 0
               /\ a.counter \in Nat
    BY <1>2 DEF To, DataPackets, PacketType
  <2>2. \A a \in T : a.payload \in Payloads
    BY <2>1, TunnelAssumption DEF Payloads
  <2> QED
    BY <1>2, <2>1, <2>2 DEF ShortSessions
<1>6. ASSUME Delivers(n, m)
      PROVE  /\ m \in T
             /\ \A a \in T : h[a.payload] = IF a = m THEN g[a.payload] + 1 ELSE g[a.payload]
  <2>1. m \in T
    BY <1>3, <1>6 DEF Delivers, To, DataPackets
  <2>2. \A a \in T : a.payload = m.payload => a = m
    BY <1>5, <1>6 DEF ReplayInv, PayloadInv, Delivers
  <2>3. h = [g EXCEPT ![m.payload] = @ + 1]
    BY <1>2, <1>6 DEF Delivers
  <2>4. g \in [Payloads -> Nat]
    BY <1>2
  <2> HIDE DEF T, g, h
  <2> QED
    BY <1>5, <2>1, <2>2, <2>3, <2>4
<1>7. ASSUME slot # "next", Marks(n, m, slot), Delivers(n, m)
      PROVE  Heard(q, T, h)
  <2>1. /\ \A s \in Slots : Alike(p.kp[s], q.kp[s])
        /\ \A s \in Slots \ {slot} : q.kp[s].window = p.kp[s].window
    BY <1>1, <1>7 DEF DataChanges
  <2>2. /\ AcceptsNonce(p.kp[slot].window, m.counter)
        /\ q.kp[slot].window = MarkNonce(p.kp[slot].window, m.counter)
    BY <1>7 DEF Marks
  <2> HIDE DEF p, q, T, g, h
  <2>3. m \in T /\ m.counter + 1 < DiffRange /\ slot \in Slots \ {"next"}
    BY <1>5, <1>6, <1>7
  <2> QED
    BY <1>2, <1>3, <1>4, <1>5, <1>6, <1>7, <2>1, <2>2, <2>3, HeardMarked
<1>8. ASSUME slot # "next", UNCHANGED delivered,
             q.kp[slot].window = p.kp[slot].window
      PROVE  Heard(q, To(n, net'), h)
  <2>1. \A s \in Slots : Alike(p.kp[s], q.kp[s]) /\ q.kp[s].window = p.kp[s].window
    BY <1>1, <1>8 DEF DataChanges
  <2> QED
    BY <1>2, <1>3, <1>8, <2>1, HeardStays DEF ReplayInv
<1>9. ASSUME slot = "next"
      PROVE  Heard(q, T, h)
  <2>1. \A a \in T : h[a.payload] = g[a.payload] \/ (a = m /\ h[a.payload] = g[a.payload] + 1)
    <3>1. CASE Delivers(n, m)
      BY <1>6, <3>1
    <3>2. CASE UNCHANGED delivered
      BY <3>2
    <3> QED
      BY <1>1, <1>9, <3>1, <3>2 DEF DataChanges
  <2>2. /\ Alike(p.kp["curr"], q.kp["prev"]) /\ q.kp["prev"].window = p.kp["curr"].window
        /\ Alike(p.kp["next"], q.kp["curr"]) /\ q.kp["curr"].window = p.kp["next"].window
        /\ ~q.kp["next"].valid
    BY <1>1, <1>9 DEF DataChanges, Promoted
  <2> HIDE DEF p, q, T, g, h
  <2> QED
    BY <1>2, <1>3, <1>4, <1>5, <1>9, <2>1, <2>2, HeardPromoted
<1> QED
  BY <1>1, <1>2, <1>7, <1>8, <1>9 DEF DataChanges

LEMMA ReplayStep ==
    IInv /\ IInv' /\ SInv /\ ShortSessions /\ ReplayInv /\ [Next]_vars => ReplayInv'
<1> SUFFICES ASSUME IInv, IInv', SInv, ShortSessions, ReplayInv, [Next]_vars PROVE ReplayInv'
  OBVIOUS
<1>1. PayloadInv'
  BY PayloadStep DEF ReplayInv
<1>2. /\ delivered \in [Nodes -> [Payloads -> Nat]]
      /\ \A o \in Nodes : peer[o] \in Peers /\ peer'[o] \in Peers
  BY DEF IInv, TypeOK
<1>3. ASSUME NEW o \in Nodes, peer'[o] = peer[o], delivered'[o] = delivered[o]
      PROVE  Heard(peer'[o], To(o, net'), delivered'[o])
  <2>1. \A s \in Slots : Alike(peer[o].kp[s], peer'[o].kp[s])
    BY <1>3 DEF Alike
  <2> QED
    BY <1>3, <2>1, HeardStays DEF ReplayInv
<1>4. ASSUME NEW n \in Nodes, TunnelCases(n), NEW o \in Nodes
      PROVE  Heard(peer'[o], To(o, net'), delivered'[o])
  <2>1. CASE o # n
    <3>1. peer'[o] = peer[o]
      <4>1. CASE QuietStepOf(n)
        BY <2>1, <4>1 DEF QuietStepOf
      <4>2. CASE ReceiveInitiation(n)
        BY <2>1, <4>2, InitiationStep
      <4>3. CASE ReceiveResponse(n)
        BY <2>1, <4>3, ResponseStep
      <4>4. CASE ReceiveData(n)
        <5>1. PICK m \in DataPackets, slot \in Slots : DataChanges(n, m, slot)
          BY <4>4, DataStep
        <5> QED
          BY <2>1, <5>1 DEF DataChanges
      <4>5. CASE Restart(n)
        BY <2>1, <4>5, RestartStepOf
      <4> QED
        BY <1>4, <4>1, <4>2, <4>3, <4>4, <4>5 DEF TunnelCases
    <3>2. delivered'[o] = delivered[o]
      <4>1. CASE QuietStepOf(n)
        BY <4>1 DEF QuietStepOf
      <4>2. CASE ReceiveInitiation(n)
        BY <4>2 DEF ReceiveInitiation
      <4>3. CASE ReceiveResponse(n)
        BY <4>3 DEF ReceiveResponse
      <4>4. CASE ReceiveData(n)
        BY <1>2, <2>1, <4>4 DEF ReceiveData
      <4>5. CASE Restart(n)
        BY <4>5 DEF Restart
      <4> QED
        BY <1>4, <4>1, <4>2, <4>3, <4>4, <4>5 DEF TunnelCases
    <3> QED
      BY <1>3, <3>1, <3>2
  <2>2. CASE o = n /\ QuietStepOf(n)
    <3>1. Keeps(peer[n], peer'[n]) /\ UNCHANGED delivered
      BY <2>2 DEF QuietStepOf
    <3>2. \A s \in Slots : peer'[n].kp[s].valid =>
            Alike(peer[n].kp[s], peer'[n].kp[s]) /\ peer'[n].kp[s].window = peer[n].kp[s].window
      BY <1>2, <3>1, KeepsAlike
    <3> QED
      BY <2>2, <3>1, <3>2, HeardStays DEF ReplayInv
  <2>3. CASE o = n /\ Restart(n)
    <3>1. UNCHANGED delivered /\ \A s \in Slots : ~peer'[n].kp[s].valid
      BY <2>3, RestartStepOf
    <3> QED
      BY <2>3, <3>1, HeardStays DEF ReplayInv
  <2> QED
    BY <1>4, <2>1, <2>2, <2>3, InitiationHeard, ResponseHeard, DataHeard DEF TunnelCases
<1>5. ASSUME NEW o \in Nodes PROVE Heard(peer'[o], To(o, net'), delivered'[o])
  BY <1>3, <1>4, StepCases
<1> QED
  BY <1>1, <1>5 DEF ReplayInv

\* Of the data packets of one session one at most is handed to ip_input twice, and none
\* three times: the packet that promoted "next", whose mark is lost with the slot.  As
\* for the replay filter alone, no session is long enough to wrap "diff": 2^32 packets
\* do not fit in the REJECT_AFTER_TIME of a session.
THEOREM ReplayedAtMostOnce == Spec /\ []ShortSessions => []OneReplayPerSession
<1>1. Init => ReplayInv
  <2> SUFFICES ASSUME Init PROVE ReplayInv
    OBVIOUS
  <2>1. PICK active \in [Nodes -> BOOLEAN] : peer = [n \in Nodes |-> NewPeer(active[n])]
    BY DEF Init
  <2>2. \A n \in Nodes : ~peer[n].hs.valid /\ \A s \in Slots : ~peer[n].kp[s].valid
    BY <2>1 DEF NewPeer, NoKeypairs, EmptyKeypair
  <2>3. \A n \in Nodes : Heard(peer[n], To(n, net), delivered[n])
    BY <2>2 DEF Heard, To, Init, Slots
  <2> QED
    BY <2>3 DEF ReplayInv, PayloadInv, DataPackets, Init
<1>2. IInv /\ ReplayInv => OneReplayPerSession
  <2> SUFFICES ASSUME IInv, ReplayInv, NEW n \in Nodes,
                      NEW a \in DataPackets, NEW b \in DataPackets,
                      a.payload # 0, b.payload # 0, a.from # n, b.from # n,
                      delivered[n][a.payload] > 1, delivered[n][b.payload] > 1
               PROVE  delivered[n][a.payload] = 2 /\ (a.key = b.key => a = b)
    BY DEF OneReplayPerSession
  <2>1. /\ delivered \in [Nodes -> [Payloads -> Nat]]
        /\ a.payload \in Payloads /\ b.payload \in Payloads
    <3>1. a.payload \in 0 .. MaxPayloads /\ b.payload \in 0 .. MaxPayloads
      BY DEF IInv, TypeOK, DataPackets, PacketType
    <3>2. delivered \in [Nodes -> [Payloads -> Nat]]
      BY DEF IInv, TypeOK
    <3>3. \A x \in 0 .. MaxPayloads : x # 0 => x \in Payloads
      BY TunnelAssumption DEF Payloads
    <3> QED
      BY <3>1, <3>2, <3>3
  <2>2. a \in To(n, net) /\ b \in To(n, net)
    BY DEF To, DataPackets
  <2>3. delivered[n][a.payload] = 2 /\ delivered[n][b.payload] = 2
    <3>1. delivered[n][a.payload] <= 2 /\ delivered[n][b.payload] <= 2
      BY <2>2 DEF ReplayInv, Heard
    <3>2. delivered[n][a.payload] \in Nat /\ delivered[n][b.payload] \in Nat
      BY <2>1
    <3> QED
      BY <3>1, <3>2
  <2> QED
    BY <2>2, <2>3 DEF ReplayInv, Heard
<1> QED
  BY <1>1, <1>2, ReplayStep, TunnelInvariant, SlotsInvariant, PTL DEF Spec

=============================================================================
