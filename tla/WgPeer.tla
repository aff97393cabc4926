------------------------------- MODULE WgPeer -------------------------------
(***************************************************************************)
(* One WireGuard peer as an end point sees it: struct wireguard_peer and   *)
(* the functions of component/wireguard that change it.  Every operator    *)
(* maps the peer before a C call to the peer after it (or to a packet the  *)
(* call sends), under the C function's name where it has one.              *)
(*                                                                         *)
(* What is abstracted: wireguard_create_handshake_{initiation,response}    *)
(* draw an ephemeral key, read the TAI64N clock and draw a local index in  *)
(* one go; here one number, the "draw", stands for the three.  A session   *)
(* key is the pair of draws that were mixed into its chaining key, and     *)
(* decryption succeeds exactly when both ends hold the same pair.          *)
(***************************************************************************)
EXTENDS Integers, ReplayWindow

CONSTANTS
    RejectAfterTime,       \* REJECT_AFTER_TIME, 180 s
    RekeyAfterTime,        \* REKEY_AFTER_TIME, 120 s
    RekeyTimeout,          \* REKEY_TIMEOUT, 5 s
    KeepaliveInterval,     \* keepalive_interval of the peer, 25 s here
    RejectAfterMessages,   \* 2^64 - 2^13 - 1
    RekeyAfterMessages,    \* 2^60
    Addrs,                 \* addresses a packet may come from
    ConnectAddr            \* connect_ip, the configured one

ASSUME PeerAssumption ==
    /\ RejectAfterTime \in Nat \ {0} /\ RekeyAfterTime \in Nat
    /\ RekeyTimeout \in Nat /\ KeepaliveInterval \in Nat
    /\ RejectAfterMessages \in Nat /\ RekeyAfterMessages \in Nat
    /\ ConnectAddr \in Addrs

Slots == {"curr", "prev", "next"}

Keypairs ==
    [valid : BOOLEAN, initiator : BOOLEAN, born : Nat, counter : Nat,
     lastRx : Nat, window : Windows, local : Nat, remote : Nat]

Handshakes == [valid : BOOLEAN, initiator : BOOLEAN, local : Nat, remote : Nat]

Peers ==
    [active : BOOLEAN, hs : Handshakes, kp : [Slots -> Keypairs],
     greatest : Nat, lastInitTx : Nat, lastTx : Nat,
     sendHandshake : BOOLEAN, addr : Addrs]

\* Mutant: "never received" kept as -1.
EmptyKeypair_MinusOne ==
    [valid |-> FALSE, initiator |-> FALSE, born |-> 0, counter |-> 0,
     lastRx |-> -1, window |-> FreshWindow, local |-> 0, remote |-> 0]

\* keypair_destroy zeroes the structure.
EmptyKeypair ==
    [valid |-> FALSE, initiator |-> FALSE, born |-> 0, counter |-> 0,
     lastRx |-> 0, window |-> FreshWindow, local |-> 0, remote |-> 0]

NoKeypairs == [s \in Slots |-> EmptyKeypair]

\* A peer as wireguardif_add_peer leaves it; "greatest_timestamp" is the zero
\* that wireguardif_peer_init puts there.
NewPeer(active) ==
    [active |-> active,
     hs |-> [valid |-> FALSE, initiator |-> FALSE, local |-> 0, remote |-> 0],
     kp |-> NoKeypairs, greatest |-> 0, lastInitTx |-> 0, lastTx |-> 0,
     sendHandshake |-> FALSE, addr |-> ConnectAddr]

wireguard_expired(created, seconds, now) == now - created >= seconds

-----------------------------------------------------------------------------
(* Keypair slots *)

\* The pair of draws a session key is derived from, initiator's first.
KeyOf(k) == IF k.initiator THEN <<k.local, k.remote>> ELSE <<k.remote, k.local>>

\* The first packet under "next" proves that the initiator holds the key.
keypair_update(kp, slot) ==
    IF slot = "next"
    THEN [kp EXCEPT !["prev"] = kp["curr"],
                    !["curr"] = kp["next"],
                    !["next"] = EmptyKeypair]
    ELSE kp

\* Mutant: "next" is copied to "prev" and not destroyed.
add_new_keypair_KeepNext(kp, new) ==
    IF new.initiator
    THEN [kp EXCEPT !["prev"] = IF kp["next"].valid THEN kp["next"] ELSE kp["curr"],
                    !["curr"] = new]
    ELSE [kp EXCEPT !["next"] = new, !["prev"] = EmptyKeypair]

\* Mutant: the responder's session becomes current at once.
add_new_keypair_Eager(kp, new) ==
    [kp EXCEPT !["prev"] = IF kp["next"].valid THEN kp["next"] ELSE kp["curr"],
               !["next"] = EmptyKeypair,
               !["curr"] = new]

add_new_keypair(kp, new) ==
    IF new.initiator
    THEN [kp EXCEPT !["prev"] = IF kp["next"].valid THEN kp["next"] ELSE kp["curr"],
                    !["next"] = IF kp["next"].valid THEN EmptyKeypair ELSE @,
                    !["curr"] = new]
    ELSE [kp EXCEPT !["next"] = new, !["prev"] = EmptyKeypair]

SlotsWithIndex(kp, idx) == {s \in Slots : kp[s].valid /\ kp[s].local = idx}

\* The slot get_peer_keypair_for_idx returns, when there is one.
get_peer_keypair_for_idx(kp, idx) ==
    LET found == SlotsWithIndex(kp, idx)
    IN  IF "curr" \in found THEN "curr"
        ELSE IF "next" \in found THEN "next" ELSE "prev"

\* Mutant: the handshake is not cleared once it has become a session.
wireguard_start_session_KeepHandshake(p, initiator, now) ==
    [p EXCEPT !.kp = add_new_keypair(@,
        [valid |-> TRUE, initiator |-> initiator, born |-> now,
         counter |-> 0, lastRx |-> 0, window |-> FreshWindow,
         local |-> p.hs.local, remote |-> p.hs.remote])]

wireguard_start_session(p, initiator, now) ==
    LET new == [valid |-> TRUE, initiator |-> initiator, born |-> now,
                counter |-> 0, lastRx |-> 0, window |-> FreshWindow,
                local |-> p.hs.local, remote |-> p.hs.remote]
    IN  [p EXCEPT !.hs = [@ EXCEPT !.valid = FALSE, !.local = 0, !.remote = 0],
                  !.kp = add_new_keypair(@, new)]

-----------------------------------------------------------------------------
(* Sending data *)

\* A responder that has received nothing yet falls back to the old session.
SendSlot(kp) ==
    IF kp["curr"].valid /\ ~kp["curr"].initiator /\ kp["curr"].lastRx = 0
    THEN "prev" ELSE "curr"

HasKey(k) == k.valid /\ (k.initiator \/ k.lastRx # 0)

Usable(k, now) ==
    /\ ~wireguard_expired(k.born, RejectAfterTime, now)
    /\ k.counter < RejectAfterMessages

\* Checked with the counter already advanced by the encryption.
RekeyAfterSend(k, now) ==
    \/ k.counter + 1 >= RekeyAfterMessages
    \/ k.initiator /\ wireguard_expired(k.born, RekeyAfterTime, now)

\* The call reaches wireguard_encrypt_packet.
Encrypts(p, now) ==
    LET k == p.kp[SendSlot(p.kp)] IN HasKey(k) /\ Usable(k, now)

\* "ok": wireguardif_peer_output returned ERR_OK.
wireguardif_output_to_peer(p, now, ok) ==
    LET s == SendSlot(p.kp)
        k == p.kp[s]
    IN  IF Encrypts(p, now)
        THEN [p EXCEPT !.kp = [@ EXCEPT ![s] = [k EXCEPT !.counter = @ + 1]],
                       !.lastTx = IF ok THEN now ELSE @,
                       !.sendHandshake = @ \/ RekeyAfterSend(k, now)]
        ELSE IF HasKey(k)
        THEN [p EXCEPT !.kp = [@ EXCEPT ![s] = EmptyKeypair]]
        ELSE p

\* The packet that call puts on the wire for node n; payload 0 is a keepalive.
DataPacket(n, p, payload) ==
    LET k == p.kp[SendSlot(p.kp)]
    IN  [type |-> "data", from |-> n, key |-> KeyOf(k), receiver |-> k.remote,
         counter |-> k.counter, payload |-> payload]

-----------------------------------------------------------------------------
(* Receiving *)

\* Mutant: an equal timestamp is good enough.
AcceptsInitiation_OrEqual(p, sender) == sender >= p.greatest

\* wireguard_process_initiation_message: the timestamp must be new.
AcceptsInitiation(p, sender) == sender > p.greatest

\* Mutant: sending the response promotes the session, as if it were confirmed.
ProcessInitiation_Confirmed(p, sender, draw, addr, now) ==
    LET answered == wireguard_start_session(
            [p EXCEPT !.greatest = sender,
                      !.addr = addr,
                      !.hs = [valid |-> TRUE, initiator |-> FALSE,
                              local |-> draw, remote |-> sender]],
            FALSE, now)
    IN  [answered EXCEPT !.kp = keypair_update([@ EXCEPT !["next"].lastRx = now], "next")]

\* The initiation is accepted and wireguardif_send_handshake_response runs.
ProcessInitiation(p, sender, draw, addr, now) ==
    wireguard_start_session(
        [p EXCEPT !.greatest = sender,
                  !.addr = addr,
                  !.hs = [valid |-> TRUE, initiator |-> FALSE,
                          local |-> draw, remote |-> sender]],
        FALSE, now)

\* peer_lookup_by_handshake, and the response was made for this initiation.
AcceptsResponse(p, receiver) ==
    p.hs.valid /\ p.hs.initiator /\ p.hs.local = receiver

\* wireguardif_process_response_message up to its keepalive.
ProcessResponse(p, sender, addr, now) ==
    wireguard_start_session(
        [p EXCEPT !.addr = addr, !.hs = [@ EXCEPT !.remote = sender]],
        TRUE, now)

\* wireguardif_process_data_message, for a packet that decrypts.  After
\* keypair_update the C pointer still names the slot it named before: when the
\* packet promoted "next", the rekey test reads, and the replay window of a
\* payload is marked in, the slot that was just destroyed.
ProcessData(p, slot, nonce, payload, addr, now) ==
    LET promoted == keypair_update([p.kp EXCEPT ![slot].lastRx = now], slot)
        named    == promoted[slot]
        marked   == [named EXCEPT !.window = wireguard_check_replay(@, nonce)]
    IN  [p EXCEPT
            !.addr = addr,
            !.kp = IF payload = 0 THEN promoted
                   ELSE [promoted EXCEPT ![slot] = marked],
            !.sendHandshake =
                @ \/ /\ named.initiator
                     /\ wireguard_expired(named.born,
                            RejectAfterTime - KeepaliveInterval - RekeyTimeout,
                            now)]

\* Whether that call hands the payload to ip_input.
DeliversData(p, slot, nonce, payload) ==
    /\ payload # 0
    /\ AcceptsNonce(keypair_update(p.kp, slot)[slot].window, nonce)

-----------------------------------------------------------------------------
(* The 400 ms timer *)

should_reset_peer(p, now) ==
    /\ p.kp["curr"].valid
    /\ wireguard_expired(p.kp["curr"].born, RejectAfterTime * 3, now)

\* Mutant: the session is destroyed when it should only be rekeyed.
should_destroy_current_keypair_AtRekey(p, now) ==
    /\ p.kp["curr"].valid
    /\ wireguard_expired(p.kp["curr"].born, RekeyAfterTime, now)

should_destroy_current_keypair(p, now) ==
    p.kp["curr"].valid /\ ~Usable(p.kp["curr"], now)

peer_is_up(p) == p.kp["curr"].valid \/ p.kp["prev"].valid

should_send_keepalive(p, now) ==
    /\ KeepaliveInterval > 0
    /\ peer_is_up(p)
    /\ wireguard_expired(p.lastTx, KeepaliveInterval, now)

wireguardif_can_send_initiation(p, now) ==
    p.lastInitTx = 0 \/ wireguard_expired(p.lastInitTx, RekeyTimeout, now)

should_send_initiation(p, now) ==
    /\ wireguardif_can_send_initiation(p, now)
    /\ \/ p.sendHandshake
       \/ /\ p.kp["curr"].valid /\ ~p.kp["curr"].initiator
          /\ wireguard_expired(p.kp["curr"].born,
                               RejectAfterTime - KeepaliveInterval, now)
       \/ ~p.kp["curr"].valid /\ p.active

wireguard_start_handshake(p, draw, now) ==
    [p EXCEPT !.hs = [@ EXCEPT !.valid = TRUE, !.initiator = TRUE, !.local = draw],
              !.sendHandshake = FALSE,
              !.lastInitTx = now]

\* The first two tests of wireguardif_tmr.
TmrPurge(p, now) ==
    LET reset == IF should_reset_peer(p, now)
                 THEN [p EXCEPT !.kp = NoKeypairs, !.addr = ConnectAddr]
                 ELSE p
    IN  IF should_destroy_current_keypair(reset, now)
        THEN [reset EXCEPT !.kp = [@ EXCEPT !["curr"] = EmptyKeypair]]
        ELSE reset

\* The third: the keepalive.
TmrKeepalive(p, now, ok) ==
    IF should_send_keepalive(p, now) THEN wireguardif_output_to_peer(p, now, ok) ELSE p
=============================================================================
