----------------------- MODULE ControlRecords_proofs ------------------------
(***************************************************************************)
(* Proofs about ControlRecords.  The counters of both ends agree because   *)
(* every record that was sealed and not yet opened is in the wire, in the  *)
(* order of its nonces, and what leaves the wire without being opened (the *)
(* HTTP answer, the Noise message, pings) is never a record.  What is read *)
(* is what was written because the buffer, the records and what waits to   *)
(* be sealed are pieces of one stream of frames, each of which begins      *)
(* where the one before ends (Flow).                                       *)
(***************************************************************************)
EXTENDS ControlRecords, TLAPS

Units == Nat \X Nat
Messages == [kind : Kinds, text : Seq(Units), nonce : Nat, end : Nat]
Servers ==
    [at : {"asked", "open", "ended"}, frames : Seq(Seq(Units)), pending : Seq(Units),
     sealed : Nat, opened : Nat, control : Nat, sent : Nat]

\* The types that the nonces depend on.
StreamType ==
    /\ at \in {"upgrade", "noise", "up", "failed"} /\ tcp \in {"ok", "broken"}
    /\ wire \in Seq(Messages) /\ server \in Servers
    /\ recvNonce \in 0 .. server.sealed /\ sendNonce \in Nat /\ uplink \in Seq(Nat)

\* What the handshake takes out of the wire is no record.
Greeted ==
    /\ server.at = "asked" => at \in {"upgrade", "failed"} /\ wire = <<>> /\ server.pending = <<>>
    /\ at = "upgrade" /\ server.at # "asked" =>
        /\ wire # <<>> /\ wire[1].kind \in {"http", "refused"}
        /\ wire[1].kind = "http" => Len(wire) > 1 /\ wire[2].kind \in {"noise", "error"}
    /\ at = "noise" => wire # <<>> /\ wire[1].kind \in {"noise", "error"}

\* NoncesInStep, direction by direction.
InOrder(f, S, lo, hi) ==
    /\ \A i \in S : f[i] >= lo /\ f[i] < hi
    /\ \A n \in Nat : lo <= n /\ n < hi => \E i \in S : f[i] = n
    /\ \A i, j \in S : i < j => f[i] < f[j]
Nonces == [i \in Records |-> wire[i].nonce]
Downlink == InOrder(Nonces, Records, recvNonce, server.sealed)

Uplink ==
    /\ \A i \in DOMAIN uplink : uplink[i] = server.opened + i - 1
    /\ tcp = "ok" => sendNonce = server.opened + Len(uplink)

StreamInv == StreamType /\ Greeted /\ Downlink /\ Uplink

LEMMA RecordNonce ==
    ASSUME StreamType
    PROVE  \A i \in Records : i \in 1 .. Len(wire) /\ wire[i].nonce \in Nat
<1> SUFFICES ASSUME NEW i \in Records PROVE i \in 1 .. Len(wire) /\ wire[i].nonce \in Nat
  OBVIOUS
<1>1. i \in 1 .. Len(wire)
  BY DEF Records, StreamType
<1>2. wire[i] \in Messages
  BY <1>1 DEF StreamType
<1> QED
  BY <1>1, <1>2 DEF Messages

LEMMA StreamInvNonces == StreamInv => NoncesInStep
<1> SUFFICES ASSUME StreamInv
             PROVE  /\ {wire[i].nonce : i \in Records} = recvNonce .. server.sealed - 1
                    /\ \A i, j \in Records : i < j => wire[i].nonce < wire[j].nonce
  BY DEF StreamInv, Uplink, NoncesInStep
<1>1. /\ \A i \in Records : Nonces[i] = wire[i].nonce /\ wire[i].nonce \in Nat
      /\ recvNonce \in Nat /\ server.sealed \in Nat
  BY RecordNonce DEF StreamInv, StreamType, Servers, Nonces
<1>2. \A i \in Records : wire[i].nonce \in recvNonce .. server.sealed - 1
  BY <1>1 DEF StreamInv, Downlink, InOrder
<1>3. \A n \in recvNonce .. server.sealed - 1 : \E i \in Records : wire[i].nonce = n
  BY <1>1 DEF StreamInv, Downlink, InOrder
<1>4. {wire[i].nonce : i \in Records} = recvNonce .. server.sealed - 1
  BY <1>2, <1>3, Zenon
<1> QED
  BY <1>1, <1>4 DEF StreamInv, Downlink, InOrder

-----------------------------------------------------------------------------
LEMMA InitStream == Init => StreamInv
<1> SUFFICES ASSUME Init PROVE StreamInv
  OBVIOUS
<1>1. StreamType
  BY DEF Init, StreamType, Servers
<1>2. Greeted
  BY DEF Init, Greeted
<1>3. Records = {}
  BY DEF Init, Records
<1>4. Downlink /\ Uplink
  BY <1>3 DEF Init, Downlink, InOrder, Uplink
<1> QED
  BY <1>1, <1>2, <1>4 DEF StreamInv

LEMMA OneMore ==
    ASSUME NEW S \in SUBSET Nat, NEW f \in [S -> Nat],
           NEW k \in Nat, NEW g \in [S \union {k} -> Nat], NEW lo \in Nat, NEW hi \in Nat,
           lo <= hi, InOrder(f, S, lo, hi),
           \A i \in S : i < k /\ g[i] = f[i],
           g[k] = hi
    PROVE  InOrder(g, S \union {k}, lo, hi + 1)
<1>1. \A i \in S \union {k} : g[i] >= lo /\ g[i] < hi + 1
  BY DEF InOrder
<1>2. \A n \in Nat : lo <= n /\ n < hi + 1 => \E i \in S \union {k} : g[i] = n
  BY DEF InOrder
<1>3. \A i, j \in S \union {k} : i < j => g[i] < g[j]
  BY DEF InOrder
<1> QED
  BY <1>1, <1>2, <1>3 DEF InOrder

LEMMA OneLess ==
    ASSUME NEW S \in SUBSET (Nat \ {0}), NEW f \in [S -> Nat],
           NEW R \in SUBSET Nat, NEW g \in [R -> Nat], NEW lo \in Nat, NEW hi \in Nat,
           InOrder(f, S, lo, hi),
           \A i \in R : i + 1 \in S /\ i + 1 # 1 /\ g[i] = f[i + 1],
           \A i \in S \ {1} : i - 1 \in R
    PROVE  /\ 1 \in S => f[1] = lo /\ lo < hi /\ InOrder(g, R, lo + 1, hi)
           /\ 1 \notin S => InOrder(g, R, lo, hi)
<1>1. \A i, j \in R : i < j => g[i] < g[j]
  BY DEF InOrder
<1>2. \A i \in S \ {1} : i - 1 \in R /\ g[i - 1] = f[i]
  OBVIOUS
<1>3. ASSUME 1 \in S PROVE f[1] = lo /\ lo < hi /\ InOrder(g, R, lo + 1, hi)
  <2>1. \A i \in S \ {1} : f[1] < f[i]
    BY <1>3 DEF InOrder
  <2>2. lo < hi /\ f[1] = lo
    BY <1>3, <2>1 DEF InOrder
  <2>3. \A i \in R : g[i] >= lo + 1 /\ g[i] < hi
    BY <2>1, <2>2 DEF InOrder
  <2>4. \A n \in Nat : lo + 1 <= n /\ n < hi => \E i \in R : g[i] = n
    BY <1>2, <2>2 DEF InOrder
  <2> QED
    BY <1>1, <2>2, <2>3, <2>4 DEF InOrder
<1>4. ASSUME 1 \notin S PROVE InOrder(g, R, lo, hi)
  BY <1>1, <1>2, <1>4 DEF InOrder
<1> QED
  BY <1>3, <1>4

\* A message behind the others: no record, or the next one.
LEMMA Appended ==
    ASSUME StreamType, Downlink, NEW m \in Messages, wire' = Append(wire, m),
           server' \in Servers, recvNonce' = recvNonce,
           IF m.kind = "record"
           THEN m.nonce = server.sealed /\ server'.sealed = server.sealed + 1
           ELSE server'.sealed = server.sealed
    PROVE  /\ wire' \in Seq(Messages) /\ Downlink'
           /\ recvNonce' \in 0 .. server'.sealed
           /\ \A i \in DOMAIN wire : wire'[i] = wire[i]
           /\ Len(wire') = Len(wire) + 1
<1>1. /\ Len(wire') = Len(wire) + 1 /\ wire'[Len(wire) + 1] = m
      /\ \A i \in DOMAIN wire : wire'[i] = wire[i]
      /\ DOMAIN wire' = DOMAIN wire \union {Len(wire) + 1}
      /\ DOMAIN wire = 1 .. Len(wire) /\ Len(wire) \in Nat
      /\ wire' \in Seq(Messages)
  BY DEF StreamType
<1>2. server.sealed \in Nat /\ recvNonce \in 0 .. server.sealed
  BY DEF StreamType, Servers
<1>3. Records' = IF m.kind = "record" THEN Records \union {Len(wire) + 1} ELSE Records
  BY <1>1 DEF Records
<1>4. Records \in SUBSET Nat /\ \A i \in Records : i < Len(wire) + 1 /\ wire'[i] = wire[i]
  BY <1>1, RecordNonce
<1>5. CASE m.kind = "record"
  <2>1. Nonces \in [Records -> Nat] /\ Nonces' \in [Records' -> Nat]
    BY <1>1, <1>2, <1>3, <1>4, <1>5, RecordNonce DEF Nonces
  <2>2. /\ \A i \in Records : i < Len(wire) + 1 /\ Nonces'[i] = Nonces[i]
        /\ Nonces'[Len(wire) + 1] = server.sealed
    BY <1>1, <1>3, <1>4, <1>5 DEF Nonces
  <2>3. Nonces' \in [Records \union {Len(wire) + 1} -> Nat]
    BY <1>3, <1>5, <2>1
  <2>4. /\ Len(wire) + 1 \in Nat /\ recvNonce \in Nat /\ recvNonce <= server.sealed
        /\ InOrder(Nonces, Records, recvNonce, server.sealed)
    BY <1>1, <1>2 DEF Downlink
  <2>5. InOrder(Nonces', Records \union {Len(wire) + 1}, recvNonce, server.sealed + 1)
    BY <1>2, <1>4, <2>1, <2>2, <2>3, <2>4, OneMore, Zenon
  <2> QED
    BY <1>1, <1>2, <1>3, <1>5, <2>5 DEF Downlink
<1>6. CASE m.kind # "record"
  <2>1. Nonces' = Nonces
    BY <1>3, <1>4, <1>6 DEF Nonces
  <2> QED
    BY <1>1, <1>2, <1>3, <1>6, <2>1 DEF Downlink
<1> QED
  BY <1>1, <1>2, <1>5, <1>6

\* The first message leaves the wire: no record, or the one that is expected.
LEMMA Taken ==
    ASSUME StreamType, Downlink, wire # <<>>, wire' = Tail(wire),
           server'.sealed = server.sealed,
           recvNonce' = IF wire[1].kind = "record" THEN recvNonce + 1 ELSE recvNonce
    PROVE  /\ wire' \in Seq(Messages) /\ Downlink'
           /\ recvNonce' \in 0 .. server'.sealed
           /\ wire[1].kind = "record" => wire[1].nonce = recvNonce
<1>1. /\ Len(wire') = Len(wire) - 1 /\ Len(wire) \in Nat \ {0}
      /\ DOMAIN wire = 1 .. Len(wire) /\ DOMAIN wire' = 1 .. Len(wire) - 1
      /\ \A i \in DOMAIN wire' : wire'[i] = wire[i + 1]
      /\ wire' \in Seq(Messages)
  BY DEF StreamType
<1>2. server.sealed \in Nat /\ recvNonce \in 0 .. server.sealed
  BY DEF StreamType, Servers
<1>3. Records \in SUBSET (Nat \ {0}) /\ Records' \in SUBSET Nat
  BY <1>1, RecordNonce DEF Records
<1>4. /\ \A i \in Records' : i + 1 \in Records /\ wire'[i] = wire[i + 1]
      /\ \A i \in Records \ {1} : i - 1 \in Records'
  BY <1>1, <1>3 DEF Records
<1>5. 1 \in Records <=> wire[1].kind = "record"
  BY <1>1 DEF Records
<1>6. Nonces \in [Records -> Nat] /\ Nonces' \in [Records' -> Nat]
  BY <1>4, RecordNonce DEF Nonces
<1>7. /\ \A i \in Records' : i + 1 \in Records /\ i + 1 # 1 /\ Nonces'[i] = Nonces[i + 1]
      /\ recvNonce \in Nat /\ InOrder(Nonces, Records, recvNonce, server.sealed)
  BY <1>1, <1>2, <1>4 DEF Nonces, Records, Downlink
<1>8. /\ 1 \in Records => /\ Nonces[1] = recvNonce /\ recvNonce < server.sealed
                          /\ InOrder(Nonces', Records', recvNonce + 1, server.sealed)
      /\ 1 \notin Records => InOrder(Nonces', Records', recvNonce, server.sealed)
  BY <1>2, <1>3, <1>4, <1>6, <1>7, OneLess, ZenonT(60)
<1>9. Downlink'
  BY <1>5, <1>8 DEF Downlink
<1> QED
  BY <1>1, <1>2, <1>5, <1>8, <1>9 DEF Nonces

\* Nothing happens in the wire.
LEMMA Still ==
    ASSUME Downlink, UNCHANGED <<wire, recvNonce>>, server'.sealed = server.sealed
    PROVE  Downlink'
  BY DEF Downlink, Nonces, Records

-----------------------------------------------------------------------------
(* The server's steps *)

LEMMA PlainMessage ==
    ASSUME NEW kind \in Kinds, NEW end \in Nat
    PROVE  /\ Plainly(kind, end) \in Messages
           /\ Plainly(kind, end).kind = kind /\ Plainly(kind, end).end = end
           /\ Plainly(kind, end).text = <<>> /\ Length(Plainly(kind, end)) = 1
<1>1. Plainly(kind, end) = [kind |-> kind, text |-> <<>>, nonce |-> 0, end |-> end]
  BY DEF Plainly, Message
<1> QED
  BY <1>1 DEF Messages, Length

LEMMA SizesNat == MaxFrame \in Nat /\ MaxRecord \in Nat
  BY ControlAssumption

LEMMA FrameUnits ==
    ASSUME NEW f \in Nat, NEW len \in Nat
    PROVE  FrameOf(f, len) \in Seq(Units)
<1>1. \A i \in 1 .. len : <<f, i>> \in Units
  BY DEF Units
<1> QED
  BY <1>1 DEF FrameOf

LEMMA AnswerStep == StreamInv /\ Answer => StreamInv'
<1> SUFFICES ASSUME StreamInv, Answer PROVE StreamInv'
  OBVIOUS
<1> USE DEF StreamInv
<1>1. PICK kinds \in {<<"http", "noise">>, <<"http", "error">>, <<"refused">>} :
        /\ wire' = [i \in DOMAIN kinds |-> Plainly(kinds[i], i)]
        /\ server' = [server EXCEPT !.at = IF "noise" \in ToSet(kinds) THEN "open" ELSE "ended",
                                    !.sent = Len(kinds)]
  BY DEF Answer
<1>2. UNCHANGED <<at, tcp, recvNonce, sendNonce, uplink>>
  BY DEF Answer, ClientSame
<1>3. /\ server' \in Servers /\ server'.at # "asked"
      /\ server'.sealed = server.sealed /\ server'.opened = server.opened
  BY <1>1 DEF StreamType, Servers
<1>4. /\ Len(kinds) \in {1, 2} /\ DOMAIN kinds = 1 .. Len(kinds)
      /\ \A i \in DOMAIN kinds : kinds[i] \in Kinds \ {"record"}
      /\ kinds[1] \in {"http", "refused"}
      /\ kinds[1] = "http" => Len(kinds) = 2 /\ kinds[2] \in {"noise", "error"}
  BY <1>1 DEF Kinds
<1>5. /\ wire' \in Seq(Messages) /\ Len(wire') = Len(kinds) /\ DOMAIN wire' = 1 .. Len(kinds)
      /\ \A i \in DOMAIN kinds : wire'[i].kind = kinds[i]
  BY <1>1, <1>4, PlainMessage
<1>6. StreamType'
  BY <1>2, <1>3, <1>5 DEF StreamType
<1>7. at \in {"upgrade", "failed"} /\ Records = {}
  BY DEF Answer, Greeted, Records
<1>8. Greeted'
  BY <1>2, <1>3, <1>4, <1>5, <1>7 DEF Greeted
<1>9. Records' = {}
  BY <1>4, <1>5 DEF Records
<1>10. Downlink'
  BY <1>2, <1>3, <1>7, <1>9 DEF Downlink, InOrder
<1> QED
  BY <1>2, <1>3, <1>6, <1>8, <1>10 DEF Uplink

LEMMA WriteFrameStep == StreamInv /\ WriteFrame => StreamInv'
<1> SUFFICES ASSUME StreamInv, WriteFrame PROVE StreamInv'
  OBVIOUS
<1> USE DEF StreamInv
<1>1. PICK len \in 1 .. MaxFrame :
        LET frame == FrameOf(Len(server.frames) + 1, len) IN
        server' = [server EXCEPT !.frames = Append(@, frame), !.pending = @ \o frame]
  BY DEF WriteFrame
<1>2. UNCHANGED <<at, tcp, wire, recvNonce, sendNonce, uplink>> /\ server.at = "open"
  BY DEF WriteFrame, ClientSame
<1> DEFINE frame == FrameOf(Len(server.frames) + 1, len)
<1>3. frame \in Seq(Units)
  <2>1. Len(server.frames) + 1 \in Nat /\ len \in Nat
    BY SizesNat DEF StreamType, Servers
  <2> QED
    BY <2>1, FrameUnits
<1> HIDE DEF frame
<1>4. /\ server' \in Servers /\ server'.at = "open"
      /\ server'.sealed = server.sealed /\ server'.opened = server.opened
  <2>1. server' = [server EXCEPT !.frames = Append(@, frame), !.pending = @ \o frame]
    BY <1>1 DEF frame
  <2>2. Append(server.frames, frame) \in Seq(Seq(Units)) /\ server.pending \o frame \in Seq(Units)
    BY <1>3 DEF StreamType, Servers
  <2> QED
    BY <1>2, <2>1, <2>2 DEF StreamType, Servers
<1>5. StreamType' /\ Greeted'
  BY <1>2, <1>4 DEF StreamType, Greeted
<1> QED
  BY <1>2, <1>4, <1>5, Still DEF Uplink

\* What is written behind the greeting leaves the greeting alone.
LEMMA AppendStep ==
    ASSUME StreamInv, NEW m \in Messages, wire' = Append(wire, m),
           server' \in Servers, server'.opened = server.opened,
           server.at # "asked", server'.at # "asked",
           UNCHANGED <<at, tcp, recvNonce, sendNonce, uplink>>,
           IF m.kind = "record"
           THEN m.nonce = server.sealed /\ server'.sealed = server.sealed + 1
           ELSE server'.sealed = server.sealed
    PROVE  StreamInv'
<1> USE DEF StreamInv
<1>1. /\ wire' \in Seq(Messages) /\ Downlink' /\ recvNonce' \in 0 .. server'.sealed
      /\ \A i \in DOMAIN wire : wire'[i] = wire[i]
      /\ Len(wire') = Len(wire) + 1
  BY Appended
<1>2. StreamType'
  BY <1>1 DEF StreamType
<1>3. Greeted'
  BY <1>1 DEF Greeted, StreamType
<1> QED
  BY <1>1, <1>2, <1>3 DEF Uplink

\* What sealing a record of n units does.
RecordOf(n) ==
    Message("record", SubSeq(server.pending, 1, n), server.sealed, server.sent + n + 1)
Sealed(n) ==
    /\ n \in 1 .. MaxRecord /\ n <= Len(server.pending) /\ server.at # "asked"
    /\ wire' = Append(wire, RecordOf(n)) /\ RecordOf(n) \in Messages
    /\ RecordOf(n).kind = "record" /\ RecordOf(n).nonce = server.sealed
    /\ RecordOf(n).text = SubSeq(server.pending, 1, n)
    /\ RecordOf(n).end = server.sent + Length(RecordOf(n)) /\ Length(RecordOf(n)) = n + 1
    /\ server' \in Servers /\ server'.at = server.at /\ server'.opened = server.opened
    /\ server'.sealed = server.sealed + 1 /\ server'.sent = RecordOf(n).end
    /\ server'.frames = server.frames
    /\ server'.pending = SubSeq(server.pending, n + 1, Len(server.pending))

LEMMA SealedRecord ==
    ASSUME StreamType, Greeted, SealRecord
    PROVE  \E n \in Cuts(server.pending) : Sealed(n)
<1>1. PICK n \in Cuts(server.pending) :
        /\ wire' = Append(wire, Message("record", SubSeq(server.pending, 1, n),
                                        server.sealed, server.sent + n + 1))
        /\ server' = [server EXCEPT !.sealed = @ + 1, !.sent = @ + n + 1,
                                    !.pending = SubSeq(@, n + 1, Len(@))]
  BY DEF SealRecord
<1>2. server \in Servers /\ server.pending \in Seq(Units)
  BY DEF StreamType, Servers
<1>3. n \in 1 .. MaxRecord /\ n <= Len(server.pending) /\ server.at # "asked"
  BY <1>1, <1>2, SizesNat DEF Cuts, Greeted
<1> DEFINE text == SubSeq(server.pending, 1, n)
           rest == SubSeq(server.pending, n + 1, Len(server.pending))
           end == server.sent + n + 1
<1>4. text \in Seq(Units) /\ rest \in Seq(Units) /\ Len(text) = n
  BY <1>2, <1>3, SizesNat
<1>5. server.sealed \in Nat /\ server.sent \in Nat /\ n \in Nat
  BY <1>2, <1>3, SizesNat DEF Servers
<1>6. /\ RecordOf(n) = [kind |-> "record", text |-> text, nonce |-> server.sealed, end |-> end]
      /\ wire' = Append(wire, RecordOf(n))
  BY <1>1 DEF RecordOf, Message
<1>7. server' = [server EXCEPT !.sealed = server.sealed + 1, !.sent = end, !.pending = rest]
  BY <1>1
<1>8. end \in Nat /\ server.sealed + 1 \in Nat /\ end = server.sent + (n + 1)
  BY <1>5
<1> HIDE DEF text, rest, end
<1>9. /\ RecordOf(n) \in Messages /\ RecordOf(n).kind = "record"
      /\ RecordOf(n).nonce = server.sealed /\ RecordOf(n).text = text
      /\ RecordOf(n).end = end /\ Length(RecordOf(n)) = n + 1
  BY <1>4, <1>5, <1>6, <1>8 DEF Messages, Kinds, Length
<1>10. /\ server' \in Servers /\ server'.at = server.at /\ server'.opened = server.opened
       /\ server'.sealed = server.sealed + 1 /\ server'.sent = end
       /\ server'.frames = server.frames /\ server'.pending = rest
  BY <1>2, <1>4, <1>7, <1>8 DEF Servers
<1> QED
  BY <1>3, <1>6, <1>8, <1>9, <1>10 DEF Sealed, text, rest

\* What a message of the server that carries no record does.
Passed(kind, then) ==
    /\ Plainly(kind, server.sent + 1) \in Messages
    /\ wire' = Append(wire, Plainly(kind, server.sent + 1))
    /\ Plainly(kind, server.sent + 1).kind = kind
    /\ Plainly(kind, server.sent + 1).text = <<>>
    /\ Plainly(kind, server.sent + 1).end =
          server.sent + Length(Plainly(kind, server.sent + 1))
    /\ server' \in Servers /\ server'.at = then /\ server.at = "open"
    /\ server'.sealed = server.sealed /\ server'.opened = server.opened
    /\ server'.sent = Plainly(kind, server.sent + 1).end
    /\ server'.frames = server.frames /\ server'.pending = server.pending

LEMMA PlainSent ==
    ASSUME server \in Servers
    PROVE  /\ ServerPings => Passed("ping", server.at)
           /\ ServerEnds => Passed("error", "ended")
<1>1. server.sent + 1 \in Nat
  BY DEF Servers
<1>2. \A kind \in {"ping", "error"} :
        /\ Plainly(kind, server.sent + 1) \in Messages
        /\ Plainly(kind, server.sent + 1).kind = kind
        /\ Plainly(kind, server.sent + 1).text = <<>>
        /\ Plainly(kind, server.sent + 1).end = server.sent + 1
        /\ Length(Plainly(kind, server.sent + 1)) = 1
  BY <1>1, PlainMessage DEF Kinds
<1>3. ASSUME ServerPings PROVE Passed("ping", server.at)
  <2>1. /\ server' = [server EXCEPT !.control = @ + 1, !.sent = @ + 1] /\ server.at = "open"
        /\ wire' = Append(wire, Plainly("ping", server.sent + 1))
    BY <1>3 DEF ServerPings
  <2> DEFINE sent == server.sent + 1
             control == server.control + 1
  <2>2. server' = [server EXCEPT !.control = control, !.sent = sent]
    BY <2>1
  <2>3. sent \in Nat /\ control \in Nat
    BY DEF Servers
  <2> HIDE DEF sent, control
  <2>4. /\ server' \in Servers /\ server'.at = server.at /\ server'.sealed = server.sealed
        /\ server'.opened = server.opened /\ server'.sent = sent
        /\ server'.frames = server.frames /\ server'.pending = server.pending
    BY <2>2, <2>3 DEF Servers
  <2> QED
    BY <1>2, <2>1, <2>4 DEF Passed, sent
<1>4. ASSUME ServerEnds PROVE Passed("error", "ended")
  <2>1. /\ server' = [server EXCEPT !.at = "ended", !.sent = @ + 1] /\ server.at = "open"
        /\ wire' = Append(wire, Plainly("error", server.sent + 1))
    BY <1>4 DEF ServerEnds
  <2> DEFINE sent == server.sent + 1
  <2>2. server' = [server EXCEPT !.at = "ended", !.sent = sent]
    BY <2>1
  <2>3. sent \in Nat
    BY DEF Servers
  <2> HIDE DEF sent
  <2>4. /\ server' \in Servers /\ server'.at = "ended" /\ server'.sealed = server.sealed
        /\ server'.opened = server.opened /\ server'.sent = sent
        /\ server'.frames = server.frames /\ server'.pending = server.pending
    BY <2>2, <2>3 DEF Servers
  <2> QED
    BY <1>2, <2>1, <2>4 DEF Passed, sent
<1> QED
  BY <1>3, <1>4

LEMMA ServerStep == StreamInv /\ ServerNext => StreamInv'
<1> SUFFICES ASSUME StreamInv, ServerNext PROVE StreamInv'
  OBVIOUS
<1>1. server \in Servers
  BY DEF StreamInv, StreamType
<1>2. CASE SealRecord
  <2>1. PICK n \in Cuts(server.pending) : Sealed(n)
    BY <1>2, SealedRecord DEF StreamInv
  <2> QED
    BY <1>2, <2>1, AppendStep DEF SealRecord, ClientSame, Sealed
<1>3. CASE ServerPings
  <2>1. Passed("ping", server.at)
    BY <1>1, <1>3, PlainSent DEF ServerPings
  <2> QED
    BY <1>3, <2>1, AppendStep DEF ServerPings, ClientSame, Passed
<1>4. CASE ServerEnds
  <2>1. Passed("error", "ended")
    BY <1>1, <1>4, PlainSent DEF ServerEnds
  <2> QED
    BY <1>4, <2>1, AppendStep DEF ServerEnds, ClientSame, Passed
<1>5. CASE ServerOpens
  <2> USE DEF StreamInv
  <2>1. /\ uplink # <<>> /\ uplink' = Tail(uplink) /\ server.at = "open"
        /\ server' = [server EXCEPT !.opened = @ + 1]
        /\ UNCHANGED <<at, tcp, wire, recvNonce, sendNonce>>
    BY <1>5 DEF ServerOpens
  <2>2. /\ server' \in Servers /\ server'.sealed = server.sealed
        /\ server'.opened = server.opened + 1 /\ server'.at = "open" /\ server.opened \in Nat
    BY <1>1, <2>1, SMTT(40) DEF Servers
  <2>3. /\ uplink' \in Seq(Nat) /\ Len(uplink') = Len(uplink) - 1 /\ Len(uplink) \in Nat
        /\ DOMAIN uplink = 1 .. Len(uplink) /\ DOMAIN uplink' = 1 .. Len(uplink) - 1
        /\ \A i \in DOMAIN uplink' : uplink'[i] = uplink[i + 1]
    BY <2>1 DEF StreamType
  <2>4. StreamType' /\ Greeted'
    BY <2>1, <2>2, <2>3 DEF StreamType, Greeted
  <2>5. Uplink'
    <3>1. \A i \in DOMAIN uplink' : i + 1 \in DOMAIN uplink /\ i \in Nat
      BY <2>3
    <3>2. \A i \in DOMAIN uplink' : uplink'[i] = server'.opened + i - 1
      <4> SUFFICES ASSUME NEW i \in DOMAIN uplink'
                   PROVE  uplink'[i] = server'.opened + i - 1
        OBVIOUS
      <4>1. uplink'[i] = uplink[i + 1] /\ i + 1 \in DOMAIN uplink /\ i \in Nat
        BY <2>3, <3>1
      <4>2. uplink[i + 1] = server.opened + (i + 1) - 1
        BY <4>1 DEF Uplink
      <4> QED
        BY <2>2, <4>1, <4>2
    <3>3. tcp' = "ok" => sendNonce' = server'.opened + Len(uplink')
      BY <2>1, <2>2, <2>3 DEF Uplink
    <3> QED
      BY <3>2, <3>3 DEF Uplink
  <2> QED
    BY <2>1, <2>2, <2>4, <2>5, Still
<1> QED
  BY <1>2, <1>3, <1>4, <1>5, AnswerStep, WriteFrameStep DEF ServerNext

-----------------------------------------------------------------------------
(* The client's steps *)

\* Steps that leave the wire, the nonces and the server alone.
LEMMA QuietStep ==
    ASSUME StreamInv, UNCHANGED <<tcp, wire, recvNonce, sendNonce, uplink, server>>,
           at' = at \/ at' = "failed"
    PROVE  StreamInv'
  BY Still DEF StreamInv, StreamType, Greeted, Uplink

\* The first message is taken, and the greeting goes on.
LEMMA TakeStep ==
    ASSUME StreamInv, wire # <<>>, wire' = Tail(wire),
           UNCHANGED <<tcp, sendNonce, uplink, server>>,
           recvNonce' = IF wire[1].kind = "record" THEN recvNonce + 1 ELSE recvNonce,
           at' \in {"noise", "up", "failed"},
           at' = "noise" => Len(wire) > 1 /\ wire[2].kind \in {"noise", "error"}
    PROVE  StreamInv'
<1> USE DEF StreamInv
<1>1. /\ wire' \in Seq(Messages) /\ Downlink' /\ recvNonce' \in 0 .. server'.sealed
  BY Taken
<1>2. StreamType'
  BY <1>1 DEF StreamType
<1>3. server.at # "asked"
  BY DEF Greeted
<1>4. Len(wire) > 1 => wire' # <<>> /\ wire'[1] = wire[2]
  BY DEF StreamType
<1>5. Greeted'
  BY <1>3, <1>4 DEF Greeted
<1> QED
  BY <1>1, <1>2, <1>5 DEF Uplink

LEMMA WireNotEmpty == ASSUME StreamInv, HeadWhole PROVE wire # <<>> /\ Head(wire) = wire[1]
  BY DEF HeadWhole, StreamInv, StreamType

LEMMA SendStep == StreamInv /\ Send => StreamInv'
<1> SUFFICES ASSUME StreamInv, Send PROVE StreamInv'
  OBVIOUS
<1> USE DEF StreamInv
<1>1. PICK len \in 1 .. MaxSend + 1, sent \in BOOLEAN :
        /\ sendNonce' = IF Seals(len) THEN sendNonce + 1 ELSE sendNonce
        /\ IF len > MaxSend THEN UNCHANGED <<uplink, tcp>>
           ELSE IF sent /\ tcp = "ok"
           THEN uplink' = Append(uplink, sendNonce) /\ UNCHANGED tcp
           ELSE UNCHANGED uplink /\ tcp' = "broken"
  BY DEF Send
<1>2. UNCHANGED <<at, wire, recvNonce, server>>
  BY DEF Send
<1>3. MaxSend \in Nat /\ len \in Nat
  BY <1>1, ControlAssumption
<1>4. server.opened \in Nat /\ uplink \in Seq(Nat) /\ sendNonce \in Nat
  BY DEF StreamType, Servers
<1>5. CASE len > MaxSend
  <2>1. UNCHANGED <<sendNonce, uplink, tcp>>
    BY <1>1, <1>3, <1>5 DEF Seals
  <2> QED
    BY <1>2, <2>1, QuietStep
<1>6. CASE len <= MaxSend /\ sent /\ tcp = "ok"
  <2>1. sendNonce' = sendNonce + 1 /\ uplink' = Append(uplink, sendNonce) /\ tcp' = tcp
    BY <1>1, <1>3, <1>6 DEF Seals
  <2>2. Uplink'
    BY <1>2, <1>4, <1>6, <2>1 DEF Uplink
  <2>3. StreamType' /\ Greeted'
    BY <1>2, <1>4, <2>1 DEF StreamType, Greeted
  <2> QED
    BY <1>2, <2>2, <2>3, Still
<1>7. CASE len <= MaxSend /\ ~(sent /\ tcp = "ok")
  <2>1. sendNonce' = sendNonce + 1 /\ uplink' = uplink /\ tcp' = "broken"
    BY <1>1, <1>3, <1>7 DEF Seals
  <2>2. StreamType' /\ Greeted' /\ Uplink'
    BY <1>2, <1>4, <2>1 DEF StreamType, Greeted, Uplink
  <2> QED
    BY <1>2, <2>2, Still
<1> QED
  BY <1>3, <1>5, <1>6, <1>7

LEMMA StreamStep == StreamInv /\ [Next]_vars => StreamInv'
<1> SUFFICES ASSUME StreamInv, [Next]_vars PROVE StreamInv'
  OBVIOUS
<1>1. CASE RecvSome
  BY <1>1, QuietStep DEF RecvSome
<1>2. CASE ReadUpgrade
  <2>1. wire # <<>> /\ Head(wire) = wire[1] /\ at = "upgrade"
    BY <1>2, WireNotEmpty DEF ReadUpgrade
  <2>2. /\ wire[1].kind \in {"http", "refused"}
        /\ wire[1].kind = "http" => Len(wire) > 1 /\ wire[2].kind \in {"noise", "error"}
    BY <2>1 DEF StreamInv, Greeted
  <2> QED
    BY <1>2, <2>1, <2>2, TakeStep DEF ReadUpgrade, TakesHead, KeysSame
<1>3. CASE ReadNoise
  <2>1. wire # <<>> /\ Head(wire) = wire[1] /\ wire[1].kind \in {"noise", "error"}
    BY <1>3 DEF ReadNoise, StreamInv, StreamType, Greeted
  <2> QED
    BY <1>3, <2>1, TakeStep DEF ReadNoise, TakesHead, KeysSame
<1>4. CASE TimedOut
  BY <1>4, QuietStep DEF TimedOut, KeysSame
<1>5. CASE SkipFrame
  <2>1. wire # <<>> /\ Head(wire) = wire[1] /\ at = "up"
    BY <1>5, WireNotEmpty DEF SkipFrame, Asked
  <2> QED
    BY <1>5, <2>1, TakeStep DEF SkipFrame, TakesHead, KeysSame
<1>6. CASE OpenRecord
  <2>1. wire # <<>> /\ Head(wire) = wire[1] /\ at = "up"
    BY <1>6, WireNotEmpty DEF OpenRecord, Asked
  <2> QED
    BY <1>6, <2>1, TakeStep DEF OpenRecord, TakesHead
<1>7. CASE Fail
  BY <1>7, QuietStep DEF Fail, KeysSame
<1>8. CASE ReadFrame
  BY <1>8, QuietStep DEF ReadFrame
<1>9. CASE UNCHANGED vars
  BY <1>9, QuietStep DEF vars
<1> QED
  BY <1>1, <1>2, <1>3, <1>4, <1>5, <1>6, <1>7, <1>8, <1>9, ServerStep, SendStep DEF Next

\* The counters of the two ends agree for every size of the buffers, every cut of
\* the stream, and any number of frames, messages and failed sends.
THEOREM NoncesAgree == Spec => []NoncesInStep
  BY InitStream, StreamStep, StreamInvNonces, PTL DEF Spec

-----------------------------------------------------------------------------
(* Pieces of the stream of frames                                          *)
(*                                                                         *)
(* A piece that runs from unit a up to unit b has every unit in its place  *)
(* between them.  fr is the sequence of frames the server has written.     *)

Known(fr, u) == u[1] \in 1 .. Len(fr) /\ u[2] \in 1 .. Len(fr[u[1]])

\* The unit behind u: the next of its frame, or the first of the next frame.
After(fr, u) == IF u[2] < Len(fr[u[1]]) THEN <<u[1], u[2] + 1>> ELSE <<u[1] + 1, 1>>

Contiguous(fr, s) ==
    /\ \A k \in 1 .. Len(s) : Known(fr, s[k])
    /\ \A k \in 1 .. Len(s), d \in Nat :
        k + d <= Len(s) /\ s[k][2] + d <= Len(fr[s[k][1]])
            => s[k + d] = <<s[k][1], s[k][2] + d>>
    /\ \A k \in 1 .. Len(s) - 1 :
        s[k][2] = Len(fr[s[k][1]]) => s[k + 1] = <<s[k][1] + 1, 1>>
    /\ \A k, l \in 1 .. Len(s) : k <= l => s[k][1] <= s[l][1]

Run(fr, s, a, b) ==
    /\ Contiguous(fr, s)
    /\ IF s = <<>> THEN a = b ELSE s[1] = a /\ b = After(fr, s[Len(s)])

LEMMA UnitIsPair == \A u \in Units : u[1] \in Nat /\ u[2] \in Nat /\ u = <<u[1], u[2]>>
  BY DEF Units

LEMMA KnownUnit ==
    ASSUME NEW fr \in Seq(Seq(Units)), NEW u \in Units, Known(fr, u)
    PROVE  /\ u[1] \in Nat \ {0} /\ u[2] \in Nat \ {0} /\ u = <<u[1], u[2]>>
           /\ fr[u[1]] \in Seq(Units) /\ Len(fr[u[1]]) \in Nat /\ u[2] <= Len(fr[u[1]])
<1>1. u[1] \in 1 .. Len(fr) /\ u[2] \in 1 .. Len(fr[u[1]])
  BY DEF Known
<1>2. fr[u[1]] \in Seq(Units)
  BY <1>1
<1>3. Len(fr[u[1]]) \in Nat
  BY <1>2
<1> QED
  BY <1>1, <1>2, <1>3, UnitIsPair

LEMMA RunNext ==
    ASSUME NEW fr \in Seq(Seq(Units)), NEW s \in Seq(Units), Contiguous(fr, s),
           NEW k \in 1 .. Len(s) - 1
    PROVE  s[k + 1] = After(fr, s[k])
<1>1. /\ k \in 1 .. Len(s) /\ 1 \in Nat /\ k + 1 <= Len(s) /\ s[k] \in Units
      /\ Known(fr, s[k])
  BY DEF Contiguous
<1>2. s[k][2] \in Nat /\ s[k][2] <= Len(fr[s[k][1]]) /\ Len(fr[s[k][1]]) \in Nat
  BY <1>1, KnownUnit
<1>3. CASE s[k][2] < Len(fr[s[k][1]])
  <2>1. s[k][2] + 1 <= Len(fr[s[k][1]])
    BY <1>2, <1>3
  <2> QED
    BY <1>1, <1>3, <2>1 DEF Contiguous, After
<1>4. CASE s[k][2] = Len(fr[s[k][1]])
  <2>1. s[k + 1] = <<s[k][1] + 1, 1>>
    BY <1>4 DEF Contiguous
  <2>2. ~(s[k][2] < Len(fr[s[k][1]]))
    BY <1>2, <1>4
  <2> QED
    BY <2>1, <2>2 DEF After
<1> QED
  BY <1>2, <1>3, <1>4

\* A piece behind another.
LEMMA RunJoined ==
    ASSUME NEW fr \in Seq(Seq(Units)), NEW s \in Seq(Units), NEW t \in Seq(Units),
           NEW a, NEW b, NEW c, Run(fr, s, a, b), Run(fr, t, b, c)
    PROVE  Run(fr, s \o t, a, c)
<1> DEFINE r == s \o t
<1>1. CASE s = <<>> \/ t = <<>>
  <2>1. s = <<>> => r = t
    OBVIOUS
  <2>2. t = <<>> => r = s
    OBVIOUS
  <2> QED
    BY <1>1, <2>1, <2>2 DEF Run
<1>2. CASE s # <<>> /\ t # <<>>
  <2>1. /\ Len(s) \in Nat \ {0} /\ Len(t) \in Nat \ {0} /\ Len(r) = Len(s) + Len(t)
        /\ r \in Seq(Units) /\ r # <<>>
        /\ \A k \in 1 .. Len(s) : r[k] = s[k] /\ s[k] \in Units
        /\ \A k \in 1 .. Len(t) : r[Len(s) + k] = t[k] /\ t[k] \in Units
    BY <1>2
  <2> HIDE DEF r
  <2>2. /\ Contiguous(fr, s) /\ Contiguous(fr, t)
        /\ t[1] = After(fr, s[Len(s)]) /\ s[1] = a /\ c = After(fr, t[Len(t)])
    BY <1>2 DEF Run
  <2>3. \A k \in 1 .. Len(r) : k \in 1 .. Len(s) \/ (k - Len(s) \in 1 .. Len(t) /\ r[k] = t[k - Len(s)])
    <3> SUFFICES ASSUME NEW k \in 1 .. Len(r), k \notin 1 .. Len(s)
                 PROVE  k - Len(s) \in 1 .. Len(t) /\ r[k] = t[k - Len(s)]
      OBVIOUS
    <3>1. k - Len(s) \in 1 .. Len(t) /\ Len(s) + (k - Len(s)) = k
      BY <2>1
    <3> QED
      BY <2>1, <3>1
  <2>4. \A k \in 1 .. Len(r) : Known(fr, r[k])
    BY <2>1, <2>2, <2>3 DEF Contiguous
  <2>5. \A k \in 1 .. Len(s) : Known(fr, s[k]) /\ s[k][1] \in Nat /\ s[k][2] \in Nat
                               /\ Len(fr[s[k][1]]) \in Nat /\ s[k][2] <= Len(fr[s[k][1]])
    BY <2>1, <2>2, KnownUnit DEF Contiguous
  <2>0. Len(s) \in Nat \ {0} /\ Len(t) \in Nat \ {0} /\ Len(r) = Len(s) + Len(t)
    BY <2>1
  <2>6. ASSUME NEW k \in 1 .. Len(r), NEW d \in Nat, k + d <= Len(r),
               r[k][2] + d <= Len(fr[r[k][1]])
        PROVE  r[k + d] = <<r[k][1], r[k][2] + d>>
    <3>1. CASE k \notin 1 .. Len(s)
      <4>1. /\ k - Len(s) \in 1 .. Len(t) /\ r[k] = t[k - Len(s)]
            /\ (k - Len(s)) + d <= Len(t) /\ k + d \in 1 .. Len(r)
            /\ k + d \notin 1 .. Len(s) /\ (k + d) - Len(s) = (k - Len(s)) + d
        <5>1. /\ (k - Len(s)) + d <= Len(t) /\ k + d \in 1 .. Len(r)
              /\ k + d \notin 1 .. Len(s) /\ (k + d) - Len(s) = (k - Len(s)) + d
          BY <2>0, <2>6, <3>1
        <5> QED
          BY <2>3, <3>1, <5>1
      <4>2. r[k + d] = t[(k - Len(s)) + d]
        BY <2>3, <4>1
      <4> QED
        BY <2>2, <2>6, <4>1, <4>2 DEF Contiguous
    <3>2. CASE k \in 1 .. Len(s) /\ k + d <= Len(s)
      <4>1. k + d \in 1 .. Len(s) /\ r[k + d] = s[k + d] /\ r[k] = s[k]
        BY <2>1, <3>2
      <4> QED
        BY <2>2, <2>6, <3>2, <4>1 DEF Contiguous
    <3>3. CASE k \in 1 .. Len(s) /\ k + d > Len(s)
      <4> DEFINE e == Len(s) - k
                 g == d - e - 1
                 f == s[k][1]
                 i == s[k][2]
      <4>0. /\ e \in Nat /\ g \in Nat /\ k + e = Len(s) /\ d = e + 1 + g
            /\ 1 + g <= Len(t) /\ 1 \in 1 .. Len(t) /\ k + d = Len(s) + (1 + g)
            /\ 1 + g \in 1 .. Len(t) /\ Len(s) \in 1 .. Len(s)
        BY <2>0, <2>6, <3>3
      <4>1. /\ e \in Nat /\ g \in Nat /\ k + e = Len(s) /\ d = e + 1 + g /\ r[k] = s[k]
            /\ 1 + g <= Len(t) /\ 1 \in 1 .. Len(t) /\ k + d = Len(s) + (1 + g)
            /\ 1 + g \in 1 .. Len(t) /\ Len(s) \in 1 .. Len(s)
        BY <2>1, <3>3, <4>0
      <4>2. /\ f \in Nat /\ i \in Nat /\ Len(fr[f]) \in Nat
            /\ i + e < Len(fr[f]) /\ i + e + 1 + g <= Len(fr[f])
        <5>1. f \in Nat /\ i \in Nat /\ Len(fr[f]) \in Nat
          BY <2>5, <3>3
        <5>2. i + d <= Len(fr[f])
          BY <2>6, <4>1
        <5> HIDE DEF e, g, f, i
        <5> QED
          BY <4>0, <5>1, <5>2
      <4>3. s[Len(s)] = <<f, i + e>>
        <5>1. i + e <= Len(fr[f]) /\ e \in Nat /\ k + e <= Len(s) /\ k + e = Len(s)
          <6> HIDE DEF e, g, f, i
          <6> QED
            BY <2>0, <4>0, <4>2
        <5> HIDE DEF e, g
        <5> QED
          BY <2>2, <3>3, <5>1 DEF Contiguous
      <4>4. t[1] = <<f, i + e + 1>>
        BY <2>2, <4>2, <4>3 DEF After
      <4>5. t[1][1] = f /\ t[1][2] = i + e + 1
        BY <4>4
      <4> HIDE DEF e, g, f, i
      <4>6. t[1][2] + g <= Len(fr[t[1][1]])
        BY <4>2, <4>5
      <4>7. t[1 + g] = <<f, i + e + 1 + g>>
        BY <2>2, <4>1, <4>5, <4>6 DEF Contiguous
      <4>8. r[k + d] = t[1 + g]
        BY <2>1, <4>1
      <4>9. i + e + 1 + g = i + d
        BY <4>1, <4>2
      <4> QED
        BY <4>1, <4>7, <4>8, <4>9 DEF f, i
    <3> QED
      BY <2>1, <3>1, <3>2, <3>3
  <2>7. ASSUME NEW k \in 1 .. Len(r) - 1, r[k][2] = Len(fr[r[k][1]])
        PROVE  r[k + 1] = <<r[k][1] + 1, 1>>
    <3>1. CASE k \notin 1 .. Len(s)
      <4>1. /\ k - Len(s) \in 1 .. Len(t) - 1 /\ r[k] = t[k - Len(s)]
            /\ k + 1 \in 1 .. Len(r)
            /\ k + 1 \notin 1 .. Len(s) /\ (k + 1) - Len(s) = (k - Len(s)) + 1
        BY <2>1, <2>3, <3>1
      <4>2. r[k + 1] = t[(k - Len(s)) + 1]
        BY <2>3, <4>1
      <4> QED
        BY <2>2, <2>7, <4>1, <4>2 DEF Contiguous
    <3>2. CASE k \in 1 .. Len(s) - 1
      <4>1. k + 1 \in 1 .. Len(s) /\ k \in 1 .. Len(s) /\ r[k + 1] = s[k + 1] /\ r[k] = s[k]
        BY <2>1, <3>2
      <4> QED
        BY <2>2, <2>7, <3>2, <4>1 DEF Contiguous
    <3>3. CASE k = Len(s)
      <4>1. r[k] = s[Len(s)] /\ r[k + 1] = t[1]
        BY <2>1, <3>3
      <4>2. ~(s[Len(s)][2] < Len(fr[s[Len(s)][1]]))
        BY <2>1, <2>5, <2>7, <4>1
      <4> QED
        BY <2>2, <4>1, <4>2 DEF After
    <3> QED
      BY <2>1, <3>1, <3>2, <3>3
  <2>8. s[Len(s)][1] <= t[1][1] /\ t[1][1] \in Nat
    <3>1. s[Len(s)][1] \in Nat
      BY <2>1, <2>5
    <3>2. t[1][1] \in {s[Len(s)][1], s[Len(s)][1] + 1}
      BY <2>2 DEF After
    <3> QED
      BY <3>1, <3>2
  <2>9. ASSUME NEW k \in 1 .. Len(r), NEW l \in 1 .. Len(r), k <= l
        PROVE  r[k][1] <= r[l][1]
    <3>1. CASE l \in 1 .. Len(s)
      <4>1. k \in 1 .. Len(s)
        BY <2>0, <2>9, <3>1
      <4> QED
        BY <2>1, <2>2, <2>9, <3>1, <4>1 DEF Contiguous
    <3>2. CASE k \notin 1 .. Len(s)
      <4>1. /\ k - Len(s) \in 1 .. Len(t) /\ l - Len(s) \in 1 .. Len(t)
            /\ k - Len(s) <= l - Len(s)
            /\ r[k] = t[k - Len(s)] /\ r[l] = t[l - Len(s)]
        BY <2>1, <2>3, <2>9, <3>2
      <4> QED
        BY <2>2, <4>1 DEF Contiguous
    <3>3. CASE k \in 1 .. Len(s) /\ l \notin 1 .. Len(s)
      <4>1. /\ l - Len(s) \in 1 .. Len(t) /\ r[l] = t[l - Len(s)] /\ r[k] = s[k]
            /\ 1 \in 1 .. Len(t) /\ 1 <= l - Len(s) /\ Len(s) \in 1 .. Len(s) /\ k <= Len(s)
        BY <2>1, <2>3, <3>3
      <4>2. s[k][1] <= s[Len(s)][1] /\ t[1][1] <= t[l - Len(s)][1]
        BY <2>2, <3>3, <4>1 DEF Contiguous
      <4>3. s[k][1] \in Nat /\ s[Len(s)][1] \in Nat /\ t[l - Len(s)][1] \in Nat
        BY <2>1, <2>5, <3>3, <4>1, UnitIsPair
      <4>4. \A x, y, z, w \in Nat : x <= y /\ y <= z /\ z <= w => x <= w
        OBVIOUS
      <4>5. s[k][1] <= t[l - Len(s)][1]
        BY <2>8, <4>2, <4>3, <4>4
      <4> QED
        BY <4>1, <4>5
    <3> QED
      BY <3>1, <3>2, <3>3
  <2>10. Contiguous(fr, r)
    BY <2>4, <2>6, <2>7, <2>9 DEF Contiguous
  <2>11. r[1] = s[1] /\ r[Len(r)] = t[Len(t)]
    BY <2>1
  <2> QED
    BY <2>1, <2>2, <2>10, <2>11 DEF Run, r
<1> QED
  BY <1>1, <1>2

LEMMA CutUnits ==
    ASSUME NEW s \in Seq(Units), NEW n \in 1 .. Len(s)
    PROVE  /\ SubSeq(s, 1, n) \in Seq(Units) /\ Len(SubSeq(s, 1, n)) = n
           /\ \A k \in 1 .. n : SubSeq(s, 1, n)[k] = s[k]
           /\ SubSeq(s, n + 1, Len(s)) \in Seq(Units)
           /\ Len(SubSeq(s, n + 1, Len(s))) = Len(s) - n
           /\ \A k \in 1 .. Len(s) - n : SubSeq(s, n + 1, Len(s))[k] = s[n + k]
<1>1. SubSeq(s, 1, n) \in Seq(Units) /\ Len(SubSeq(s, 1, n)) = n
  OBVIOUS
<1>2. \A k \in 1 .. n : SubSeq(s, 1, n)[k] = s[k]
  OBVIOUS
<1>3. /\ SubSeq(s, n + 1, Len(s)) \in Seq(Units)
      /\ Len(SubSeq(s, n + 1, Len(s))) = Len(s) - n
  OBVIOUS
<1>4. \A k \in 1 .. Len(s) - n : SubSeq(s, n + 1, Len(s))[k] = s[n + k]
  OBVIOUS
<1> QED
  BY <1>1, <1>2, <1>3, <1>4

\* A piece is cut behind its n-th unit.
LEMMA RunCut ==
    ASSUME NEW fr \in Seq(Seq(Units)), NEW s \in Seq(Units), NEW a, NEW c, Run(fr, s, a, c),
           NEW n \in 1 .. Len(s)
    PROVE  /\ Run(fr, SubSeq(s, 1, n), a, After(fr, s[n]))
           /\ Run(fr, SubSeq(s, n + 1, Len(s)), After(fr, s[n]), c)
<1> DEFINE h == SubSeq(s, 1, n)
           t == SubSeq(s, n + 1, Len(s))
<1>1. /\ Len(s) \in Nat /\ n \in Nat /\ n >= 1 /\ n <= Len(s) /\ s # <<>>
      /\ Len(h) = n /\ h \in Seq(Units) /\ h # <<>>
      /\ Len(t) = Len(s) - n /\ t \in Seq(Units)
      /\ \A k \in 1 .. n : k \in 1 .. Len(s) /\ h[k] = s[k]
      /\ \A k \in 1 .. Len(s) - n : n + k \in 1 .. Len(s) /\ t[k] = s[n + k]
  <2>1. /\ h \in Seq(Units) /\ Len(h) = n /\ t \in Seq(Units) /\ Len(t) = Len(s) - n
        /\ \A k \in 1 .. n : h[k] = s[k]
        /\ \A k \in 1 .. Len(s) - n : t[k] = s[n + k]
    BY CutUnits
  <2>2. Len(s) \in Nat /\ n \in Nat /\ n >= 1 /\ n <= Len(s) /\ s # <<>>
    OBVIOUS
  <2>3. /\ \A k \in 1 .. n : k \in 1 .. Len(s)
        /\ \A k \in 1 .. Len(s) - n : n + k \in 1 .. Len(s)
    BY <2>2
  <2> HIDE DEF h, t
  <2>4. h # <<>>
    BY <2>1, <2>2
  <2> QED
    BY <2>1, <2>2, <2>3, <2>4
<1>2. Contiguous(fr, s) /\ s[1] = a /\ c = After(fr, s[Len(s)])
  BY <1>1 DEF Run
<1> HIDE DEF h, t
<1>0. Len(s) \in Nat /\ n \in Nat /\ n >= 1 /\ n <= Len(s) /\ Len(h) = n /\ Len(t) = Len(s) - n
  BY <1>1
<1>3. Contiguous(fr, h)
  <2>1. \A k \in 1 .. Len(h) : Known(fr, h[k])
    BY <1>1, <1>2 DEF Contiguous
  <2>2. ASSUME NEW k \in 1 .. Len(h), NEW d \in Nat, k + d <= Len(h),
               h[k][2] + d <= Len(fr[h[k][1]])
        PROVE  h[k + d] = <<h[k][1], h[k][2] + d>>
    <3>1. k + d \in 1 .. n /\ k \in 1 .. n /\ k + d <= Len(s) /\ k \in 1 .. Len(s)
      BY <1>0, <2>2
    <3>2. h[k + d] = s[k + d] /\ h[k] = s[k]
      BY <1>1, <3>1
    <3> QED
      BY <1>2, <2>2, <3>1, <3>2 DEF Contiguous
  <2>3. ASSUME NEW k \in 1 .. Len(h) - 1, h[k][2] = Len(fr[h[k][1]])
        PROVE  h[k + 1] = <<h[k][1] + 1, 1>>
    <3>1. k + 1 \in 1 .. n /\ k \in 1 .. n /\ k \in 1 .. Len(s) - 1
      BY <1>0, <2>3
    <3>2. h[k + 1] = s[k + 1] /\ h[k] = s[k]
      BY <1>1, <3>1
    <3> QED
      BY <1>2, <2>3, <3>1, <3>2 DEF Contiguous
  <2>4. \A k, l \in 1 .. Len(h) : k <= l => h[k][1] <= h[l][1]
    BY <1>1, <1>2 DEF Contiguous
  <2> QED
    BY <2>1, <2>2, <2>3, <2>4 DEF Contiguous
<1>4. Contiguous(fr, t)
  <2>1. \A k \in 1 .. Len(t) : Known(fr, t[k])
    BY <1>1, <1>2 DEF Contiguous
  <2>2. ASSUME NEW k \in 1 .. Len(t), NEW d \in Nat, k + d <= Len(t),
               t[k][2] + d <= Len(fr[t[k][1]])
        PROVE  t[k + d] = <<t[k][1], t[k][2] + d>>
    <3>1. /\ k + d \in 1 .. Len(s) - n /\ k \in 1 .. Len(s) - n
          /\ n + k \in 1 .. Len(s) /\ (n + k) + d <= Len(s) /\ n + (k + d) = (n + k) + d
      BY <1>0, <2>2
    <3>2. t[k + d] = s[(n + k) + d] /\ t[k] = s[n + k]
      BY <1>1, <3>1
    <3> QED
      BY <1>2, <2>2, <3>1, <3>2 DEF Contiguous
  <2>3. ASSUME NEW k \in 1 .. Len(t) - 1, t[k][2] = Len(fr[t[k][1]])
        PROVE  t[k + 1] = <<t[k][1] + 1, 1>>
    <3>1. /\ k + 1 \in 1 .. Len(s) - n /\ k \in 1 .. Len(s) - n
          /\ n + k \in 1 .. Len(s) - 1 /\ n + (k + 1) = (n + k) + 1
      BY <1>0, <2>3
    <3>2. t[k + 1] = s[(n + k) + 1] /\ t[k] = s[n + k]
      BY <1>1, <3>1
    <3> QED
      BY <1>2, <2>3, <3>1, <3>2 DEF Contiguous
  <2>4. ASSUME NEW k \in 1 .. Len(t), NEW l \in 1 .. Len(t), k <= l
        PROVE  t[k][1] <= t[l][1]
    <3>1. n + k <= n + l /\ n + k \in 1 .. Len(s) /\ n + l \in 1 .. Len(s)
      BY <1>0, <2>4
    <3>2. t[k] = s[n + k] /\ t[l] = s[n + l]
      BY <1>1
    <3> QED
      BY <1>2, <3>1, <3>2 DEF Contiguous
  <2> QED
    BY <2>1, <2>2, <2>3, <2>4 DEF Contiguous
<1>5. Run(fr, h, a, After(fr, s[n]))
  <2>1. h[1] = a /\ h[Len(h)] = s[n]
    BY <1>0, <1>1, <1>2
  <2> QED
    BY <1>1, <1>3, <2>1 DEF Run
<1>6. Run(fr, t, After(fr, s[n]), c)
  <2>1. CASE n = Len(s)
    <3>1. t = <<>>
      BY <1>1, <2>1
    <3> QED
      BY <1>2, <1>4, <2>1, <3>1 DEF Run
  <2>2. CASE n # Len(s)
    <3>1. n \in 1 .. Len(s) - 1 /\ 1 \in 1 .. Len(s) - n /\ Len(t) \in 1 .. Len(s) - n
          /\ n + Len(t) = Len(s)
      BY <1>0, <2>2
    <3>0. Len(t) > 0
      BY <1>0, <2>2
    <3>2. t[1] = s[n + 1] /\ t[Len(t)] = s[n + Len(t)]
      BY <1>1, <3>1
    <3>4. t # <<>>
      BY <3>0
    <3>3. s[n + 1] = After(fr, s[n])
      BY <1>2, <3>1, RunNext
    <3> QED
      BY <1>2, <1>4, <3>1, <3>2, <3>3, <3>4 DEF Run
  <2> QED
    BY <2>1, <2>2
<1> QED
  BY <1>5, <1>6 DEF h, t

\* One more frame disturbs no piece of the others, and is a piece itself.
LEMMA FrameBehind ==
    ASSUME NEW fr \in Seq(Seq(Units)), NEW frame \in Seq(Units)
    PROVE  /\ Append(fr, frame) \in Seq(Seq(Units)) /\ Len(fr) \in Nat
           /\ Len(Append(fr, frame)) = Len(fr) + 1
           /\ \A f \in 1 .. Len(fr) : Append(fr, frame)[f] = fr[f]
           /\ Append(fr, frame)[Len(fr) + 1] = frame
  OBVIOUS

LEMMA RunKept ==
    ASSUME NEW fr \in Seq(Seq(Units)), NEW frame \in Seq(Units),
           NEW s \in Seq(Units), NEW a, NEW b, Run(fr, s, a, b)
    PROVE  Run(Append(fr, frame), s, a, b)
<1> DEFINE gr == Append(fr, frame)
<1>1. \A k \in 1 .. Len(s) : s[k][1] \in 1 .. Len(fr) /\ gr[s[k][1]] = fr[s[k][1]]
  BY FrameBehind DEF Run, Contiguous, Known
<1>2. Len(gr) = Len(fr) + 1 /\ Len(fr) \in Nat
  BY FrameBehind
<1> HIDE DEF gr
<1>3. \A k \in 1 .. Len(s) : Known(gr, s[k]) /\ After(gr, s[k]) = After(fr, s[k])
  <2> SUFFICES ASSUME NEW k \in 1 .. Len(s)
               PROVE  Known(gr, s[k]) /\ After(gr, s[k]) = After(fr, s[k])
    OBVIOUS
  <2>1. Known(fr, s[k]) /\ s[k][1] \in 1 .. Len(gr) /\ gr[s[k][1]] = fr[s[k][1]]
    BY <1>1, <1>2 DEF Run, Contiguous
  <2> QED
    BY <2>1 DEF Known, After
<1>4. Contiguous(gr, s)
  <2>1. \A k \in 1 .. Len(s) : Len(gr[s[k][1]]) = Len(fr[s[k][1]])
    BY <1>1
  <2>2. \A k \in 1 .. Len(s) - 1 : k \in 1 .. Len(s)
    OBVIOUS
  <2> QED
    BY <1>3, <2>1, <2>2 DEF Run, Contiguous
<1>5. s # <<>> => Len(s) \in 1 .. Len(s)
  OBVIOUS
<1>6. Run(gr, s, a, b)
  BY <1>3, <1>4, <1>5 DEF Run
<1> QED
  BY <1>6 DEF gr

LEMMA RunOfFrame ==
    ASSUME NEW fr \in Seq(Seq(Units)), NEW f \in 1 .. Len(fr), NEW len \in Nat \ {0},
           fr[f] = FrameOf(f, len)
    PROVE  Run(fr, FrameOf(f, len), <<f, 1>>, <<f + 1, 1>>)
<1> DEFINE s == FrameOf(f, len)
<1>1. /\ Len(s) = len /\ s \in Seq(Units) /\ s # <<>> /\ f \in Nat
      /\ \A k \in 1 .. len : s[k] = <<f, k>>
  <2>1. f \in Nat
    OBVIOUS
  <2>2. s \in Seq(Units)
    BY <2>1, FrameUnits
  <2>3. DOMAIN s = 1 .. len /\ \A k \in 1 .. len : s[k] = <<f, k>>
    BY DEF FrameOf
  <2> HIDE DEF s
  <2>4. Len(s) = len /\ s # <<>>
    BY <2>2, <2>3
  <2> QED
    BY <2>1, <2>2, <2>3, <2>4
<1>2. Len(fr[f]) = len
  BY <1>1
<1> HIDE DEF s
<1>3. \A k \in 1 .. Len(s) : s[k] = <<f, k>> /\ s[k][1] = f /\ s[k][2] = k
  BY <1>1
<1>4. Contiguous(fr, s)
  <2>1. \A k \in 1 .. Len(s) : Known(fr, s[k])
    BY <1>1, <1>2, <1>3 DEF Known
  <2>2. \A k \in 1 .. Len(s), d \in Nat : k + d <= Len(s) => s[k + d] = <<f, k + d>>
    BY <1>1
  <2>3. \A k \in 1 .. Len(s) - 1 : k \in 1 .. Len(s) /\ s[k][2] # len
    BY <1>1, <1>3
  <2> QED
    BY <1>1, <1>2, <1>3, <2>1, <2>2, <2>3 DEF Contiguous
<1>5. After(fr, s[len]) = <<f + 1, 1>> /\ s[1] = <<f, 1>>
  BY <1>1, <1>2, <1>3 DEF After
<1> QED
  BY <1>1, <1>4, <1>5 DEF Run, s

\* What begins with a whole frame has that frame's units in their order.
LEMMA WholeFrame ==
    ASSUME NEW fr \in Seq(Seq(Units)), NEW s \in Seq(Units), NEW f \in Nat, NEW c,
           Run(fr, s, <<f, 1>>, c), s # <<>>, Len(fr[f]) <= Len(s),
           fr[f] = FrameOf(f, Len(fr[f]))
    PROVE  /\ f \in 1 .. Len(fr) /\ Len(fr[f]) \in 1 .. Len(s)
           /\ SubSeq(s, 1, Len(fr[f])) = fr[f]
           /\ After(fr, s[Len(fr[f])]) = <<f + 1, 1>>
<1>1. s[1] = <<f, 1>> /\ s[1][1] = f /\ s[1][2] = 1 /\ s[1] \in Units /\ 1 \in 1 .. Len(s)
  BY DEF Run
<1>2. Known(fr, s[1])
  BY <1>1 DEF Run, Contiguous
<1>3. f \in 1 .. Len(fr) /\ Len(fr[f]) \in Nat /\ 1 <= Len(fr[f])
  BY <1>1, <1>2, KnownUnit DEF Known
<1> DEFINE len == Len(fr[f])
<1>4. len \in 1 .. Len(s)
  BY <1>3
<1>5. \A k \in 1 .. len : s[k] = <<f, k>>
  <2> SUFFICES ASSUME NEW k \in 1 .. len PROVE s[k] = <<f, k>>
    OBVIOUS
  <2>1. k - 1 \in Nat /\ 1 + (k - 1) = k /\ 1 + (k - 1) <= len /\ 1 + (k - 1) <= Len(s)
    BY <1>3, <1>4
  <2> QED
    BY <1>1, <2>1 DEF Run, Contiguous
<1> HIDE DEF len
<1>6. SubSeq(s, 1, len) = FrameOf(f, len)
  <2>1. SubSeq(s, 1, len) \in Seq(Units) /\ Len(SubSeq(s, 1, len)) = len
        /\ \A k \in 1 .. len : SubSeq(s, 1, len)[k] = s[k]
    BY <1>4
  <2>2. FrameOf(f, len) \in Seq(Units) /\ Len(FrameOf(f, len)) = len
        /\ \A k \in 1 .. len : FrameOf(f, len)[k] = <<f, k>>
    BY <1>3, FrameUnits DEF FrameOf, len
  <2> DEFINE g == SubSeq(s, 1, len)
             h == FrameOf(f, len)
  <2>3. g \in Seq(Units) /\ h \in Seq(Units) /\ Len(g) = len /\ Len(h) = len
        /\ \A k \in 1 .. len : g[k] = h[k]
    BY <1>5, <2>1, <2>2
  <2> HIDE DEF g, h
  <2>4. g = h
    BY <2>3
  <2> QED
    BY <2>4 DEF g, h
<1>7. s[len] = <<f, len>>
  BY <1>3, <1>5 DEF len
<1>8. After(fr, s[len]) = <<f + 1, 1>>
  BY <1>3, <1>7 DEF After, len
<1> QED
  BY <1>3, <1>4, <1>6, <1>8 DEF len

-----------------------------------------------------------------------------
(* Where the stream is: what the client has in its hands, what is in the   *)
(* wire and what the server has not sealed yet follow each other.          *)

FlowType == plain \in Seq(Units) /\ got \in Seq(Seq(Units)) /\ inbuf \in Nat

Framed ==
    \A f \in 1 .. Len(server.frames) :
        /\ Len(server.frames[f]) \in 1 .. MaxFrame
        /\ server.frames[f] = FrameOf(f, Len(server.frames[f]))

\* Every record was cut as Cuts says, and nothing else carries plaintext.
Fits(fr, text) ==
    /\ Len(text) \in 1 .. MaxRecord
    /\ text[1][2] > 1 /\ Len(fr[text[1][1]]) > LongFrame
        => text[Len(text)][1] = text[1][1]
Shaped ==
    \A i \in DOMAIN wire :
        IF wire[i].kind = "record" THEN Fits(server.frames, wire[i].text)
        ELSE wire[i].text = <<>>

\* No byte is missing between the messages, and none has come before it was sent.
Measured ==
    /\ \A i \in 1 .. Len(wire) - 1 : wire[i + 1].end = wire[i].end + Length(wire[i + 1])
    /\ wire # <<>> => wire[Len(wire)].end = server.sent
    /\ inbuf <= OnWire(wire)

\* cur[i] is the unit that message i begins with, or would if it had any.
Course(cur) ==
    /\ cur \in [1 .. Len(wire) + 1 -> Units]
    /\ Run(server.frames, plain, <<Len(got) + 1, 1>>, cur[1])
    /\ \A i \in DOMAIN wire : Run(server.frames, wire[i].text, cur[i], cur[i + 1])
    /\ Run(server.frames, server.pending, cur[Len(wire) + 1], <<Len(server.frames) + 1, 1>>)
Flow == \E cur \in [1 .. Len(wire) + 1 -> Units] : Course(cur)

FlowInv == StreamInv /\ FlowType /\ Framed /\ Shaped /\ Measured /\ Flow

LEMMA RunOfNothing == \A fr, a : Run(fr, <<>>, a, a)
  BY DEF Run, Contiguous

LEMMA InitFlow == Init => FlowInv
<1> SUFFICES ASSUME Init PROVE FlowInv
  OBVIOUS
<1>1. StreamInv
  BY InitStream
<1>2. FlowType /\ Framed /\ Shaped /\ Measured
  BY DEF Init, FlowType, Framed, Shaped, Measured, OnWire
<1>3. Flow
  <2> DEFINE cur == [i \in 1 .. 1 |-> <<1, 1>>]
  <2>1. /\ wire = <<>> /\ plain = <<>> /\ got = <<>> /\ Len(wire) = 0 /\ Len(got) = 0
        /\ server.pending = <<>> /\ server.frames = <<>> /\ Len(server.frames) = 0
    BY DEF Init
  <2>2. cur \in [1 .. Len(wire) + 1 -> Units] /\ cur[1] = <<1, 1>>
    BY <2>1 DEF Units
  <2> HIDE DEF cur
  <2>3. Course(cur)
    BY <2>1, <2>2, RunOfNothing DEF Course
  <2> QED
    BY <2>2, <2>3 DEF Flow
<1> QED
  BY <1>1, <1>2, <1>3 DEF FlowInv

LEMMA NotLast ==
    \A n \in Nat : \A i \in 1 .. n : i # n => i \in 1 .. n - 1 /\ i + 1 \in 1 .. n
  OBVIOUS

LEMMA OnlyOne == (\A s : s = <<>> => Len(s) = 0) /\ (\A n \in Nat \ {0} : n - 1 = 0 => n = 1)
<1>1. Len(<<>>) = 0
  OBVIOUS
<1>2. \A n \in Nat \ {0} : n - 1 = 0 => n = 1
  OBVIOUS
<1> QED
  BY <1>1, <1>2, Zenon

LEMMA FramesSeq == StreamInv => server.frames \in Seq(Seq(Units)) /\ server.pending \in Seq(Units)
  BY DEF StreamInv, StreamType, Servers

WireTyped ==
    /\ Len(wire) \in Nat /\ DOMAIN wire = 1 .. Len(wire)
    /\ \A i \in DOMAIN wire : /\ wire[i] \in Messages /\ wire[i].text \in Seq(Units)
                              /\ wire[i].end \in Nat /\ Length(wire[i]) \in Nat \ {0}

LEMMA WireSeq == StreamInv => WireTyped
<1> SUFFICES ASSUME StreamInv, NEW i \in DOMAIN wire
             PROVE  /\ wire[i] \in Messages /\ wire[i].text \in Seq(Units)
                    /\ wire[i].end \in Nat /\ Length(wire[i]) \in Nat \ {0}
  BY DEF StreamInv, StreamType, WireTyped
<1>1. wire[i] \in Messages
  BY DEF StreamInv, StreamType
<1>2. wire[i].text \in Seq(Units) /\ wire[i].end \in Nat
  BY <1>1 DEF Messages
<1>3. Len(wire[i].text) \in Nat
  BY <1>2
<1> QED
  BY <1>1, <1>2, <1>3 DEF Length

\* Steps that leave the stream alone; TCP may bring more of it.
LEMMA FlowStill ==
    ASSUME FlowInv, StreamInv', UNCHANGED <<wire, plain, got>>,
           inbuf' \in Nat, inbuf' <= OnWire(wire) \/ inbuf' = inbuf,
           server'.frames = server.frames, server'.pending = server.pending,
           server'.sent = server.sent
    PROVE  FlowInv'
<1> USE DEF FlowInv
<1>1. OnWire(wire)' = OnWire(wire)
  BY DEF OnWire, Length
<1>2. Measured'
  BY <1>1 DEF Measured, Length
<1>3. FlowType' /\ Framed' /\ Shaped'
  BY DEF FlowType, Framed, Shaped, Fits
<1>4. Flow'
  BY DEF Flow, Course
<1> QED
  BY <1>2, <1>3, <1>4

\* A message goes behind the others with what it carries of the pending units.
LEMMA FlowAppended ==
    ASSUME FlowInv, StreamInv', NEW m \in Messages, wire' = Append(wire, m),
           UNCHANGED <<plain, got, inbuf>>, server'.frames = server.frames,
           m.end = server.sent + Length(m), server'.sent = m.end,
           IF m.kind = "record" THEN Fits(server.frames, m.text) ELSE m.text = <<>>,
           \A a \in Units, c \in Units :
               Run(server.frames, server.pending, a, c) =>
                   \E b \in Units : /\ Run(server.frames, m.text, a, b)
                                    /\ Run(server.frames, server'.pending, b, c)
    PROVE  FlowInv'
<1> USE DEF FlowInv
<1>1. /\ Len(wire) \in Nat /\ Len(wire') = Len(wire) + 1 /\ wire'[Len(wire) + 1] = m
      /\ \A i \in DOMAIN wire : wire'[i] = wire[i]
      /\ DOMAIN wire = 1 .. Len(wire) /\ DOMAIN wire' = 1 .. Len(wire) + 1
      /\ wire' # <<>> /\ wire' \in Seq(Messages) /\ server.sent \in Nat
  <2>1. wire \in Seq(Messages) /\ server.sent \in Nat
    BY DEF StreamInv, StreamType, Servers
  <2> QED
    BY <2>1
<1>0. WireTyped'
  BY WireSeq, PTL
<1>2. FlowType' /\ Framed'
  BY DEF FlowType, Framed
<1>3. Shaped'
  <2>1. \A i \in DOMAIN wire' : i \in DOMAIN wire \/ i = Len(wire) + 1
    BY <1>1
  <2> QED
    BY <1>1, <2>1 DEF Shaped
<1>4. Measured'
  <2>1. \A i \in 1 .. Len(wire') - 1 : wire'[i + 1].end = wire'[i].end + Length(wire'[i + 1])
    <3> SUFFICES ASSUME NEW i \in 1 .. Len(wire)
                 PROVE  wire'[i + 1].end = wire'[i].end + Length(wire'[i + 1])
      BY <1>1
    <3>1. CASE i = Len(wire)
      BY <1>1, <3>1 DEF Measured
    <3>2. CASE i # Len(wire)
      <4>0. Len(wire) \in Nat /\ DOMAIN wire = 1 .. Len(wire)
        BY <1>1
      <4>1. i \in 1 .. Len(wire) - 1 /\ i \in DOMAIN wire /\ i + 1 \in DOMAIN wire
        BY <3>2, <4>0, NotLast
      <4> QED
        BY <1>1, <4>1 DEF Measured
    <3> QED
      BY <3>1, <3>2
  <2>2. OnWire(wire)' >= OnWire(wire)
    <3>1. \A i \in DOMAIN wire' : wire'[i].end \in Nat /\ Length(wire'[i]) \in Nat \ {0}
      BY <1>0 DEF WireTyped, Length
    <3>2. OnWire(wire)' = m.end - wire'[1].end + Length(wire'[1])
      BY <1>1 DEF OnWire, Length
    <3>3. CASE wire = <<>>
      <4>1. wire'[1] = m /\ 1 \in DOMAIN wire'
        BY <1>1, <3>3
      <4> QED
        BY <3>1, <3>2, <3>3, <4>1 DEF OnWire
    <3>4. CASE wire # <<>>
      <4>1. 1 \in DOMAIN wire /\ wire'[1] = wire[1]
        BY <1>1, <3>4
      <4>2. OnWire(wire) = server.sent - wire[1].end + Length(wire[1])
        BY <3>4 DEF OnWire, Measured
      <4>3. /\ m.end \in Nat /\ Length(m) \in Nat /\ wire[1].end \in Nat
            /\ Length(wire[1]) \in Nat /\ server.sent \in Nat
        <5>1. 1 \in DOMAIN wire' /\ Len(wire) + 1 \in DOMAIN wire'
          BY <1>1, <4>1
        <5> QED
          BY <1>1, <3>1, <4>1, <5>1
      <4> QED
        BY <3>2, <4>1, <4>2, <4>3
    <3> QED
      BY <3>3, <3>4
  <2>3. inbuf' <= OnWire(wire)'
    <3>1. OnWire(wire) \in Int /\ OnWire(wire)' \in Int
      <4>1. wire # <<>> => 1 \in DOMAIN wire /\ Len(wire) \in DOMAIN wire
        BY <1>1
      <4>2. OnWire(wire) \in Int
        BY <4>1, WireSeq DEF OnWire, WireTyped
      <4>3. 1 \in DOMAIN wire' /\ Len(wire') \in DOMAIN wire'
        BY <1>1
      <4>4. OnWire(wire)' \in Int
        <5>1. /\ wire'[1].end \in Nat /\ Length(wire'[1]) \in Nat
              /\ wire'[Len(wire')].end \in Nat
          BY <1>0, <4>3 DEF WireTyped, Length
        <5>2. OnWire(wire)' = wire'[Len(wire')].end - wire'[1].end + Length(wire'[1])
          BY <1>1 DEF OnWire, Length
        <5> QED
          BY <5>1, <5>2
      <4> QED
        BY <4>2, <4>4
    <3> QED
      BY <2>2, <3>1 DEF Measured, FlowType
  <2>4. wire'[Len(wire')].end = server'.sent
    BY <1>1
  <2> QED
    BY <2>1, <2>3, <2>4 DEF Measured
<1>5. Flow'
  <2>1. PICK cur \in [1 .. Len(wire) + 1 -> Units] : Course(cur)
    BY DEF Flow
  <2>2. cur[Len(wire) + 1] \in Units /\ <<Len(server.frames) + 1, 1>> \in Units
    <3>1. Len(server.frames) \in Nat
      BY FramesSeq
    <3> QED
      BY <1>1, <3>1 DEF Units
  <2>3. PICK b \in Units :
          /\ Run(server.frames, m.text, cur[Len(wire) + 1], b)
          /\ Run(server.frames, server'.pending, b, <<Len(server.frames) + 1, 1>>)
    BY <2>1, <2>2 DEF Course
  <2>4. PICK cur2 \in [1 .. Len(wire) + 2 -> Units] :
          /\ \A i \in 1 .. Len(wire) + 1 : cur2[i] = cur[i]
          /\ cur2[Len(wire) + 2] = b
    <3> DEFINE c == [i \in 1 .. Len(wire) + 2 |-> IF i = Len(wire) + 2 THEN b ELSE cur[i]]
    <3>1. /\ c \in [1 .. Len(wire) + 2 -> Units]
          /\ \A i \in 1 .. Len(wire) + 1 : c[i] = cur[i]
          /\ c[Len(wire) + 2] = b
      BY <1>1
    <3> QED
      BY <3>1
  <2>5. \A i \in DOMAIN wire' : Run(server'.frames, wire'[i].text, cur2[i], cur2[i + 1])
    <3> SUFFICES ASSUME NEW i \in DOMAIN wire'
                 PROVE  Run(server.frames, wire'[i].text, cur2[i], cur2[i + 1])
      OBVIOUS
    <3>1. CASE i = Len(wire) + 1
      <4>1. cur2[i] = cur[Len(wire) + 1] /\ cur2[i + 1] = b /\ wire'[i] = m
        BY <1>1, <2>4, <3>1
      <4> QED
        BY <2>3, <4>1
    <3>2. CASE i # Len(wire) + 1
      <4>1. i \in DOMAIN wire /\ i \in 1 .. Len(wire) + 1 /\ i + 1 \in 1 .. Len(wire) + 1
        BY <1>1, <3>2
      <4>2. cur2[i] = cur[i] /\ cur2[i + 1] = cur[i + 1] /\ wire'[i] = wire[i]
        BY <1>1, <2>4, <4>1
      <4> QED
        BY <2>1, <4>1, <4>2 DEF Course
    <3> QED
      BY <3>1, <3>2
  <2>6. /\ Len(wire') + 1 = Len(wire) + 2 /\ cur2[1] = cur[1]
        /\ cur2 \in [1 .. Len(wire') + 1 -> Units]
    BY <1>1, <2>4
  <2>7. /\ Run(server'.frames, plain', <<Len(got') + 1, 1>>, cur2[1])
        /\ Run(server'.frames, server'.pending, cur2[Len(wire') + 1], <<Len(server'.frames) + 1, 1>>)
    BY <2>1, <2>3, <2>4, <2>6 DEF Course
  <2>8. Course(cur2)'
    BY <2>5, <2>6, <2>7 DEF Course
  <2> QED
    BY <2>6, <2>8 DEF Flow
<1> QED
  BY <1>2, <1>3, <1>4, <1>5

\* The first message is taken, and what it carries goes behind plain.
LEMMA FlowTaken ==
    ASSUME FlowInv, StreamInv', wire # <<>>, wire' = Tail(wire),
           Length(wire[1]) <= inbuf, inbuf' = inbuf - Length(wire[1]),
           UNCHANGED <<got, server>>, plain' = plain \o wire[1].text
    PROVE  FlowInv'
<1> USE DEF FlowInv
<1>0. WireTyped /\ WireTyped'
  BY WireSeq, PTL
<1>1. Len(wire) \in Nat \ {0} /\ Len(wire') = Len(wire) - 1 /\ 1 \in DOMAIN wire
      /\ DOMAIN wire = 1 .. Len(wire) /\ DOMAIN wire' = 1 .. Len(wire) - 1
      /\ \A i \in DOMAIN wire' : wire'[i] = wire[i + 1] /\ i + 1 \in DOMAIN wire
  <2>1. wire \in Seq(Messages)
    BY DEF StreamInv, StreamType
  <2> QED
    BY <2>1
<1>a. Len(wire) \in Nat \ {0} /\ Len(wire') = Len(wire) - 1
      /\ DOMAIN wire = 1 .. Len(wire) /\ DOMAIN wire' = 1 .. Len(wire) - 1
  BY <1>1
<1>2. FlowType' /\ Framed'
  <2>1. wire[1].text \in Seq(Units) /\ Length(wire[1]) \in Nat
    BY <1>0, <1>1 DEF WireTyped
  <2> QED
    BY <2>1 DEF FlowType, Framed
<1>3. Shaped'
  BY <1>1 DEF Shaped
<1>4. Measured'
  <2>1. \A i \in 1 .. Len(wire') - 1 : wire'[i + 1].end = wire'[i].end + Length(wire'[i + 1])
    <3> SUFFICES ASSUME NEW i \in 1 .. Len(wire') - 1
                 PROVE  wire'[i + 1].end = wire'[i].end + Length(wire'[i + 1])
      OBVIOUS
    <3>1. i \in DOMAIN wire' /\ i + 1 \in DOMAIN wire' /\ i + 1 \in 1 .. Len(wire) - 1
      BY <1>a
    <3>2. wire'[i] = wire[i + 1] /\ wire'[i + 1] = wire[(i + 1) + 1]
      BY <1>1, <3>1
    <3>3. wire[(i + 1) + 1].end = wire[i + 1].end + Length(wire[(i + 1) + 1])
      BY <3>1 DEF Measured
    <3> QED
      BY <3>2, <3>3
  <2>2. ASSUME wire' # <<>>
        PROVE  wire'[Len(wire')].end = server'.sent /\ inbuf' <= OnWire(wire)'
    <3>0. Len(wire') # 0
      <4>1. wire \in Seq(Messages)
        BY DEF StreamInv, StreamType
      <4> QED
        BY <2>2, <4>1
    <3>1. /\ Len(wire') \in DOMAIN wire' /\ Len(wire') + 1 = Len(wire) /\ 1 \in DOMAIN wire'
          /\ 1 \in 1 .. Len(wire) - 1 /\ 1 + 1 = 2 /\ 2 \in DOMAIN wire /\ Len(wire) \in DOMAIN wire
      BY <1>a, <3>0
    <3>2. wire'[Len(wire')] = wire[Len(wire)] /\ wire'[1] = wire[2]
      BY <1>1, <3>1
    <3>3. wire[2].end = wire[1].end + Length(wire[2])
      BY <3>1 DEF Measured
    <3>4. OnWire(wire)' = wire[Len(wire)].end - wire[2].end + Length(wire[2])
      BY <2>2, <3>2 DEF OnWire, Length
    <3>5. OnWire(wire) = wire[Len(wire)].end - wire[1].end + Length(wire[1])
      BY DEF OnWire
    <3>6. /\ wire[Len(wire)].end \in Nat /\ wire[1].end \in Nat /\ wire[2].end \in Nat
          /\ Length(wire[1]) \in Nat /\ Length(wire[2]) \in Nat /\ inbuf \in Nat
      BY <1>0, <1>1, <3>1 DEF WireTyped, FlowType
    <3>7. inbuf <= OnWire(wire)
      BY DEF Measured
    <3>8. inbuf' <= OnWire(wire)'
      <4>1. \A e, x, y, j, k, b \in Int :
                y = x + k /\ b <= e - x + j => b - j <= e - y + k
        OBVIOUS
      <4>2. \A n \in Nat : n \in Int
        OBVIOUS
      <4>3. inbuf - Length(wire[1]) <= wire[Len(wire)].end - wire[2].end + Length(wire[2])
        BY <3>3, <3>5, <3>6, <3>7, <4>1, <4>2, Zenon
      <4> QED
        BY <3>4, <4>3, Zenon
    <3>9. wire[Len(wire)].end = server.sent
      BY DEF Measured
    <3> QED
      BY <3>2, <3>8, <3>9
  <2>3. ASSUME wire' = <<>> PROVE inbuf' <= OnWire(wire)'
    <3>1. Len(wire) = 1
      <4>1. Len(wire') = 0
        BY <2>3, OnlyOne, Zenon
      <4>2. Len(wire) - 1 = 0 /\ Len(wire) \in Nat \ {0}
        BY <1>a, <4>1, Zenon
      <4> QED
        BY <4>2, OnlyOne, Zenon
    <3>2. OnWire(wire) = Length(wire[1]) /\ Length(wire[1]) \in Nat /\ inbuf \in Nat
      BY <1>0, <1>1, <3>1 DEF WireTyped, FlowType, OnWire
    <3>3. OnWire(wire)' = 0
      BY <2>3 DEF OnWire
    <3>4. inbuf <= OnWire(wire)
      BY DEF Measured
    <3> QED
      BY <3>2, <3>3, <3>4
  <2> QED
    BY <2>1, <2>2, <2>3 DEF Measured
<1>5. Flow'
  <2>1. PICK cur \in [1 .. Len(wire) + 1 -> Units] : Course(cur)
    BY DEF Flow
  <2>2. PICK cur2 \in [1 .. Len(wire) -> Units] : \A i \in 1 .. Len(wire) : cur2[i] = cur[i + 1]
    <3> DEFINE c == [i \in 1 .. Len(wire) |-> cur[i + 1]]
    <3>1. \A i \in 1 .. Len(wire) : i + 1 \in 1 .. Len(wire) + 1
      BY <1>a
    <3>2. c \in [1 .. Len(wire) -> Units] /\ \A i \in 1 .. Len(wire) : c[i] = cur[i + 1]
      BY <3>1
    <3> QED
      BY <3>2
  <2>3. Run(server.frames, plain', <<Len(got) + 1, 1>>, cur2[1])
    <3>1. cur2[1] = cur[1 + 1] /\ 1 + 1 = 2
      BY <1>1, <2>2
    <3>2. /\ Run(server.frames, plain, <<Len(got) + 1, 1>>, cur[1])
          /\ Run(server.frames, wire[1].text, cur[1], cur[1 + 1])
      BY <1>1, <2>1 DEF Course
    <3>3. plain \in Seq(Units) /\ wire[1].text \in Seq(Units)
      BY <1>0, <1>1 DEF WireTyped, FlowType
    <3> QED
      BY <3>1, <3>2, <3>3, FramesSeq, RunJoined
  <2>4. \A i \in DOMAIN wire' : Run(server'.frames, wire'[i].text, cur2[i], cur2[i + 1])
    <3> SUFFICES ASSUME NEW i \in DOMAIN wire'
                 PROVE  Run(server.frames, wire'[i].text, cur2[i], cur2[i + 1])
      OBVIOUS
    <3>1. i \in 1 .. Len(wire) /\ i + 1 \in 1 .. Len(wire)
      BY <1>a
    <3>2. cur2[i] = cur[i + 1] /\ cur2[i + 1] = cur[(i + 1) + 1] /\ wire'[i] = wire[i + 1]
      BY <1>1, <2>2, <3>1
    <3>3. Run(server.frames, wire[i + 1].text, cur[i + 1], cur[(i + 1) + 1])
      BY <1>1, <2>1, <3>1 DEF Course
    <3> QED
      BY <3>2, <3>3
  <2>5. /\ Len(wire') + 1 = Len(wire) /\ Len(wire) \in 1 .. Len(wire)
        /\ cur2 \in [1 .. Len(wire') + 1 -> Units]
    BY <1>a, <2>2
  <2>6. Run(server'.frames, server'.pending, cur2[Len(wire') + 1], <<Len(server'.frames) + 1, 1>>)
    <3>1. cur2[Len(wire') + 1] = cur[Len(wire) + 1]
      BY <2>2, <2>5
    <3>2. Run(server.frames, server.pending, cur[Len(wire) + 1], <<Len(server.frames) + 1, 1>>)
      BY <2>1 DEF Course
    <3> QED
      BY <3>1, <3>2
  <2>7. Course(cur2)'
    BY <2>3, <2>4, <2>5, <2>6 DEF Course
  <2> QED
    BY <2>5, <2>7 DEF Flow
<1> QED
  BY <1>2, <1>3, <1>4, <1>5

\* The answer carries no plaintext.
LEMMA FlowAnswered ==
    ASSUME FlowInv, StreamInv', Answer
    PROVE  FlowInv'
<1> USE DEF FlowInv
<1>1. PICK kinds \in {<<"http", "noise">>, <<"http", "error">>, <<"refused">>} :
        /\ wire' = [i \in DOMAIN kinds |-> Plainly(kinds[i], i)]
        /\ server' = [server EXCEPT !.at = IF "noise" \in ToSet(kinds) THEN "open" ELSE "ended",
                                    !.sent = Len(kinds)]
  BY DEF Answer
<1>2. UNCHANGED <<plain, got, inbuf>> /\ wire = <<>>
  BY DEF Answer, ClientSame, StreamInv, Greeted
<1>3. /\ server'.sent = Len(kinds) /\ server'.frames = server.frames
      /\ server'.pending = server.pending
  BY <1>1 DEF StreamInv, StreamType, Servers
<1>4. /\ Len(kinds) \in {1, 2} /\ DOMAIN kinds = 1 .. Len(kinds)
      /\ \A i \in DOMAIN kinds : kinds[i] \in Kinds \ {"record"} /\ i \in Nat
  BY <1>1 DEF Kinds
<1>5. /\ Len(wire') = Len(kinds) /\ DOMAIN wire' = 1 .. Len(kinds)
      /\ \A i \in DOMAIN wire' : /\ wire'[i].kind # "record" /\ wire'[i].text = <<>>
                                 /\ wire'[i].end = i /\ Length(wire'[i]) = 1
  BY <1>1, <1>4, PlainMessage
<1>6. FlowType' /\ Framed' /\ Shaped'
  BY <1>2, <1>3, <1>5 DEF FlowType, Framed, Shaped
<1>7. Measured'
  <2>1. \A i \in 1 .. Len(wire') - 1 : i \in DOMAIN wire' /\ i + 1 \in DOMAIN wire'
    BY <1>4, <1>5
  <2>2. wire' # <<>> /\ Len(wire') \in DOMAIN wire' /\ 1 \in DOMAIN wire'
    BY <1>4, <1>5
  <2>3. inbuf \in Nat /\ inbuf <= 0
    BY <1>2 DEF Measured, OnWire, FlowType
  <2>4. OnWire(wire)' = Len(wire')
    <3>1. OnWire(wire)' = wire'[Len(wire')].end - wire'[1].end + Length(wire'[1])
      BY <2>2 DEF OnWire, Length
    <3> QED
      BY <1>4, <1>5, <2>2, <3>1
  <2> QED
    BY <1>2, <1>3, <1>4, <1>5, <2>1, <2>2, <2>3, <2>4 DEF Measured, Length
<1>8. Flow'
  <2>1. PICK cur \in [1 .. Len(wire) + 1 -> Units] : Course(cur)
    BY DEF Flow
  <2>2. Len(wire) = 0 /\ cur[1] \in Units
    BY <1>2
  <2>3. PICK cur2 \in [1 .. Len(kinds) + 1 -> Units] : \A i \in 1 .. Len(kinds) + 1 : cur2[i] = cur[1]
    <3> DEFINE c == [i \in 1 .. Len(kinds) + 1 |-> cur[1]]
    <3>1. c \in [1 .. Len(kinds) + 1 -> Units] /\ \A i \in 1 .. Len(kinds) + 1 : c[i] = cur[1]
      BY <2>2
    <3> QED
      BY <3>1
  <2>4. \A i \in DOMAIN wire' : cur2[i] = cur[1] /\ cur2[i + 1] = cur[1]
    BY <1>4, <1>5, <2>3
  <2>5. cur2[1] = cur[1] /\ cur2[Len(wire') + 1] = cur[1]
    BY <1>4, <1>5, <2>3
  <2>6. \A i \in DOMAIN wire' : Run(server'.frames, wire'[i].text, cur2[i], cur2[i + 1])
    BY <1>5, <2>4, RunOfNothing
  <2>7. /\ Run(server.frames, plain, <<Len(got) + 1, 1>>, cur[1])
        /\ Run(server.frames, server.pending, cur[0 + 1], <<Len(server.frames) + 1, 1>>)
    BY <2>1, <2>2 DEF Course
  <2>8. Course(cur2)'
    BY <1>2, <1>3, <1>5, <2>3, <2>5, <2>6, <2>7 DEF Course
  <2> QED
    BY <1>5, <2>3, <2>8 DEF Flow
<1> QED
  BY <1>6, <1>7, <1>8

\* A frame more, and its units behind those that wait to be sealed.
LEMMA FlowWritten ==
    ASSUME FlowInv, StreamInv', WriteFrame
    PROVE  /\ FlowInv'
           /\ \E frame \in Frames : server'.frames = Append(server.frames, frame)
<1> USE DEF FlowInv
<1>1. PICK len \in 1 .. MaxFrame :
        LET frame == FrameOf(Len(server.frames) + 1, len) IN
        server' = [server EXCEPT !.frames = Append(@, frame), !.pending = @ \o frame]
  BY DEF WriteFrame
<1> DEFINE n == Len(server.frames)
           frame == FrameOf(n + 1, len)
<1>2. /\ UNCHANGED <<wire, plain, got, inbuf>> /\ n < MaxFrames
      /\ server'.sent = server.sent
      /\ server'.frames = Append(server.frames, frame)
      /\ server'.pending = server.pending \o frame
  BY <1>1 DEF WriteFrame, ClientSame, StreamInv, StreamType, Servers
<1>3. n \in Nat /\ len \in Nat \ {0} /\ server.frames \in Seq(Seq(Units)) /\ MaxFrame \in Nat
  BY FramesSeq, SizesNat
<1>4. frame \in Seq(Units) /\ Len(frame) = len
  <2>0. n + 1 \in Nat /\ len \in Nat
    BY <1>3
  <2>1. frame \in Seq(Units)
    BY <2>0, FrameUnits
  <2>2. DOMAIN frame = 1 .. len
    BY DEF FrameOf
  <2> HIDE DEF frame
  <2> QED
    BY <1>3, <2>1, <2>2
<1>5. frame \in Frames
  <2>1. n + 1 \in 1 .. MaxFrames
    BY <1>2, <1>3, ControlAssumption
  <2> QED
    BY <2>1 DEF Frames
<1>f. frame = FrameOf(n + 1, len)
  OBVIOUS
<1> HIDE DEF frame
<1>6. /\ server'.frames \in Seq(Seq(Units)) /\ Len(server'.frames) = n + 1
      /\ \A f \in 1 .. n : server'.frames[f] = server.frames[f]
      /\ server'.frames[n + 1] = frame
  BY <1>2, <1>3, <1>4, FrameBehind
<1>7. FlowType'
  BY <1>2 DEF FlowType
<1>8. Framed'
  <2>1. \A f \in 1 .. n + 1 : f \in 1 .. n \/ f = n + 1
    BY <1>3
  <2> QED
    BY <1>4, <1>6, <1>f, <2>1 DEF Framed
<1>9. Measured'
  <2>1. OnWire(wire)' = OnWire(wire)
    BY <1>2 DEF OnWire, Length
  <2> QED
    BY <1>2, <2>1 DEF Measured, Length
<1>10. PICK cur \in [1 .. Len(wire) + 1 -> Units] : Course(cur)
  BY DEF Flow
<1>11. WireTyped
  BY WireSeq
<1>12. Shaped'
  <2> SUFFICES ASSUME NEW i \in DOMAIN wire, wire[i].kind = "record"
               PROVE  Fits(server'.frames, wire[i].text)
    BY <1>2 DEF Shaped
  <2>1. Fits(server.frames, wire[i].text) /\ wire[i].text \in Seq(Units)
    BY <1>11 DEF Shaped, WireTyped
  <2>2. 1 \in 1 .. Len(wire[i].text)
    BY <2>1, SizesNat DEF Fits
  <2>3. wire[i].text[1][1] \in 1 .. n
    BY <1>10, <2>2 DEF Course, Run, Contiguous, Known
  <2> QED
    BY <1>6, <2>1, <2>3 DEF Fits
<1>13. Flow'
  <2>1. Run(server'.frames, plain, <<Len(got) + 1, 1>>, cur[1])
    BY <1>2, <1>3, <1>4, <1>10, RunKept DEF Course, FlowType
  <2>2. \A i \in DOMAIN wire : Run(server'.frames, wire[i].text, cur[i], cur[i + 1])
    <3> SUFFICES ASSUME NEW i \in DOMAIN wire
                 PROVE  Run(server'.frames, wire[i].text, cur[i], cur[i + 1])
      OBVIOUS
    <3>1. /\ wire[i].text \in Seq(Units)
          /\ Run(server.frames, wire[i].text, cur[i], cur[i + 1])
      BY <1>10, <1>11 DEF Course, WireTyped
    <3> QED
      BY <1>2, <1>3, <1>4, <3>1, RunKept
  <2>3. Run(server'.frames, server.pending, cur[Len(wire) + 1], <<n + 1, 1>>)
    BY <1>2, <1>3, <1>4, <1>10, FramesSeq, RunKept DEF Course
  <2>4. Run(server'.frames, frame, <<n + 1, 1>>, <<n + 2, 1>>)
    <3>1. n + 1 \in 1 .. Len(server'.frames) /\ (n + 1) + 1 = n + 2
      BY <1>3, <1>6
    <3> QED
      BY <1>3, <1>6, <1>f, <3>1, RunOfFrame
  <2>5. Run(server'.frames, server'.pending, cur[Len(wire) + 1], <<n + 2, 1>>)
    <3>1. server.pending \in Seq(Units)
      BY FramesSeq
    <3> QED
      BY <1>2, <1>4, <1>6, <2>3, <2>4, <3>1, RunJoined
  <2>6. Len(server'.frames) + 1 = n + 2
    BY <1>3, <1>6
  <2>7. Course(cur)'
    BY <1>2, <1>10, <2>1, <2>2, <2>5, <2>6 DEF Course
  <2> QED
    BY <1>2, <2>7 DEF Flow
<1> QED
  BY <1>2, <1>5, <1>7, <1>8, <1>9, <1>12, <1>13

LEMMA FlowServer ==
    ASSUME FlowInv, StreamInv', ServerNext
    PROVE  FlowInv'
<1> USE DEF FlowInv
<1>1. server \in Servers /\ StreamType /\ Greeted
  BY DEF StreamInv, StreamType
<1>2. CASE SealRecord
  <2>1. PICK n \in Cuts(server.pending) : Sealed(n)
    BY <1>1, <1>2, SealedRecord
  <2> DEFINE p == server.pending
             m == RecordOf(n)
  <2>2. /\ n \in 1 .. MaxRecord /\ n <= Len(p) /\ p \in Seq(Units)
        /\ server.frames \in Seq(Seq(Units)) /\ m.text = SubSeq(p, 1, n)
    BY <2>1, FramesSeq DEF Sealed
  <2>3. /\ n \in 1 .. Len(p) /\ 1 \in 1 .. n /\ Len(m.text) = n
        /\ m.text[1] = p[1] /\ m.text[Len(m.text)] = p[n]
    BY <2>2, SizesNat
  <2>4. Fits(server.frames, m.text)
    BY <2>1, <2>2, <2>3 DEF Fits, Cuts
  <2>5. ASSUME NEW a \in Units, NEW c \in Units, Run(server.frames, p, a, c)
        PROVE  \E b \in Units : /\ Run(server.frames, m.text, a, b)
                                /\ Run(server.frames, server'.pending, b, c)
    <3> DEFINE b == After(server.frames, p[n])
    <3>1. Run(server.frames, m.text, a, b) /\ Run(server.frames, server'.pending, b, c)
      BY <2>1, <2>2, <2>3, <2>5, RunCut DEF Sealed
    <3>2. b \in Units
      <4>1. p[n] \in Units
        BY <2>2, <2>3
      <4>2. p[n][1] \in Nat /\ p[n][2] \in Nat
        BY <4>1, UnitIsPair
      <4>3. b \in {<<p[n][1], p[n][2] + 1>>, <<p[n][1] + 1, 1>>}
        BY DEF After
      <4> HIDE DEF b
      <4> QED
        BY <4>2, <4>3 DEF Units
    <3> QED
      BY <3>1, <3>2
  <2>6. /\ m \in Messages /\ m.kind = "record" /\ wire' = Append(wire, m)
        /\ m.end = server.sent + Length(m) /\ server'.sent = m.end
        /\ server'.frames = server.frames
    BY <2>1 DEF Sealed
  <2>7. UNCHANGED <<plain, got, inbuf>>
    BY <1>2 DEF SealRecord, ClientSame
  <2> HIDE DEF p, m
  <2>8. IF m.kind = "record" THEN Fits(server.frames, m.text) ELSE m.text = <<>>
    BY <2>4, <2>6
  <2> QED
    BY <2>5, <2>6, <2>7, <2>8, FlowAppended DEF p
<1>3. ASSUME ServerPings \/ ServerEnds PROVE FlowInv'
  <2>1. \E kind \in {"ping", "error"}, then \in {server.at, "ended"} : Passed(kind, then)
    BY <1>1, <1>3, PlainSent
  <2>2. PICK kind \in {"ping", "error"}, then \in {server.at, "ended"} : Passed(kind, then)
    BY <2>1
  <2> DEFINE m == Plainly(kind, server.sent + 1)
  <2>3. /\ m \in Messages /\ m.kind = kind /\ m.text = <<>> /\ wire' = Append(wire, m)
        /\ m.end = server.sent + Length(m) /\ server'.sent = m.end
        /\ server'.frames = server.frames /\ server'.pending = server.pending
    BY <2>2 DEF Passed
  <2>4. UNCHANGED <<plain, got, inbuf>>
    BY <1>3 DEF ServerPings, ServerEnds, ClientSame
  <2> HIDE DEF m
  <2>5. IF m.kind = "record" THEN Fits(server.frames, m.text) ELSE m.text = <<>>
    BY <2>3
  <2>6. \A a \in Units, c \in Units :
            Run(server.frames, server.pending, a, c) =>
                \E b \in Units : /\ Run(server.frames, m.text, a, b)
                                 /\ Run(server.frames, server'.pending, b, c)
    BY <2>3, RunOfNothing
  <2> QED
    BY <2>3, <2>4, <2>5, <2>6, FlowAppended
<1>4. CASE ServerOpens
  <2>1. /\ server' = [server EXCEPT !.opened = @ + 1]
        /\ UNCHANGED <<wire, inbuf, plain, got>>
    BY <1>4 DEF ServerOpens
  <2>2. /\ server'.frames = server.frames /\ server'.pending = server.pending
        /\ server'.sent = server.sent
    BY <1>1, <2>1 DEF Servers
  <2> QED
    BY <2>1, <2>2, FlowStill DEF FlowType
<1> QED
  BY <1>2, <1>3, <1>4, FlowAnswered, FlowWritten DEF ServerNext

\* A frame that is whole is the next one the server wrote.
LEMMA FlowRead ==
    ASSUME FlowInv, StreamInv', ReadFrame
    PROVE  /\ FlowInv'
           /\ Len(got) < Len(server.frames)
           /\ got' = Append(got, server.frames[Len(got) + 1])
<1> USE DEF FlowInv
<1> DEFINE f == Len(got) + 1
           len == Len(server.frames[f])
<1>1. PICK cur \in [1 .. Len(wire) + 1 -> Units] : Course(cur)
  BY DEF Flow
<1>2. /\ server.frames \in Seq(Seq(Units)) /\ plain \in Seq(Units) /\ plain # <<>>
      /\ got \in Seq(Seq(Units)) /\ Len(got) \in Nat /\ Len(server.frames) \in Nat
  BY FramesSeq DEF FlowType, ReadFrame, FrameWhole
<1>3. Run(server.frames, plain, <<f, 1>>, cur[1])
  BY <1>1 DEF Course
<1>4. Head(plain)[1] = f
  BY <1>2, <1>3 DEF Run
<1>5. /\ len <= Len(plain) /\ UNCHANGED <<wire, inbuf, server>>
      /\ got' = Append(got, SubSeq(plain, 1, len))
      /\ plain' = SubSeq(plain, len + 1, Len(plain))
  BY <1>4 DEF ReadFrame, FrameWhole
<1>6. server.frames[f] = FrameOf(f, len)
  <2>1. 1 \in 1 .. Len(plain) /\ plain[1] = <<f, 1>> /\ Known(server.frames, plain[1])
    BY <1>2, <1>3 DEF Run, Contiguous
  <2>2. f \in 1 .. Len(server.frames)
    BY <2>1 DEF Known
  <2> QED
    BY <2>2 DEF Framed
<1>7. /\ f \in 1 .. Len(server.frames) /\ len \in 1 .. Len(plain)
      /\ SubSeq(plain, 1, len) = server.frames[f]
      /\ After(server.frames, plain[len]) = <<f + 1, 1>>
  <2>1. f \in Nat
    BY <1>2
  <2> QED
    BY <1>2, <1>3, <1>5, <1>6, <2>1, WholeFrame
<1>8. Run(server.frames, plain', <<f + 1, 1>>, cur[1])
  BY <1>2, <1>3, <1>5, <1>7, RunCut
<1>9. plain' \in Seq(Units) /\ got' \in Seq(Seq(Units)) /\ Len(got') + 1 = f + 1
  <2>1. /\ SubSeq(plain, 1, len) \in Seq(Units) /\ len \in Nat
        /\ SubSeq(plain, len + 1, Len(plain)) \in Seq(Units)
    <3> HIDE DEF len
    <3>1. len \in 1 .. Len(plain) /\ plain \in Seq(Units)
      BY <1>2, <1>7
    <3> QED
      BY <3>1, CutUnits
  <2> QED
    BY <1>2, <1>5, <2>1
<1>10. FlowType' /\ Framed' /\ Shaped'
  BY <1>5, <1>9 DEF FlowType, Framed, Shaped, Fits
<1>11. Measured'
  <2>1. OnWire(wire)' = OnWire(wire)
    BY <1>5 DEF OnWire, Length
  <2> QED
    BY <1>5, <2>1 DEF Measured, Length
<1>12. Flow'
  <2>1. Course(cur)'
    BY <1>1, <1>5, <1>8, <1>9 DEF Course
  <2> QED
    BY <1>5, <2>1 DEF Flow
<1>13. Len(got) < Len(server.frames)
  BY <1>2, <1>7
<1> QED
  BY <1>5, <1>7, <1>10, <1>11, <1>12, <1>13

\* The first message, its length and what it carries.
LEMMA FirstMessage ==
    ASSUME FlowInv, wire # <<>>
    PROVE  /\ Head(wire) = wire[1] /\ 1 \in DOMAIN wire
           /\ wire[1].text \in Seq(Units) /\ Length(wire[1]) = Len(wire[1].text) + 1
           /\ Len(wire[1].text) \in Nat
           /\ wire[1].kind # "record" =>
                wire[1].text = <<>> /\ Length(wire[1]) = 1 /\ plain = plain \o wire[1].text
<1>1. Head(wire) = wire[1] /\ 1 \in DOMAIN wire
  BY DEF FlowInv, StreamInv, StreamType
<1>2. wire[1].text \in Seq(Units) /\ plain \in Seq(Units)
  BY <1>1, WireSeq DEF WireTyped, FlowInv, FlowType
<1>3. Length(wire[1]) = Len(wire[1].text) + 1 /\ Len(wire[1].text) \in Nat
  BY <1>2 DEF Length
<1>4. wire[1].kind # "record" => wire[1].text = <<>>
  BY <1>1 DEF FlowInv, Shaped
<1> QED
  BY <1>1, <1>2, <1>3, <1>4

LEMMA RoomInt == FlowType => Room \in Int
<1>1. RespBuf \in Nat /\ RecvBuf \in Nat
  BY ControlAssumption
<1> QED
  BY <1>1 DEF Room, FlowType

LEMMA FlowStep == FlowInv /\ [Next]_vars => FlowInv'
<1> SUFFICES ASSUME FlowInv, [Next]_vars PROVE FlowInv'
  OBVIOUS
<1>1. StreamInv'
  BY StreamStep DEF FlowInv
<1>2. inbuf \in Nat
  BY DEF FlowInv, FlowType
<1>3. CASE at # "failed" /\ ServerNext
  BY <1>1, <1>3, FlowServer
<1>4. CASE RecvSome
  <2>1. PICK n \in 1 .. Room : inbuf + n <= OnWire(wire) /\ inbuf' = inbuf + n
    BY <1>4 DEF RecvSome
  <2>2. n \in Nat
    BY RoomInt DEF FlowInv
  <2>3. inbuf' \in Nat /\ inbuf' <= OnWire(wire) /\ UNCHANGED <<wire, plain, got, server>>
    BY <1>2, <1>4, <2>1, <2>2 DEF RecvSome
  <2> QED
    BY <1>1, <2>3, FlowStill
<1>5. CASE ReadUpgrade \/ ReadNoise \/ SkipFrame
  <2>1. /\ wire # <<>> /\ wire' = Tail(wire) /\ inbuf' = inbuf - Length(Head(wire))
        /\ UNCHANGED <<plain, got, server>>
    BY <1>5 DEF ReadUpgrade, ReadNoise, SkipFrame, Asked, HeadWhole, TakesHead, KeysSame,
                FlowInv, StreamInv, Greeted
  <2>2. Head(wire) = wire[1]
    BY <2>1, FirstMessage
  <2>3. wire[1].kind # "record"
    <3>1. server.at # "asked"
      BY <2>1 DEF FlowInv, StreamInv, Greeted
    <3> QED
      BY <1>5, <2>2, <3>1 DEF ReadUpgrade, ReadNoise, SkipFrame, FlowInv, StreamInv, Greeted
  <2>4. Length(wire[1]) <= inbuf
    <3>1. Length(wire[1]) = 1
      BY <2>1, <2>3, FirstMessage
    <3>2. HeadWhole \/ Answered
      BY <1>5 DEF ReadUpgrade, ReadNoise, SkipFrame, Asked
    <3>3. NoiseSlack \in Nat
      BY ControlAssumption
    <3> QED
      BY <1>2, <2>2, <3>1, <3>2, <3>3 DEF HeadWhole, Answered
  <2>5. plain' = plain \o wire[1].text
    BY <2>1, <2>3, FirstMessage
  <2> QED
    BY <1>1, <2>1, <2>2, <2>4, <2>5, FlowTaken
<1>6. CASE OpenRecord
  <2>1. /\ wire # <<>> /\ wire' = Tail(wire) /\ inbuf' = inbuf - Length(Head(wire))
        /\ inbuf >= Length(Head(wire))
        /\ UNCHANGED <<got, server>> /\ plain' = plain \o Head(wire).text
    BY <1>6 DEF OpenRecord, Asked, HeadWhole, TakesHead
  <2>2. Head(wire) = wire[1] /\ Length(wire[1]) \in Nat
    <3>1. Head(wire) = wire[1] /\ Length(wire[1]) = Len(wire[1].text) + 1
          /\ Len(wire[1].text) \in Nat
      BY <2>1, FirstMessage
    <3> QED
      BY <3>1
  <2>3. Length(wire[1]) <= inbuf
    BY <1>2, <2>1, <2>2
  <2> QED
    BY <1>1, <2>1, <2>2, <2>3, FlowTaken
<1>7. CASE ReadFrame
  BY <1>1, <1>7, FlowRead
<1>8. CASE TimedOut \/ Fail \/ Send \/ UNCHANGED vars
  <2>1. UNCHANGED <<wire, plain, got, inbuf, server>>
    BY <1>8 DEF TimedOut, Fail, Send, vars, KeysSame
  <2> QED
    BY <1>1, <1>2, <2>1, FlowStill
<1> QED
  BY <1>3, <1>4, <1>5, <1>6, <1>7, <1>8 DEF Next

LEMMA FlowAlways == Spec => []FlowInv
  BY InitFlow, FlowStep, PTL DEF Spec

-----------------------------------------------------------------------------
(* Why a connection that is up fails *)

\* The record that comes first is the one the receiver's counter expects.
LEMMA FirstNonce ==
    ASSUME StreamInv, wire # <<>>, wire[1].kind = "record"
    PROVE  wire[1].nonce = recvNonce
<1>1. 1 \in Records /\ Records \subseteq Nat /\ recvNonce \in Nat /\ server.sealed \in Nat
  <2>1. 1 \in DOMAIN wire /\ DOMAIN wire \subseteq Nat
    BY DEF StreamInv, StreamType
  <2> QED
    BY <2>1 DEF Records, StreamInv, StreamType, Servers
<1>2. \A i \in Records : i >= 1 /\ Nonces[i] = wire[i].nonce /\ wire[i].nonce \in Nat
  BY RecordNonce DEF StreamInv, Nonces
<1>3. Nonces[1] >= recvNonce /\ Nonces[1] < server.sealed
  BY <1>1 DEF StreamInv, Downlink, InOrder
<1>4. PICK i \in Records : Nonces[i] = recvNonce
  BY <1>1, <1>2, <1>3 DEF StreamInv, Downlink, InOrder
<1>5. i # 1 => Nonces[1] < Nonces[i]
  BY <1>1, <1>2 DEF StreamInv, Downlink, InOrder
<1> QED
  BY <1>1, <1>2, <1>3, <1>4, <1>5

\* What the client holds when it asks for more is the beginning of one frame.
LEMMA Unfinished ==
    ASSUME FlowInv, ~FrameWhole(plain), plain # <<>>
    PROVE  LET f == Len(got) + 1
               len == Len(server.frames[f])
           IN /\ f \in 1 .. Len(server.frames) /\ len \in 1 .. MaxFrame
              /\ Len(plain) \in 1 .. len - 1
              /\ After(server.frames, plain[Len(plain)]) = <<f, Len(plain) + 1>>
<1> DEFINE f == Len(got) + 1
           len == Len(server.frames[f])
           p == Len(plain)
<1>1. PICK cur \in [1 .. Len(wire) + 1 -> Units] : Course(cur)
  BY DEF FlowInv, Flow
<1>2. /\ server.frames \in Seq(Seq(Units)) /\ plain \in Seq(Units)
      /\ got \in Seq(Seq(Units)) /\ Len(got) \in Nat /\ p \in Nat \ {0}
  BY FramesSeq DEF FlowInv, FlowType
<1>3. Contiguous(server.frames, plain) /\ plain[1] = <<f, 1>> /\ 1 \in 1 .. p
  BY <1>1, <1>2 DEF Course, Run
<1>4. plain[1][1] = f /\ plain[1][2] = 1 /\ f \in 1 .. Len(server.frames)
  <2>1. plain[1][1] = f /\ plain[1][2] = 1
    BY <1>3
  <2>2. Known(server.frames, plain[1])
    BY <1>3 DEF Contiguous
  <2> QED
    BY <2>1, <2>2 DEF Known
<1>5. len \in 1 .. MaxFrame
  BY <1>4 DEF FlowInv, Framed
<1>6. p < len /\ len \in Nat
  BY <1>2, <1>3, <1>4, <1>5, SizesNat DEF FrameWhole
<1>7. plain[p] = <<f, p>>
  <2> HIDE DEF f, p
  <2>1. p - 1 \in Nat /\ 1 + (p - 1) = p /\ 1 + (p - 1) <= len
    BY <1>2, <1>6
  <2>2. \A d \in Nat : 1 + d <= p /\ plain[1][2] + d <= Len(server.frames[plain[1][1]])
            => plain[1 + d] = <<plain[1][1], plain[1][2] + d>>
    BY <1>3 DEF Contiguous, p
  <2>3. plain[1 + (p - 1)] = <<f, 1 + (p - 1)>>
    <3>1. 1 + (p - 1) <= p
      BY <2>1, <1>2
    <3>2. plain[1][2] + (p - 1) <= Len(server.frames[plain[1][1]])
      BY <1>4, <2>1
    <3>3. plain[1 + (p - 1)] = <<plain[1][1], plain[1][2] + (p - 1)>>
      BY <2>1, <2>2, <3>1, <3>2
    <3> QED
      BY <1>4, <3>3
  <2> QED
    BY <2>1, <2>3
<1>8. After(server.frames, plain[p]) = <<f, p + 1>>
  BY <1>6, <1>7 DEF After
<1>9. p \in 1 .. len - 1
  BY <1>2, <1>6
<1> QED
  BY <1>4, <1>5, <1>8, <1>9

\* The plaintext of the next record fits behind it.
LEMMA NeverTooLong ==
    ASSUME FlowInv, wire # <<>>, wire[1].kind = "record", ~FrameWhole(plain)
    PROVE  ~TooLong(wire[1])
<1> DEFINE text == wire[1].text
           n == Len(text)
           p == Len(plain)
           fr == server.frames
<1>1. /\ H2Buf \in Nat /\ MaxRecord \in Nat /\ MaxFrame \in Nat /\ LongFrame \in Nat
      /\ MaxFrame <= H2Buf /\ MaxRecord <= H2Buf /\ LongFrame + MaxRecord <= H2Buf + 1
  BY ControlAssumption
<1>2. 1 \in DOMAIN wire /\ text \in Seq(Units) /\ n \in Nat
  BY FirstMessage
<1>3. Fits(fr, text) /\ n \in 1 .. MaxRecord
  BY <1>2 DEF FlowInv, Shaped, Fits
<1>4. p \in Nat
  BY DEF FlowInv, FlowType
<1>5. CASE plain = <<>>
  BY <1>1, <1>2, <1>3, <1>5 DEF TooLong
<1>6. CASE plain # <<>>
  <2> DEFINE f == Len(got) + 1
             len == Len(fr[f])
  <2>1. /\ f \in 1 .. Len(fr) /\ len \in 1 .. MaxFrame /\ p \in 1 .. len - 1
        /\ After(fr, plain[p]) = <<f, p + 1>>
    BY <1>6, Unfinished
  <2>2. PICK cur \in [1 .. Len(wire) + 1 -> Units] : Course(cur)
    BY DEF FlowInv, Flow
  <2>3. Contiguous(fr, text) /\ text[1] = <<f, p + 1>>
    <3>1. Run(fr, text, cur[1], cur[1 + 1]) /\ Run(fr, plain, <<f, 1>>, cur[1])
      BY <1>2, <2>2 DEF Course
    <3>2. text # <<>>
      BY <1>1, <1>3
    <3> QED
      BY <1>6, <2>1, <3>1, <3>2 DEF Run
  <2>4. text[1][1] = f /\ text[1][2] = p + 1
    BY <2>3
  <2>a. fr \in Seq(Seq(Units)) /\ f \in Nat /\ len \in Nat
    <3>1. got \in Seq(Seq(Units)) /\ fr \in Seq(Seq(Units))
      BY FramesSeq DEF FlowInv, FlowType
    <3>2. len \in Nat
      <4> HIDE DEF len
      <4> QED
        BY <1>1, <2>1
    <3> QED
      BY <3>1, <3>2
  <2> HIDE DEF text, n, p, fr, f, len
  <2>5. CASE len <= LongFrame
    <3>1. p + n <= H2Buf
      BY <1>1, <1>3, <1>4, <2>1, <2>5, <2>a
    <3> QED
      BY <1>1, <1>2, <1>4, <3>1 DEF TooLong, text, n, p
  <2>6. CASE len > LongFrame
    <3>1. text[n][1] = f
      BY <1>3, <1>4, <2>1, <2>4, <2>6 DEF Fits, n, len, fr
    <3>2. n <= len - p
      <4> SUFFICES ASSUME n > len - p PROVE FALSE
        BY <1>2, <1>4, <2>a DEF n
      <4> DEFINE d == len - p - 1
      <4>1. /\ d \in Nat /\ 1 + d \in 1 .. n - 1 /\ (p + 1) + d = len /\ 1 \in 1 .. n
            /\ (1 + d) + 1 \in 1 .. n /\ n \in 1 .. n /\ 1 + d <= n /\ (1 + d) + 1 <= n
        BY <1>1, <1>2, <1>3, <1>4, <2>1, <2>a
      <4> HIDE DEF d
      <4>2. text[1 + d] = <<f, len>>
        <5>1. text[1][2] + d <= Len(fr[text[1][1]])
          BY <2>4, <2>a, <4>1 DEF len
        <5>2. text[1 + d] = <<text[1][1], text[1][2] + d>>
          BY <2>3, <4>1, <5>1 DEF Contiguous, n
        <5> QED
          BY <2>4, <4>1, <5>2
      <4>3. text[(1 + d) + 1] = <<f + 1, 1>>
        <5>1. text[1 + d][1] = f /\ text[1 + d][2] = len
          BY <4>2
        <5> QED
          BY <2>3, <4>1, <5>1 DEF Contiguous, n, len
      <4>4. f + 1 <= f
        <5>1. text[(1 + d) + 1][1] = f + 1
          BY <4>3
        <5>2. text[(1 + d) + 1][1] <= text[n][1]
          BY <2>3, <4>1 DEF Contiguous, n
        <5> QED
          BY <3>1, <5>1, <5>2
      <4> QED
        BY <2>a, <4>4
    <3>3. p + n <= H2Buf
      BY <1>1, <1>2, <1>4, <2>1, <2>a, <3>2 DEF n
    <3> QED
      BY <1>1, <1>2, <1>4, <3>3 DEF TooLong, text, n, p
  <2> QED
    BY <1>1, <2>5, <2>6, <2>a
<1> QED
  BY <1>5, <1>6

\* There is room in recv_buf until the next message is whole.
LEMMA RoomForMore ==
    ASSUME FlowInv, at = "up", ~FrameWhole(plain), ~HeadWhole
    PROVE  Room > 0
<1>1. RecvBuf \in Nat /\ MaxRecord \in Nat /\ MaxRecord < RecvBuf /\ RecvBuf > 0
  BY ControlAssumption
<1>2. Room = RecvBuf - inbuf /\ inbuf \in Nat
  BY DEF Room, FlowInv, FlowType
<1>3. CASE wire = <<>>
  BY <1>1, <1>2, <1>3 DEF FlowInv, Measured, OnWire
<1>4. CASE wire # <<>>
  <2>1. /\ Len(wire[1].text) \in Nat /\ Length(wire[1]) = Len(wire[1].text) + 1
        /\ 1 \in DOMAIN wire /\ Head(wire) = wire[1]
    BY <1>4, FirstMessage
  <2>2. Len(wire[1].text) <= MaxRecord
    <3>1. wire[1].kind = "record" => Len(wire[1].text) \in 1 .. MaxRecord
      BY <2>1 DEF FlowInv, Shaped, Fits
    <3>2. wire[1].kind # "record" => Len(wire[1].text) = 0
      BY <1>4, FirstMessage
    <3> QED
      BY <1>1, <2>1, <3>1, <3>2
  <2>3. inbuf < Length(wire[1])
    BY <1>2, <1>4, <2>1 DEF HeadWhole
  <2> QED
    BY <1>1, <1>2, <2>1, <2>2, <2>3
<1> QED
  BY <1>3, <1>4

LEMMA FailsOnError ==
    FlowInv /\ [Next]_vars => (at = "up" /\ at' = "failed" => Head(wire).kind = "error")
<1> SUFFICES ASSUME FlowInv, [Next]_vars, at = "up", at' = "failed"
             PROVE  Head(wire).kind = "error"
  OBVIOUS
<1>1. Fail
  BY DEF Next, vars, ServerNext, Answer, WriteFrame, SealRecord, ServerPings, ServerEnds,
         ServerOpens, ClientSame, RecvSome, ReadUpgrade, ReadNoise, TimedOut, SkipFrame,
         OpenRecord, ReadFrame, Send
<1>2. CASE Asked /\ Refuses(Head(wire))
  <2>1. wire # <<>> /\ ~FrameWhole(plain)
    BY <1>2 DEF Asked, HeadWhole
  <2>2. Head(wire) = wire[1]
    BY <2>1, FirstMessage
  <2>3. wire[1].kind = "record" => ~TooLong(wire[1]) /\ wire[1].nonce = recvNonce
    BY <2>1, NeverTooLong, FirstNonce DEF FlowInv
  <2> QED
    BY <1>2, <2>2, <2>3 DEF Refuses
<1>3. CASE at = "up" /\ ~FrameWhole(plain) /\ ~HeadWhole /\ Room = 0
  BY <1>3, RoomForMore
<1> QED
  BY <1>1, <1>2, <1>3 DEF Fail

\* A connection that is up fails only over a close or an error of the server's,
\* whatever the sizes of the buffers are, as long as the assumptions relate them.
THEOREM FailsOnlyForAReason == Spec => FailsForAReason
  BY FlowAlways, FailsOnError, PTL DEF Spec, FailsForAReason

-----------------------------------------------------------------------------
(* The connection is a channel of frames *)

LEMMA InitChannel == Init => Channel!Init
  BY DEF Init, Channel!Init

LEMMA StepChannel ==
    FlowInv /\ [Next]_vars => [Channel!Next]_<<server.frames, got>>
<1> SUFFICES ASSUME FlowInv, [Next]_vars
             PROVE  Channel!Next \/ UNCHANGED <<server.frames, got>>
  OBVIOUS
<1>1. StreamInv'
  BY StreamStep DEF FlowInv
<1>2. CASE WriteFrame
  <2>1. PICK frame \in Frames : server'.frames = Append(server.frames, frame)
    BY <1>1, <1>2, FlowWritten
  <2>2. got' = got
    BY <1>2 DEF WriteFrame, ClientSame
  <2> QED
    BY <2>1, <2>2 DEF Channel!Next, Channel!Write
<1>3. CASE ReadFrame
  <2>1. /\ Len(got) < Len(server.frames)
        /\ got' = Append(got, server.frames[Len(got) + 1])
    BY <1>1, <1>3, FlowRead
  <2>2. server' = server
    BY <1>3 DEF ReadFrame
  <2> QED
    BY <2>1, <2>2 DEF Channel!Next, Channel!Read
<1>4. CASE at # "failed" /\ ServerNext /\ ~WriteFrame
  <2>1. server \in Servers /\ StreamType /\ Greeted
    BY DEF FlowInv, StreamInv, StreamType
  <2>2. got' = got
    BY <1>4 DEF ServerNext, Answer, SealRecord, ServerPings, ServerEnds, ServerOpens, ClientSame
  <2>3. server'.frames = server.frames
    <3>1. CASE Answer
      BY <2>1, <3>1 DEF Answer, Servers
    <3>2. CASE SealRecord
      BY <2>1, <3>2, SealedRecord DEF Sealed
    <3>3. CASE ServerPings \/ ServerEnds
      BY <2>1, <3>3, PlainSent DEF Passed
    <3>4. CASE ServerOpens
      BY <2>1, <3>4 DEF ServerOpens, Servers
    <3> QED
      BY <1>4, <3>1, <3>2, <3>3, <3>4 DEF ServerNext
  <2> QED
    BY <2>2, <2>3
<1>5. CASE \/ RecvSome \/ ReadUpgrade \/ ReadNoise \/ TimedOut \/ SkipFrame \/ OpenRecord
           \/ Fail \/ Send \/ UNCHANGED vars
  <2>1. got' = got /\ server' = server
    BY <1>5 DEF RecvSome, ReadUpgrade, ReadNoise, TimedOut, SkipFrame, OpenRecord, Fail, Send,
                vars, KeysSame
  <2> QED
    BY <2>1
<1> QED
  BY <1>2, <1>3, <1>4, <1>5 DEF Next

\* Whatever the pieces that TCP makes of the records and the cuts that the records
\* make of the frames, the client reads the frames that were written, in order.
THEOREM FramesImplemented == Spec => ImplementsFrames
  BY InitChannel, StepChannel, FlowAlways, PTL DEF Spec, ImplementsFrames, Channel!Spec
=============================================================================
