--------------------------- MODULE ControlRecords ---------------------------
(***************************************************************************)
(* The control connection under HTTP/2: component/tailscale/ctrl_client.c  *)
(* (upgrade, Noise handshake, records) and the frame reader of ts_http2.c. *)
(*                                                                         *)
(* The server's frames are cut into Noise records, each record is one      *)
(* WebSocket frame, and TCP delivers these in pieces of any size.  Lengths *)
(* are in units that stand for some kilobytes; a WebSocket frame is one    *)
(* unit longer than what it carries.  A read that times out changes        *)
(* nothing at this level, so it is no step once the connection is up.      *)
(***************************************************************************)
EXTENDS Integers, Sequences, SequencesExt

CONSTANTS
    RecvBuf,        \* CTRL_RECV_BUF_SIZE, 20480
    RespBuf,        \* resp[1024] of ctrl_client_connect, one byte of it unused
    H2Buf,          \* H2_RECV_BUF_SIZE, 16384 + 512
    MaxFrame,       \* longest frame, H2_MAX_FRAME_SIZE and its header
    MaxRecord,      \* most plaintext the server puts in a record, about 4 KB
    LongFrame,      \* longest frame whose last record may begin the next one
    MaxSend,        \* CTRL_MAX_SEND_PT, 4608
    NoiseSlack,     \* what is waited for beyond the answer: 55 bytes for 53
    MaxFrames,      \* bound: frames the server writes
    MaxSends,       \* bound: messages the client seals
    MaxControl      \* bound: WebSocket frames that carry no record

ASSUME ControlAssumption ==
    /\ \A n \in {RecvBuf, RespBuf, H2Buf, MaxFrame, MaxRecord, MaxSend} : n \in Nat \ {0}
    /\ MaxRecord < RecvBuf /\ MaxFrame <= H2Buf /\ MaxRecord <= H2Buf
    /\ LongFrame + MaxRecord <= H2Buf + 1
    /\ {LongFrame, NoiseSlack, MaxFrames, MaxSends, MaxControl} \subseteq Nat

VARIABLES
    at,         \* where the client is
    tcp,        \* "ok", or "broken" once a send has failed
    wire,       \* WebSocket frames not yet taken out of recv_buf, in order
    inbuf,      \* how much of them recv_buf holds
    recvNonce,  \* of the transport: records opened
    sendNonce,  \* of the transport: records sealed
    plain,      \* recv_buf of ts_http2_t: plaintext not yet taken as frames
    got,        \* history: the frames read
    uplink,     \* nonces of the client's records on their way
    server      \* what the server has written, sealed and opened

vars == <<at, tcp, wire, inbuf, recvNonce, sendNonce, plain, got, uplink, server>>

\* A frame is the sequence of its units, and a unit knows its place.
FrameOf(f, len) == [i \in 1 .. len |-> <<f, i>>]
Frames == {FrameOf(f, len) : f \in 1 .. MaxFrames, len \in 1 .. MaxFrame}

\* A WebSocket frame: its kind, its plaintext, the nonce it was sealed with, and
\* where it ends in the stream of bytes that the server has sent.
Message(kind, text, nonce, end) ==
    [kind |-> kind, text |-> text, nonce |-> nonce, end |-> end]
Length(m) == Len(m.text) + 1

\* How long the WebSocket frames of w, one behind the other, are together.
OnWire(w) == IF w = <<>> THEN 0 ELSE w[Len(w)].end - w[1].end + Length(w[1])

\* The HTTP answer comes before the first of them, the Noise message 2 is it;
\* an "error" is a WebSocket close or a Controlbase error.
Plainly(kind, end) == Message(kind, <<>>, 0, end)
Kinds == {"http", "refused", "noise", "record", "ping", "error"}

Init ==
    /\ at = "upgrade" /\ tcp = "ok"
    /\ wire = <<>> /\ inbuf = 0
    /\ recvNonce = 0 /\ sendNonce = 0
    /\ plain = <<>> /\ got = <<>> /\ uplink = <<>>
    /\ server = [at |-> "asked", frames |-> <<>>, pending |-> <<>>,
                 sealed |-> 0, opened |-> 0, control |-> 0, sent |-> 0]

-----------------------------------------------------------------------------
(* The server *)

ClientSame == UNCHANGED <<at, tcp, inbuf, recvNonce, sendNonce, plain, got, uplink>>

\* The request is answered: 101 and the Noise answer or an error, or no 101.
Answer ==
    /\ server.at = "asked"
    /\ \E kinds \in {<<"http", "noise">>, <<"http", "error">>, <<"refused">>} :
        /\ wire' = [i \in DOMAIN kinds |-> Plainly(kinds[i], i)]
        /\ server' = [server EXCEPT !.at = IF "noise" \in ToSet(kinds) THEN "open" ELSE "ended",
                                    !.sent = Len(kinds)]
    /\ ClientSame

WriteFrame ==
    /\ server.at = "open" /\ Len(server.frames) < MaxFrames
    /\ \E len \in 1 .. MaxFrame :
        LET frame == FrameOf(Len(server.frames) + 1, len) IN
        server' = [server EXCEPT !.frames = Append(@, frame), !.pending = @ \o frame]
    /\ ClientSame /\ UNCHANGED wire

\* A record holds a piece of a frame, or several frames or pieces of them; only
\* the last piece of a long frame is never followed by another frame.
Cuts(text) ==
    {n \in 1 .. MaxRecord :
        /\ n <= Len(text)
        /\ text[1][2] > 1 /\ Len(server.frames[text[1][1]]) > LongFrame
            => text[n][1] = text[1][1]}

SealRecord ==
    /\ \E n \in Cuts(server.pending) :
        /\ wire' = Append(wire, Message("record", SubSeq(server.pending, 1, n),
                                        server.sealed, server.sent + n + 1))
        /\ server' = [server EXCEPT !.sealed = @ + 1, !.sent = @ + n + 1,
                                    !.pending = SubSeq(@, n + 1, Len(@))]
    /\ ClientSame

ServerPings ==
    /\ server.at = "open" /\ server.control < MaxControl
    /\ wire' = Append(wire, Plainly("ping", server.sent + 1))
    /\ server' = [server EXCEPT !.control = @ + 1, !.sent = @ + 1]
    /\ ClientSame

\* The server ends the connection once it has sealed what it wrote.
ServerEnds ==
    /\ server.at = "open" /\ server.pending = <<>>
    /\ wire' = Append(wire, Plainly("error", server.sent + 1))
    /\ server' = [server EXCEPT !.at = "ended", !.sent = @ + 1]
    /\ ClientSame

\* A message of the client arrives: it opens with the next nonce or not at all.
ServerOpens ==
    /\ uplink # <<>> /\ server.at = "open"
    /\ Head(uplink) = server.opened
    /\ uplink' = Tail(uplink)
    /\ server' = [server EXCEPT !.opened = @ + 1]
    /\ UNCHANGED <<at, tcp, wire, inbuf, recvNonce, sendNonce, plain, got>>

ServerNext ==
    \/ Answer \/ WriteFrame \/ SealRecord \/ ServerPings \/ ServerEnds \/ ServerOpens

-----------------------------------------------------------------------------
(* The client takes what TCP has brought *)

HeadWhole == wire # <<>> /\ inbuf >= Length(Head(wire))

\* h2_read_frame: is the next frame in the buffer, whole?
FrameWhole(text) == text # <<>> /\ Len(server.frames[Head(text)[1]]) <= Len(text)

\* Has enough come for the Noise answer to be looked at?
Answered_Sixty == inbuf >= 3 + NoiseSlack
Answered == inbuf >= 1 + NoiseSlack

\* The room left for what the next call of io_recv may bring, 0 if none is made.
Room ==
    CASE at = "upgrade" /\ ~HeadWhole -> RespBuf - inbuf
      [] at = "noise" /\ ~Answered -> RecvBuf - inbuf
      [] at = "up" /\ ~FrameWhole(plain) /\ ~HeadWhole -> RecvBuf - inbuf
      [] OTHER -> 0

RecvSome ==
    /\ \E n \in 1 .. Room :
        /\ inbuf + n <= OnWire(wire)
        /\ inbuf' = inbuf + n
    /\ UNCHANGED <<at, tcp, wire, recvNonce, sendNonce, plain, got, uplink, server>>

\* The first WebSocket frame leaves the buffer, what follows it stays.
TakesHead == wire' = Tail(wire) /\ inbuf' = inbuf - Length(Head(wire))

KeysSame == UNCHANGED <<recvNonce, sendNonce, plain, got, uplink, server, tcp>>

\* http_read_response: what came after the header goes to recv_buf.
ReadUpgrade ==
    /\ at = "upgrade" /\ HeadWhole
    /\ at' = IF Head(wire).kind = "http" THEN "noise" ELSE "failed"
    /\ TakesHead /\ KeysSame

\* Enough is there: the Noise message is decoded, and nothing else will do.
ReadNoise ==
    /\ at = "noise" /\ Answered
    /\ at' = IF Head(wire).kind = "noise" THEN "up" ELSE "failed"
    /\ TakesHead /\ KeysSame

\* Ten seconds without a byte before the connection is up.
TimedOut ==
    /\ at \in {"upgrade", "noise"} /\ Room > 0
    /\ at' = "failed"
    /\ UNCHANGED <<wire, inbuf>> /\ KeysSame

-----------------------------------------------------------------------------
(* ctrl_client_recv, called for more plaintext, and the frame reader *)

Asked == at = "up" /\ ~FrameWhole(plain) /\ HeadWhole

\* What a call of ctrl_client_recv says no to, leaving it where it is: no later
\* call gets past it.
TooLong_OffByOne(m) == Len(m.text) >= H2Buf - Len(plain)
TooLong(m) == Len(m.text) > H2Buf - Len(plain)
Refuses(m) ==
    \/ m.kind = "error"
    \/ m.kind = "record" /\ (TooLong(m) \/ m.nonce # recvNonce)

\* Anything else that carries no record is passed over: nothing answers a ping.
SkipFrame ==
    /\ Asked /\ Head(wire).kind \notin {"error", "record"}
    /\ TakesHead /\ UNCHANGED at /\ KeysSame

OpenRecord ==
    /\ Asked /\ Head(wire).kind = "record" /\ ~Refuses(Head(wire))
    /\ plain' = plain \o Head(wire).text
    /\ recvNonce' = recvNonce + 1
    /\ TakesHead
    /\ UNCHANGED <<at, tcp, sendNonce, got, uplink, server>>

Fail ==
    /\ \/ Asked /\ Refuses(Head(wire))
       \/ at = "up" /\ ~FrameWhole(plain) /\ ~HeadWhole /\ Room = 0
    /\ at' = "failed"
    /\ UNCHANGED <<wire, inbuf>> /\ KeysSame

ReadFrame_PayloadOnly ==
    /\ at = "up" /\ FrameWhole(plain)
    /\ LET len == Len(server.frames[Head(plain)[1]]) IN
        /\ got' = Append(got, SubSeq(plain, 1, len))
        /\ plain' = SubSeq(plain, len, Len(plain))
    /\ UNCHANGED <<at, tcp, wire, inbuf, recvNonce, sendNonce, uplink, server>>

ReadFrame ==
    /\ at = "up" /\ FrameWhole(plain)
    /\ LET len == Len(server.frames[Head(plain)[1]]) IN
        /\ got' = Append(got, SubSeq(plain, 1, len))
        /\ plain' = SubSeq(plain, len + 1, Len(plain))
    /\ UNCHANGED <<at, tcp, wire, inbuf, recvNonce, sendNonce, uplink, server>>

\* ctrl_client_send: too long a message is refused before it is sealed; sealing
\* takes a nonce, whether or not TCP then takes the record.
Seals_First(len) == len <= MaxSend + 1
Seals(len) == len <= MaxSend

Send ==
    /\ at = "up" /\ sendNonce < MaxSends
    /\ \E len \in 1 .. MaxSend + 1, sent \in BOOLEAN :
        /\ sendNonce' = IF Seals(len) THEN sendNonce + 1 ELSE sendNonce
        /\ IF len > MaxSend THEN UNCHANGED <<uplink, tcp>>
           ELSE IF sent /\ tcp = "ok"
           THEN uplink' = Append(uplink, sendNonce) /\ UNCHANGED tcp
           ELSE UNCHANGED uplink /\ tcp' = "broken"
    /\ UNCHANGED <<at, wire, inbuf, recvNonce, plain, got, server>>

-----------------------------------------------------------------------------
\* After a failure the client closes the socket, and the server is of no interest.
Next ==
    \/ at # "failed" /\ ServerNext
    \/ RecvSome \/ ReadUpgrade \/ ReadNoise \/ TimedOut
    \/ SkipFrame \/ OpenRecord \/ Fail \/ ReadFrame \/ Send

\* The server seals what it wrote, TCP brings it until the connection breaks, and
\* the map task keeps asking for the next frame.
Fairness ==
    /\ WF_vars(SealRecord) /\ WF_vars(tcp = "ok" /\ RecvSome)
    /\ WF_vars(ReadUpgrade) /\ WF_vars(ReadNoise)
    /\ WF_vars(SkipFrame) /\ WF_vars(OpenRecord) /\ WF_vars(ReadFrame)

Spec == Init /\ [][Next]_vars /\ Fairness

-----------------------------------------------------------------------------
(* Properties *)

\* Whatever pieces TCP makes of the records and the records make of the frames,
\* the client reads the frames the server wrote, whole, in order and once.
Channel == INSTANCE FrameChannel
    WITH Frames <- Frames, written <- server.frames, read <- got
ImplementsFrames == Channel!Spec

\* Both ends count records and no record carries its number: the record that
\* comes next is always the one the receiver's counter expects, and what the
\* client refused to send or failed to send never puts the server out of step.
Records == {i \in DOMAIN wire : wire[i].kind = "record"}
NoncesInStep ==
    /\ {wire[i].nonce : i \in Records} = recvNonce .. server.sealed - 1
    /\ \A i, j \in Records : i < j => wire[i].nonce < wire[j].nonce
    /\ \A i \in DOMAIN uplink : uplink[i] = server.opened + i - 1
    /\ tcp = "ok" => sendNonce = server.opened + Len(uplink)

\* A connection that is up ends only because the server ended it: the buffers are
\* never too small for what may come next, and nothing fails to open.
FailsForAReason ==
    [][at = "up" /\ at' = "failed" => Head(wire).kind = "error"]_vars

\* A frame the server has written is read, unless the connection fails first: the
\* client never waits for bytes that only its own next message would bring.
FrameRead ==
    \A f \in 1 .. MaxFrames :
        (Len(server.frames) >= f) ~> (Len(got) >= f \/ at = "failed" \/ tcp = "broken")
=============================================================================
