------------------------------ MODULE MapStream ------------------------------
(***************************************************************************)
(* A session with the control server: the HTTP/2 client (ts_http2.c) that  *)
(* cuts the Noise transport into frames and joins DATA frames to JSON      *)
(* messages, and the two tasks of ts_main.c that use it.  The main task    *)
(* connects, registers and reads the first MapResponse; the map task then  *)
(* reads the updates while the main task waits for it to stop.             *)
(*                                                                         *)
(* The transport is a reliable, ordered queue of frames (WebSocket over    *)
(* TLS; a frame that has only arrived in part stays in recv_buf, which is  *)
(* the same as not having arrived).  The server is external: it answers in *)
(* the order of the protocol, cuts a message into DATA frames as it likes, *)
(* and mixes in the other frames the code expects.  A message is a         *)
(* sequence of pieces: 0 is its length prefix, 1 .. BodyOf[m] its text, of *)
(* which the first opens the object and the last closes it.  Message 0 is  *)
(* the answer to the registration; it comes without a prefix.              *)
(***************************************************************************)
EXTENDS Integers, Sequences, FiniteSets, SequencesExt

CONSTANTS
    Messages,       \* map messages the server has for a session
    BodyOf,         \* BodyOf[m]: pieces of the text of message m
    Quiet,          \* the messages that name no peers: keep-alives, small updates
    BufPieces,      \* RESP_BUF_SIZE: pieces s_resp_buf holds
    Window,         \* the server's flow control window for the connection
    MaxTimeouts,    \* 4: reads in a row that time out end the map task
    MaxFails,       \* MAX_RECONNECT_FAILS
    MaxStart,       \* 10: frames ts_http2_start looks at
    MaxNoise        \* bound: other frames the server sends in a session

ASSUME StreamAssumption ==
    /\ Messages \in Nat \ {0} /\ Quiet \subseteq 1 .. Messages
    /\ BodyOf \in [0 .. Messages -> Nat \ {0}]
    /\ BufPieces \in Nat /\ \A m \in 1 .. Messages : BodyOf[m] <= BufPieces
    /\ Window \in Nat \ {0, 1}
    /\ MaxTimeouts \in Nat \ {0} /\ MaxFails \in Nat \ {0}
    /\ MaxStart \in Nat \ {0} /\ MaxNoise \in Nat

VARIABLES
    pc,         \* what the client does with the session
    failures,   \* reconnect_failures
    timeouts,   \* consecutive_timeouts of map_poll_task
    peers,      \* the peer table is not empty (peer_count > 0)
    wg_up,      \* WireGuard is set up
    wire,       \* frames on their way to the client, or in recv_buf
    open,       \* the server's end of the connection is open
    credit,     \* pieces the server may still send
    at,         \* the message and piece the server sends next
    done,       \* the server has ended the stream of the request
    noise,      \* other frames sent in this session
    attempts,   \* frames ts_http2_start has looked at
    got,        \* got_settings and got_settings_ack
    owed,       \* the two the server has not sent yet
    json,       \* the text the read in progress has joined (buf, json_pos)
    expected,   \* json_expected of the read in progress
    aligned,    \* history: the read in progress began between two messages
    cut,        \* history: a read of this session gave up inside a message
    returned    \* history: what the reads of this session returned

session == <<wire, open, credit, at, done, noise, attempts, got, owed,
             json, expected, aligned, cut, returned>>
device == <<failures, timeouts, peers, wg_up>>
vars == <<pc, device, session>>

Reading == {"start", "register", "first", "poll"}
InSession == Reading \cup {"setup"}
InMap == {"first", "setup", "poll"}

(* The two streams of a session: next_stream is 1, then 3.                  *)
RegisterStream == 1
MapStreamId == 3
Active == IF pc = "register" THEN RegisterStream ELSE MapStreamId

Frame(type, stream, pieces, end) ==
    [type |-> type, stream |-> stream, pieces |-> pieces, end |-> end]

(* Every variable of a session back to its first value.                     *)
Hangup(isOpen, owes) ==
    /\ wire' = <<>> /\ open' = isOpen /\ credit' = Window
    /\ at' = [msg |-> 0, part |-> 1] /\ done' = FALSE
    /\ noise' = 0 /\ attempts' = 0 /\ got' = {} /\ owed' = owes
    /\ json' = <<>> /\ expected' = 0
    /\ aligned' = TRUE /\ cut' = FALSE /\ returned' = <<>>

Init ==
    /\ pc = "connect" /\ failures = 0 /\ timeouts = 0
    /\ peers = FALSE /\ wg_up = FALSE
    /\ wire = <<>> /\ open = FALSE /\ credit = Window
    /\ at = [msg |-> 0, part |-> 1] /\ done = FALSE
    /\ noise = 0 /\ attempts = 0 /\ got = {} /\ owed = {}
    /\ json = <<>> /\ expected = 0
    /\ aligned = TRUE /\ cut = FALSE /\ returned = <<>>

-----------------------------------------------------------------------------
(* The server.                                                              *)

ServerSends(frame) ==
    /\ wire' = Append(wire, frame)
    /\ credit' = credit - Len(frame.pieces)

ServerSettings ==
    /\ pc = "start" /\ open
    /\ \E type \in owed :
          /\ owed' = owed \ {type}
          /\ ServerSends(Frame(type, 0, <<>>, FALSE))
    /\ UNCHANGED <<pc, device, open, at, done, noise, attempts, got,
                   json, expected, aligned, cut, returned>>

Left == IF at.msg > Messages THEN 0 ELSE BodyOf[at.msg] - at.part + 1

(* The next k pieces in one DATA frame; the prefix never goes alone, and a  *)
(* frame holds pieces of one message (the server flushes after each one).   *)
ServerData ==
    /\ pc \in {"register"} \cup InMap /\ open /\ ~done
    /\ \E k \in (IF at.part = 0 THEN 2 ELSE 1) .. Left :
       \E end \in IF k = Left THEN BOOLEAN ELSE {FALSE} :
          /\ k <= credit
          /\ ServerSends(Frame("data", Active,
                [i \in 1 .. k |-> [of |-> at.msg, part |-> at.part + i - 1]], end))
          /\ at' = IF k < Left \/ at.msg = 0
                   THEN [at EXCEPT !.part = @ + k]
                   ELSE [msg |-> at.msg + 1, part |-> 0]
          /\ done' = end
    /\ UNCHANGED <<pc, device, open, noise, attempts, got, owed,
                   json, expected, aligned, cut, returned>>

(* The request is over: END_STREAM on its own, with trailers, or a reset.   *)
ServerEnd ==
    /\ pc \in {"register"} \cup InMap /\ open /\ ~done
    /\ at.part = 0 \/ Left = 0
    /\ \E type \in {"data", "headers", "reset"} :
          ServerSends(Frame(type, Active, <<>>, type # "reset"))
    /\ done' = TRUE
    /\ UNCHANGED <<pc, device, open, at, noise, attempts, got, owed,
                   json, expected, aligned, cut, returned>>

(* Frames that may come at any time ("control": a PING, a WINDOW_UPDATE, a  *)
(* later SETTINGS; "headers": those of the response), and what is late of   *)
(* the registration when the map request is under way.                      *)
ServerNoise ==
    /\ pc \in InSession /\ open /\ noise < MaxNoise
    /\ \E frame \in
             {Frame("control", 0, <<>>, FALSE), Frame("goaway", 0, <<>>, FALSE)}
        \cup (IF pc = "start" \/ done THEN {}
              ELSE {Frame("headers", Active, <<>>, FALSE)})
        \cup (IF pc \notin InMap THEN {}
              ELSE {Frame("data", RegisterStream, <<[of |-> 0, part |-> 1]>>, TRUE),
                    Frame("reset", RegisterStream, <<>>, FALSE)}) :
          /\ Len(frame.pieces) <= credit
          /\ ServerSends(frame)
    /\ noise' = noise + 1
    /\ UNCHANGED <<pc, device, open, at, done, attempts, got, owed,
                   json, expected, aligned, cut, returned>>

(* The connection breaks; what was sent before still arrives.               *)
ServerCloses ==
    /\ pc \in InSession /\ open /\ open' = FALSE
    /\ UNCHANGED <<pc, device, wire, credit, at, done, noise, attempts, got, owed,
                   json, expected, aligned, cut, returned>>

-----------------------------------------------------------------------------
(* The client.                                                              *)

(* The main task gives the attempt up: it closes the connection, counts a   *)
(* failure and waits, or stops trying.                                      *)
Failed ==
    /\ failures' = failures + 1
    /\ pc' = IF failures' >= MaxFails THEN "ota" ELSE "connect"
    /\ Hangup(FALSE, {})
    /\ UNCHANGED <<timeouts, peers, wg_up>>

(* ctrl_connect_and_register up to the preface that ts_http2_start sends.   *)
Connect ==
    /\ pc = "connect"
    /\ \/ Failed
       \/ /\ pc' = "start"
          /\ Hangup(TRUE, {"settings", "ack"})
          /\ UNCHANGED device

OtaOnly == pc = "ota" /\ UNCHANGED vars

(* h2_read_frame and h2_consume_frame; the frame is f.                      *)
Consumes(f) ==
    /\ wire # <<>>
    /\ f = Head(wire)
    /\ wire' = Tail(wire)

(* Mutant of ConsumesControl: the frame is consumed before it is answered,  *)
(* and again at the end of the loop.                                        *)
ConsumesControl_Twice(f) ==
    /\ wire # <<>> /\ f = Head(wire)
    /\ wire' = SubSeq(wire, 3, Len(wire))

(* A PING, a SETTINGS or a WINDOW_UPDATE is answered from the buffer.       *)
ConsumesControl(f) == Consumes(f)

(* Mutant of GivesBack: nothing for the last frame of a stream.             *)
GivesBack_NotLast(f) ==
    credit' = IF f.end THEN credit ELSE credit + Len(f.pieces)

(* h2_send_window_update for the payload of a DATA frame.                   *)
GivesBack(f) == credit' = credit + Len(f.pieces)

(* One turn of the loop of ts_http2_start.                                  *)
StartFrame ==
    /\ pc = "start"
    /\ \E f \in ToSet(wire) :
          /\ f = Head(wire)
          /\ LET seen == got \cup ({f.type} \cap {"settings", "ack"})
                 more == attempts + 1 < MaxStart /\ seen # {"settings", "ack"}
             IN  IF f.type = "goaway" \/ (~more /\ "settings" \notin seen)
                 THEN Failed
                 ELSE /\ ConsumesControl(f)
                      /\ got' = seen /\ attempts' = attempts + 1
                      /\ pc' = IF more THEN "start" ELSE "register"
                      /\ UNCHANGED <<device, open, credit, at, done, noise, owed,
                                     json, expected, aligned, cut, returned>>

(* Mutant of Registered: the failures are forgotten once registered.        *)
Registered_Forgets ==
    /\ pc' = "first"
    /\ at' = [msg |-> 1, part |-> 0] /\ done' = FALSE
    /\ failures' = 0 /\ UNCHANGED <<timeouts, peers, wg_up>>

(* The answer to the registration is complete: the main task parses it,     *)
(* starts DISCO and posts the MapRequest, which the server begins to answer.*)
Registered ==
    /\ pc' = "first"
    /\ at' = [msg |-> 1, part |-> 0] /\ done' = FALSE
    /\ UNCHANGED device

(* One turn of the loop of ts_http2_post, which knows no RST_STREAM.        *)
RegisterFrame ==
    /\ pc = "register"
    /\ \E f \in ToSet(wire) :
          /\ f = Head(wire)
          /\ IF f.type = "goaway"
             THEN Failed
             ELSE /\ Consumes(f)
                  /\ IF f.type = "data" THEN GivesBack(f) ELSE credit' = credit
                  /\ IF f.end
                     THEN Registered
                     ELSE UNCHANGED <<pc, device, at, done>>
                  /\ UNCHANGED <<open, noise, attempts, got, owed,
                                 json, expected, aligned, cut, returned>>

(* The server refused the registration, or the MapRequest could not be sent.*)
RegisterRefused ==
    /\ pc = "register" /\ wire # <<>> /\ Head(wire).end
    /\ Failed

(* Mutant of InActive: frames of earlier requests are taken for this one.   *)
InActive_Any(f) == f.stream \in Nat

InActive(f) == f.stream \in {Active, 0}

(* Frames ts_http2_read_json passes over.                                   *)
ReadOther ==
    /\ pc \in {"first", "poll"}
    /\ \E f \in ToSet(wire) :
          /\ \/ f.type \in {"control", "settings", "ack"}
             \/ f.type = "headers" /\ (InActive(f) => ~f.end)
             \/ f.type = "reset" /\ f.stream # Active
          /\ ConsumesControl(f)
    /\ UNCHANGED <<pc, device, open, credit, at, done, noise, attempts, got, owed,
                   json, expected, aligned, cut, returned>>

(* DATA of a request that is over gives its window back, no more.           *)
ReadStale ==
    /\ pc \in {"first", "poll"}
    /\ \E f \in ToSet(wire) :
          /\ f.type = "data" /\ ~InActive(f)
          /\ Consumes(f)
          /\ GivesBack(f)
    /\ UNCHANGED <<pc, device, open, at, done, noise, attempts, got, owed,
                   json, expected, aligned, cut, returned>>

Text(m) == [i \in 1 .. BodyOf[m] |-> [of |-> m, part |-> i]]
Depth(text) ==
    Cardinality({i \in DOMAIN text : text[i].part = 1})
  - Cardinality({i \in DOMAIN text : text[i].part = BodyOf[text[i].of]})

(* A length prefix is seen only at the start of a read, when the fifth byte *)
(* of the frame opens an object.                                            *)
Prefixed(f) ==
    json = <<>> /\ Len(f.pieces) > 1 /\ f.pieces[1].part = 0

(* buf and json_expected after a DATA frame.                                *)
Joined(f) ==
    LET all == json \o (IF Prefixed(f) THEN Tail(f.pieces) ELSE f.pieces)
    IN  SubSeq(all, 1, IF Len(all) < BufPieces THEN Len(all) ELSE BufPieces)
Expects(f) == IF Prefixed(f) THEN BodyOf[f.pieces[1].of] ELSE expected

(* The text is complete: by its length, by its braces, or because the       *)
(* stream is over.                                                          *)
Complete(text, exp, end) ==
    \/ exp > 0 /\ Len(text) >= exp
    \/ exp = 0 /\ text # <<>> /\ Last(text).part > 0 /\ Depth(text) = 0
    \/ end /\ text # <<>>

(* Set WireGuard up if there are peers and it is not; that may fail.        *)
SetUp(some) == wg_up' \in IF some /\ ~wg_up THEN BOOLEAN ELSE {wg_up}

(* What the two tasks do with a text: m is its message, or 0 if it is none. *)
FirstResponse(m) ==
    /\ pc' = "setup" /\ failures' = 0
    /\ peers' = (peers \/ m \notin Quiet)
    /\ UNCHANGED <<timeouts, wg_up>>
PolledResponse(m) ==
    /\ timeouts' = 0
    /\ peers' = (peers \/ m \notin Quiet \cup {0})
    /\ IF m \in Quiet THEN UNCHANGED wg_up ELSE SetUp(peers')
    /\ UNCHANGED <<pc, failures>>

AtBoundary(f) ==
    f.pieces # <<>> => Last(f.pieces).part = BodyOf[Last(f.pieces).of]

(* A DATA frame of the map stream: join it, and return if that completes a  *)
(* message.  END_STREAM on an empty frame is passed over.                   *)
ReadData ==
    /\ pc \in {"first", "poll"}
    /\ \E f \in ToSet(wire) :
          /\ f.type = "data" /\ InActive(f)
          /\ LET text == Joined(f)
                 m == IF \E n \in 1 .. Messages : text = Text(n)
                      THEN text[1].of ELSE 0
             IN  IF ~Complete(text, Expects(f), f.end)
                 THEN /\ Consumes(f) /\ GivesBack(f)
                      /\ json' = text /\ expected' = Expects(f)
                      /\ UNCHANGED <<pc, device, open, at, done, noise, attempts,
                                     got, owed, aligned, cut, returned>>
                 ELSE IF pc = "first" /\ m = 0
                 THEN f = Head(wire) /\ Failed
                 ELSE /\ Consumes(f) /\ GivesBack(f)
                      /\ json' = <<>> /\ expected' = 0
                      /\ aligned' = AtBoundary(f)
                      /\ returned' = Append(returned, [msg |-> m, aligned |-> aligned])
                      /\ IF pc = "first" THEN FirstResponse(m) ELSE PolledResponse(m)
                      /\ UNCHANGED <<open, at, done, noise, attempts, got, owed, cut>>

(* A read that returns -1 ends the first read's attempt, or the map task.   *)
Stops ==
    \/ pc = "first" /\ Failed
    \/ /\ pc = "poll" /\ pc' = "closing"
       /\ UNCHANGED <<device, session>>

ReadStop ==
    /\ pc \in {"first", "poll"} /\ wire # <<>>
    /\ LET f == Head(wire)
       IN  \/ f.type = "goaway"
           \/ f.type = "headers" /\ InActive(f) /\ f.end
           \/ f.type = "reset" /\ f.stream = Active
    /\ Stops

(* Mutant of TimedOut: a time-out is not counted.                           *)
TimedOut_NotCounted == UNCHANGED <<timeouts, pc>>

(* recv has nothing in time, or the connection is gone: h2_read_frame       *)
(* returns NULL in both cases, and ts_http2_read_json 0, whatever it has    *)
(* joined.                                                                  *)
TimedOut ==
    /\ timeouts' = timeouts + 1
    /\ pc' = IF timeouts' >= MaxTimeouts THEN "closing" ELSE "poll"

GiveUp ==
    /\ wire = <<>>
    /\ \/ pc \in {"start", "register", "first"} /\ Failed
       \/ /\ pc = "poll"
          /\ TimedOut
          /\ json' = <<>> /\ expected' = 0
          /\ cut' = (cut \/ json # <<>>)
          /\ aligned' = (at.part = 0)
          /\ UNCHANGED <<failures, peers, wg_up, wire, open, credit, at, done, noise,
                         attempts, got, owed, returned>>

(* The main task between the first response and the map task: the relay,    *)
(* WireGuard if there are peers, and the wait for a handshake.              *)
SetUpSession ==
    /\ pc = "setup"
    /\ SetUp(peers)
    /\ pc' = "poll" /\ timeouts' = 0
    /\ UNCHANGED <<failures, peers, session>>

(* The main task finds the map task gone and takes the session down.        *)
Monitor ==
    /\ pc = "closing"
    /\ wg_up' = FALSE
    /\ Hangup(FALSE, {})
    /\ pc' = "connect"
    /\ UNCHANGED <<failures, timeouts, peers>>

-----------------------------------------------------------------------------
Server == ServerSettings \/ ServerData \/ ServerEnd \/ ServerNoise \/ ServerCloses

Reader ==
    \/ StartFrame \/ RegisterFrame \/ RegisterRefused
    \/ ReadOther \/ ReadStale \/ ReadData \/ ReadStop \/ GiveUp

MainTask == Connect \/ OtaOnly \/ SetUpSession \/ Monitor

Next == Server \/ Reader \/ MainTask

Spec == Init /\ [][Next]_vars

(* The two tasks run, and a read without data returns after its time-out.   *)
(* Nothing is asked of the server.                                          *)
FairSpec == Spec /\ WF_vars(Reader) /\ WF_vars(MainTask)

-----------------------------------------------------------------------------
(* Properties.                                                              *)

(* A read that began between two messages returns exactly one message,      *)
(* whatever else the server mixes between its frames (ts_http2_read_json):  *)
(* also after a read that gave up inside a message, once the reader is back *)
(* at the start of one.  And no message is returned twice or out of order.  *)
WholeMessages ==
    \A i \in DOMAIN returned :
       /\ returned[i].aligned => returned[i].msg # 0
       /\ \A j \in 1 .. i - 1 :
             returned[i].msg = 0 \/ returned[j].msg < returned[i].msg

(* As long as no read gave up inside a message, no message is missing among *)
(* those the reads of a session returned: not at the change from the main   *)
(* task's read to those of the map task either, nor at a time-out between   *)
(* two messages.                                                            *)
NothingSkipped ==
    ~cut => \A i \in DOMAIN returned : returned[i].msg = i

(* Every piece the server may not send because of flow control is still on  *)
(* its way: none of the ways to read, skip or drop DATA keeps a part of the *)
(* server's window, which would stop the updates in the long run.           *)
OnWire == {p \in (DOMAIN wire) \X (1 .. Window) : p[2] \in DOMAIN wire[p[1]].pieces}
CreditBalanced == credit + Cardinality(OnWire) = Window

(* The map task ends when the stream or the connection has ended, although  *)
(* the reader passes over an empty END_STREAM and takes a lost connection   *)
(* for a time-out (map_poll_task counts those).                             *)
EndNoticed == (pc = "poll" /\ (done \/ ~open)) ~> pc # "poll"

(* A client that is not connected gets to polling the map again, or stops   *)
(* trying: the failure counter of the main task is only reset by a complete *)
(* first response, so no order of partial successes keeps it in between.    *)
SessionOrOta == pc = "connect" ~> pc \in {"poll", "ota"}

(* ts_http2.h: "Read one JSON object from a streaming HTTP/2 response.      *)
(* Handles the Tailscale 4-byte little-endian length prefix."  What a read  *)
(* has joined belongs to one message.                                       *)
OneObjectPerRead ==
    \A i, j \in DOMAIN json : json[i].of = json[j].of
=============================================================================
