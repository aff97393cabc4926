-------------------------- MODULE MapStream_proofs --------------------------
(***************************************************************************)
(* What is proved about the map stream.  The frames on their way follow    *)
(* each other in the stream of the server's messages (Course), and the     *)
(* text that a read has joined is what lies between the place where the    *)
(* read began and the first of them (Reads).  From there, a read that      *)
(* began between two messages returns the next one whole, and no message   *)
(* is returned twice.  Apart from that, no read loses a piece of the       *)
(* server's window.                                                        *)
(***************************************************************************)
EXTENDS MapStream, FiniteSetTheorems, TLAPS

Pieces == [of : Nat, part : Nat]
Positions == [msg : Nat, part : Nat]
FrameTypes == {"settings", "ack", "data", "headers", "reset", "control", "goaway"}
FrameSet == [type : FrameTypes, stream : Nat, pieces : Seq(Pieces), end : BOOLEAN]
Returns == [msg : Nat, aligned : BOOLEAN]

StreamType ==
    /\ pc \in {"connect", "ota", "closing"} \cup InSession
    /\ wire \in Seq(FrameSet) /\ credit \in Nat /\ at \in Positions
    /\ owed \subseteq {"settings", "ack"} /\ done \in BOOLEAN
    /\ json \in Seq(Pieces) /\ expected \in Nat
    /\ aligned \in BOOLEAN /\ cut \in BOOLEAN /\ returned \in Seq(Returns)

\* Only DATA frames carry pieces, and they belong to one of the two requests.
Addressed(f) ==
    /\ f.type # "data" => f.pieces = <<>>
    /\ f.type = "data" => f.stream \in {RegisterStream, MapStreamId}

\* A place in the stream of messages: the message and its piece that come next.
Placed(p) ==
    /\ p \in Positions /\ p.msg \in 1 .. Messages + 1
    /\ p.part # 0 => p.msg <= Messages /\ p.part <= BodyOf[p.msg]

\* Frame f takes the stream from place a to place b.
OfMap(f) == f.type = "data" /\ f.stream = MapStreamId
Behind(p, k) ==
    IF p.part + k = BodyOf[p.msg] + 1 THEN [msg |-> p.msg + 1, part |-> 0]
    ELSE [msg |-> p.msg, part |-> p.part + k]
Carries(f, a, b) ==
    IF OfMap(f) /\ f.pieces # <<>>
    THEN /\ a.msg <= Messages /\ a.part + Len(f.pieces) <= BodyOf[a.msg] + 1
         /\ \A i \in DOMAIN f.pieces : f.pieces[i] = [of |-> a.msg, part |-> a.part + i - 1]
         /\ a.part = 0 => Len(f.pieces) > 1
         /\ b = Behind(a, Len(f.pieces))
         /\ f.end => b.part = 0
    ELSE /\ b = a
         /\ OfMap(f) => f.end /\ b.part = 0

\* cur[i] is the place where frame i begins.
Course(cur) ==
    /\ cur \in [1 .. Len(wire) + 1 -> Positions]
    /\ \A i \in 1 .. Len(wire) + 1 : Placed(cur[i])
    /\ \A i \in DOMAIN wire : Carries(wire[i], cur[i], cur[i + 1])
    /\ cur[Len(wire) + 1] = at

\* What a read that began between two messages has joined at place p: the
\* beginning of the message there.
Begins(text, exp, p) ==
    IF text = <<>> THEN p.part = 0 /\ exp = 0
    ELSE /\ p.msg <= Messages /\ p.part = Len(text) + 1 /\ exp = BodyOf[p.msg]
         /\ \A k \in DOMAIN text : text[k] = [of |-> p.msg, part |-> k]

\* What any read has joined lies before p and behind all that was returned.
Before(u, p) == u.of < p.msg \/ (u.of = p.msg /\ u.part < p.part)
Between(text, rets, p) ==
    /\ \A k \in DOMAIN text : Before(text[k], p)
    /\ \A i \in DOMAIN rets :
        rets[i].msg < p.msg /\ \A k \in DOMAIN text : rets[i].msg < text[k].of

Reads(p) ==
    /\ aligned => Begins(json, expected, p)
    /\ ~cut => aligned /\ p.msg = Len(returned) + 1
    /\ Between(json, returned, p)

Flow == \E cur \in [1 .. Len(wire) + 1 -> Positions] : Course(cur) /\ Reads(cur[1])

\* Before the map request nothing of the map is on its way.
Fresh ==
    /\ json = <<>> /\ expected = 0 /\ aligned /\ ~cut /\ returned = <<>>
    /\ at.msg = 0
    /\ \A i \in DOMAIN wire : ~OfMap(wire[i]) /\ (pc = "start" => wire[i].type # "data")

FlowInv ==
    /\ StreamType
    /\ \A i \in DOMAIN wire : Addressed(wire[i])
    /\ pc \in {"start", "register"} => Fresh
    /\ pc \in InMap => Flow
    /\ WholeMessages /\ NothingSkipped

-----------------------------------------------------------------------------
(* Frames and texts *)

LEMMA SizesNat ==
    /\ Messages \in Nat \ {0} /\ Window \in Nat \ {0} /\ BufPieces \in Nat
    /\ \A m \in 0 .. Messages : BodyOf[m] \in Nat \ {0}
    /\ \A m \in 1 .. Messages : BodyOf[m] <= BufPieces
  BY StreamAssumption

LEMMA Places ==
    /\ \A p \in Positions : p.msg \in Nat /\ p.part \in Nat /\ p = [msg |-> p.msg, part |-> p.part]
    /\ \A u \in Pieces : u.of \in Nat /\ u.part \in Nat
    /\ \A m \in Nat, k \in Nat : /\ [msg |-> m, part |-> k] \in Positions
                                 /\ [of |-> m, part |-> k] \in Pieces
  BY DEF Positions, Pieces

\* Where k pieces from p lead is a place.
LEMMA BehindPlaced ==
    ASSUME NEW p, Placed(p), p.msg <= Messages, NEW k \in Nat, k > 0,
           p.part + k <= BodyOf[p.msg] + 1
    PROVE  /\ Placed(Behind(p, k))
           /\ Behind(p, k).msg >= p.msg
           /\ p.part + k = BodyOf[p.msg] + 1 =>
                Behind(p, k).part = 0 /\ Behind(p, k).msg = p.msg + 1
           /\ p.part + k # BodyOf[p.msg] + 1 =>
                Behind(p, k).part = p.part + k /\ Behind(p, k).msg = p.msg
<1>1. /\ p.msg \in Nat /\ p.part \in Nat /\ p.msg \in 1 .. Messages /\ Messages \in Nat
      /\ BodyOf[p.msg] \in Nat \ {0}
  BY SizesNat, Places DEF Placed
<1>2. CASE p.part + k = BodyOf[p.msg] + 1
  <2>1. Behind(p, k) = [msg |-> p.msg + 1, part |-> 0]
    BY <1>2 DEF Behind
  <2> QED
    BY <1>1, <1>2, <2>1 DEF Placed, Positions
<1>3. CASE p.part + k # BodyOf[p.msg] + 1
  <2>1. Behind(p, k) = [msg |-> p.msg, part |-> p.part + k]
    BY <1>3 DEF Behind
  <2> QED
    BY <1>1, <1>3, <2>1 DEF Placed, Positions
<1> QED
  BY <1>2, <1>3

LEMMA TailOf ==
    ASSUME NEW S, NEW q \in Seq(S), q # <<>>
    PROVE  /\ DOMAIN q = 1 .. Len(q) /\ Len(q) \in Nat \ {0}
           /\ Head(q) = q[1] /\ Head(q) \in S
           /\ Tail(q) \in Seq(S) /\ Len(Tail(q)) = Len(q) - 1
           /\ DOMAIN Tail(q) = 1 .. Len(q) - 1
           /\ \A i \in 1 .. Len(q) - 1 : Tail(q)[i] = q[i + 1]
  OBVIOUS

LEMMA AppendOf ==
    ASSUME NEW S, NEW q \in Seq(S), NEW e \in S
    PROVE  /\ Append(q, e) \in Seq(S) /\ Len(Append(q, e)) = Len(q) + 1 /\ Len(q) \in Nat
           /\ DOMAIN Append(q, e) = 1 .. Len(q) + 1 /\ DOMAIN q = 1 .. Len(q)
           /\ \A i \in 1 .. Len(q) : Append(q, e)[i] = q[i] /\ q[i] \in S
           /\ Append(q, e)[Len(q) + 1] = e
  OBVIOUS

LEMMA JoinOf ==
    ASSUME NEW S, NEW q \in Seq(S), NEW r \in Seq(S)
    PROVE  /\ q \o r \in Seq(S) /\ Len(q \o r) = Len(q) + Len(r)
           /\ Len(q) \in Nat /\ Len(r) \in Nat
           /\ DOMAIN q = 1 .. Len(q) /\ DOMAIN r = 1 .. Len(r)
           /\ DOMAIN (q \o r) = 1 .. Len(q) + Len(r)
           /\ \A i \in 1 .. Len(q) : (q \o r)[i] = q[i]
           /\ \A i \in 1 .. Len(r) : (q \o r)[Len(q) + i] = r[i]
           /\ \A i \in 1 .. Len(q) + Len(r) :
                i \in 1 .. Len(q) \/ (i - Len(q) \in 1 .. Len(r) /\ (q \o r)[i] = r[i - Len(q)])
<1>1. Len(q) \in Nat /\ Len(r) \in Nat
  OBVIOUS
<1>2. ASSUME NEW i \in 1 .. Len(q) + Len(r), i \notin 1 .. Len(q)
      PROVE  i - Len(q) \in 1 .. Len(r) /\ (q \o r)[i] = r[i - Len(q)]
  <2>1. i - Len(q) \in 1 .. Len(r) /\ Len(q) + (i - Len(q)) = i
    BY <1>1, <1>2
  <2>2. (q \o r)[Len(q) + (i - Len(q))] = r[i - Len(q)]
    BY <2>1
  <2> QED
    BY <2>1, <2>2
<1> QED
  BY <1>2

\* The buffer is long enough for what begins in step with the messages.
LEMMA JoinedWhole ==
    ASSUME NEW f \in FrameSet, LET all == json \o (IF Prefixed(f) THEN Tail(f.pieces) ELSE f.pieces)
                               IN  Len(all) <= BufPieces /\ all \in Seq(Pieces)
    PROVE  Joined(f) = json \o (IF Prefixed(f) THEN Tail(f.pieces) ELSE f.pieces)
<1> DEFINE all == json \o (IF Prefixed(f) THEN Tail(f.pieces) ELSE f.pieces)
<1>1. all \in Seq(Pieces) /\ Len(all) <= BufPieces /\ BufPieces \in Nat
  BY SizesNat
<1>2. Joined(f) = SubSeq(all, 1, IF Len(all) < BufPieces THEN Len(all) ELSE BufPieces)
  BY DEF Joined
<1> HIDE DEF all
<1>3. (IF Len(all) < BufPieces THEN Len(all) ELSE BufPieces) = Len(all)
  BY <1>1
<1>4. SubSeq(all, 1, Len(all)) = all
  BY <1>1
<1> QED
  BY <1>2, <1>3, <1>4 DEF all

\* Every unit of the joined text was in the text before or is in the frame.
LEMMA JoinedFrom ==
    ASSUME StreamType, NEW f \in FrameSet
    PROVE  /\ Joined(f) \in Seq(Pieces)
           /\ \A k \in DOMAIN Joined(f) :
                \/ \E i \in DOMAIN json : Joined(f)[k] = json[i]
                \/ \E i \in DOMAIN f.pieces : Joined(f)[k] = f.pieces[i]
<1> DEFINE new == IF Prefixed(f) THEN Tail(f.pieces) ELSE f.pieces
           all == json \o new
           n == IF Len(all) < BufPieces THEN Len(all) ELSE BufPieces
<1>1. json \in Seq(Pieces) /\ f.pieces \in Seq(Pieces)
  BY DEF StreamType, FrameSet
<1>2. new \in Seq(Pieces) /\ \A k \in DOMAIN new : \E i \in DOMAIN f.pieces : new[k] = f.pieces[i]
  <2>1. CASE Prefixed(f)
    <3>1. f.pieces # <<>> /\ new = Tail(f.pieces)
      BY <2>1 DEF Prefixed
    <3>2. \A k \in DOMAIN Tail(f.pieces) :
            k + 1 \in DOMAIN f.pieces /\ Tail(f.pieces)[k] = f.pieces[k + 1]
      BY <1>1, <3>1, TailOf
    <3> QED
      BY <1>1, <3>1, <3>2, TailOf
  <2>2. CASE ~Prefixed(f)
    BY <1>1, <2>2
  <2> QED
    BY <2>1, <2>2
<1> HIDE DEF new
<1>3. /\ all \in Seq(Pieces) /\ Len(all) = Len(json) + Len(new)
      /\ Len(json) \in Nat /\ Len(new) \in Nat
      /\ DOMAIN json = 1 .. Len(json) /\ DOMAIN new = 1 .. Len(new)
      /\ \A k \in 1 .. Len(json) : all[k] = json[k]
      /\ \A k \in 1 .. Len(json) + Len(new) :
           k \in 1 .. Len(json) \/ (k - Len(json) \in 1 .. Len(new) /\ all[k] = new[k - Len(json)])
  BY <1>1, <1>2, JoinOf
<1>4. \A k \in 1 .. Len(all) : \/ \E i \in DOMAIN json : all[k] = json[i]
                               \/ \E i \in DOMAIN f.pieces : all[k] = f.pieces[i]
  <2> HIDE DEF all
  <2> SUFFICES ASSUME NEW k \in 1 .. Len(all)
               PROVE  \/ \E i \in DOMAIN json : all[k] = json[i]
                      \/ \E i \in DOMAIN f.pieces : all[k] = f.pieces[i]
    OBVIOUS
  <2>1. CASE k \in 1 .. Len(json)
    BY <1>3, <2>1
  <2>2. CASE k - Len(json) \in 1 .. Len(new) /\ all[k] = new[k - Len(json)]
    <3>1. PICK i \in DOMAIN f.pieces : new[k - Len(json)] = f.pieces[i]
      BY <1>2, <1>3, <2>2
    <3> QED
      BY <2>2, <3>1
  <2>3. k \in 1 .. Len(json) + Len(new)
    BY <1>3
  <2> QED
    BY <1>3, <2>1, <2>2, <2>3
<1>5. n \in 0 .. Len(all) /\ Joined(f) = SubSeq(all, 1, n)
  BY <1>3, SizesNat DEF Joined, new
<1> HIDE DEF n, all
<1>6. Joined(f) \in Seq(Pieces) /\ \A k \in DOMAIN Joined(f) : k \in 1 .. Len(all) /\ Joined(f)[k] = all[k]
  BY <1>3, <1>5
<1> QED
  BY <1>4, <1>6

\* A DATA frame of the map in the hands of a read that began between two
\* messages: it returns the message of that place, or goes on in it.
LEMMA ReadInStep ==
    ASSUME StreamType, NEW f \in FrameSet, OfMap(f), NEW a, NEW b, Placed(a),
           Begins(json, expected, a), Carries(f, a, b)
    PROVE  IF Complete(Joined(f), Expects(f), f.end)
           THEN /\ a.msg \in 1 .. Messages /\ Joined(f) = Text(a.msg)
                /\ b.msg = a.msg + 1 /\ b.part = 0 /\ AtBoundary(f)
           ELSE b.msg = a.msg /\ Begins(Joined(f), Expects(f), b)
<1> DEFINE k == Len(f.pieces)
           new == IF Prefixed(f) THEN Tail(f.pieces) ELSE f.pieces
           all == json \o new
           m == a.msg
<1>1. /\ json \in Seq(Pieces) /\ f.pieces \in Seq(Pieces) /\ expected \in Nat /\ k \in Nat
      /\ m \in Nat /\ a.part \in Nat /\ f.end \in BOOLEAN
      /\ DOMAIN f.pieces = 1 .. k /\ DOMAIN json = 1 .. Len(json) /\ Len(json) \in Nat
  BY Places DEF StreamType, FrameSet, Placed
<1>2. CASE f.pieces = <<>>
  <2>1. b = a /\ a.part = 0 /\ json = <<>> /\ expected = 0
    BY <1>1, <1>2 DEF Carries, Begins
  <2>2. ~Prefixed(f) /\ json \o f.pieces = <<>>
    BY <1>1, <1>2, <2>1 DEF Prefixed
  <2>3. Joined(f) = <<>> /\ Expects(f) = 0
    <3>1. Len(json \o f.pieces) <= BufPieces
      BY <2>2, SizesNat
    <3> QED
      BY <1>1, <2>1, <2>2, <3>1, JoinedWhole DEF Expects
  <2>4. ~Complete(Joined(f), Expects(f), f.end)
    BY <2>3 DEF Complete
  <2> QED
    BY <2>1, <2>3, <2>4 DEF Begins
<1>3. CASE f.pieces # <<>>
  <2>1. /\ m \in 1 .. Messages /\ a.part + k <= BodyOf[m] + 1 /\ k > 0
        /\ \A i \in 1 .. k : f.pieces[i] = [of |-> m, part |-> a.part + i - 1]
        /\ a.part = 0 => k > 1
        /\ b = Behind(a, k) /\ (f.end => b.part = 0)
        /\ BodyOf[m] \in Nat \ {0} /\ BodyOf[m] <= BufPieces /\ BufPieces \in Nat
    <3>1. /\ m <= Messages /\ a.part + k <= BodyOf[m] + 1 /\ (f.end => b.part = 0)
          /\ \A i \in DOMAIN f.pieces : f.pieces[i] = [of |-> m, part |-> a.part + i - 1]
          /\ a.part = 0 => k > 1
          /\ b = Behind(a, k) /\ m \in 1 .. Messages + 1
      BY <1>3 DEF Carries, Placed
    <3>2. k > 0
      BY <1>1, <1>3
    <3> HIDE DEF k, m
    <3>3. m \in 1 .. Messages /\ m \in 0 .. Messages
      BY <1>1, <3>1, SizesNat
    <3> QED
      BY <1>1, <3>1, <3>2, <3>3, SizesNat
  <2>2. 1 \in 1 .. k /\ f.pieces[1].of = m /\ f.pieces[1].part = a.part
    <3> HIDE DEF k, m
    <3>1. 1 \in 1 .. k /\ a.part + 1 - 1 = a.part
      BY <1>1, <2>1
    <3>2. f.pieces[1] = [of |-> m, part |-> a.part + 1 - 1]
      BY <2>1, <3>1
    <3> QED
      BY <3>1, <3>2
  <2>3. /\ all \in Seq(Pieces) /\ Len(all) = a.part + k - 1 /\ Len(all) > 0
        /\ \A i \in 1 .. Len(all) : all[i] = [of |-> m, part |-> i]
        /\ Expects(f) = BodyOf[m]
    <3>1. CASE json = <<>>
      <4>1. a.part = 0 /\ k > 1 /\ Prefixed(f) /\ Expects(f) = BodyOf[m]
        BY <1>1, <2>1, <2>2, <3>1 DEF Begins, Prefixed, Expects
      <4>2. all = Tail(f.pieces)
        <5>1. Tail(f.pieces) \in Seq(Pieces)
          BY <1>1, <1>3
        <5> QED
          BY <3>1, <4>1, <5>1
      <4>3. Tail(f.pieces) \in Seq(Pieces) /\ Len(Tail(f.pieces)) = k - 1
            /\ \A i \in 1 .. k - 1 : Tail(f.pieces)[i] = f.pieces[i + 1]
        BY <1>1, <1>3
      <4>4. \A i \in 1 .. k - 1 : i + 1 \in 1 .. k /\ a.part + (i + 1) - 1 = i
        BY <1>1, <4>1
      <4> HIDE DEF all
      <4>5. \A i \in 1 .. k - 1 : all[i] = [of |-> m, part |-> i]
        BY <2>1, <4>2, <4>3, <4>4
      <4> QED
        BY <1>1, <4>1, <4>2, <4>3, <4>5
    <3>2. CASE json # <<>>
      <4>1. /\ a.part = Len(json) + 1 /\ expected = BodyOf[m] /\ ~Prefixed(f)
            /\ \A i \in 1 .. Len(json) : json[i] = [of |-> m, part |-> i]
        BY <1>1, <3>2 DEF Begins, Prefixed
      <4>2. all = json \o f.pieces /\ Expects(f) = BodyOf[m]
        BY <4>1 DEF Expects
      <4> HIDE DEF all
      <4>3. /\ all \in Seq(Pieces) /\ Len(all) = Len(json) + k
            /\ \A i \in 1 .. Len(json) : all[i] = json[i]
            /\ \A i \in 1 .. Len(json) + k :
                 i \in 1 .. Len(json) \/ (i - Len(json) \in 1 .. k /\ all[i] = f.pieces[i - Len(json)])
        BY <1>1, <4>2, JoinOf
      <4> HIDE DEF k, m
      <4>4. ASSUME NEW i \in 1 .. Len(all) PROVE all[i] = [of |-> m, part |-> i]
        <5>1. CASE i \in 1 .. Len(json)
          BY <4>1, <4>3, <5>1
        <5>2. CASE i \notin 1 .. Len(json)
          <6>1. i - Len(json) \in 1 .. k /\ all[i] = f.pieces[i - Len(json)]
            BY <4>3, <5>2
          <6>2. a.part + (i - Len(json)) - 1 = i
            BY <1>1, <4>1, <4>3
          <6> QED
            BY <2>1, <6>1, <6>2
        <5> QED
          BY <5>1, <5>2
      <4>5. Len(all) = a.part + k - 1 /\ Len(all) > 0
        BY <1>1, <2>1, <4>1, <4>3
      <4> QED
        BY <4>2, <4>3, <4>4, <4>5
    <3> QED
      BY <3>1, <3>2
  <2>4. Joined(f) = all
    <3>1. Len(all) <= BufPieces /\ all \in Seq(Pieces)
      <4> HIDE DEF all
      <4> QED
        BY <1>1, <2>1, <2>3
    <3> QED
      BY <3>1, JoinedWhole
  <2> HIDE DEF all, new, k, m
  <2>5. all # <<>> /\ Len(all) \in Nat /\ Expects(f) > 0 /\ Len(all) <= BodyOf[m]
    BY <1>1, <2>1, <2>3
  <2>6. k \in Nat /\ Placed(a) /\ a.msg <= Messages /\ a.part + k <= BodyOf[a.msg] + 1 /\ k > 0
    BY <1>1, <2>1 DEF m
  <2>7. CASE Len(all) = BodyOf[m]
    <3>1. Complete(Joined(f), Expects(f), f.end)
      BY <2>3, <2>4, <2>5, <2>7 DEF Complete
    <3>2. b.msg = m + 1 /\ b.part = 0
      <4>1. a.part + k = BodyOf[a.msg] + 1
        BY <1>1, <2>1, <2>3, <2>7 DEF m
      <4> QED
        BY <2>1, <2>6, <4>1, BehindPlaced DEF m
    <3>3. all = Text(m)
      <4>1. Text(m) = [i \in 1 .. BodyOf[m] |-> [of |-> m, part |-> i]]
        BY DEF Text
      <4>2. all = [i \in 1 .. Len(all) |-> all[i]]
        BY <2>3
      <4> QED
        BY <2>3, <2>7, <4>1, <4>2
    <3>4. AtBoundary(f)
      <4>1. k \in 1 .. k /\ a.part + k - 1 = BodyOf[m]
        BY <1>1, <2>1, <2>3, <2>7
      <4>2. f.pieces[k] = [of |-> m, part |-> BodyOf[m]]
        BY <2>1, <4>1
      <4>3. Last(f.pieces) = f.pieces[k]
        BY DEF Last, k
      <4> QED
        BY <4>2, <4>3 DEF AtBoundary
    <3> QED
      BY <2>1, <2>4, <3>1, <3>2, <3>3, <3>4 DEF m
  <2>8. CASE Len(all) # BodyOf[m]
    <3>1. a.part + k # BodyOf[a.msg] + 1
      BY <1>1, <2>1, <2>3, <2>8 DEF m
    <3>2. b.part = a.part + k /\ b.msg = m /\ b.part = Len(all) + 1
      <4>1. b.part = a.part + k /\ b.msg = m
        BY <2>1, <2>6, <3>1, BehindPlaced DEF m
      <4> QED
        BY <1>1, <2>1, <2>3, <4>1
    <3>3. ~f.end
      BY <1>1, <2>1, <3>2, <2>5
    <3>4. ~Complete(Joined(f), Expects(f), f.end)
      BY <2>1, <2>3, <2>4, <2>5, <2>8, <3>3 DEF Complete
    <3>5. Begins(all, Expects(f), b)
      <4>1. DOMAIN all = 1 .. Len(all)
        BY <2>3
      <4> QED
        BY <2>1, <2>3, <2>5, <3>2, <4>1 DEF Begins
    <3> QED
      BY <2>4, <3>2, <3>4, <3>5 DEF m
  <2> QED
    BY <2>7, <2>8
<1> QED
  BY <1>2, <1>3

LEMMA BeforeLater ==
    ASSUME NEW a \in Positions, NEW b \in Positions, NEW u \in Pieces,
           a.msg < b.msg \/ (a.msg = b.msg /\ a.part <= b.part), Before(u, a)
    PROVE  Before(u, b)
<1>1. /\ a.msg \in Nat /\ a.part \in Nat /\ b.msg \in Nat /\ b.part \in Nat
      /\ u.of \in Nat /\ u.part \in Nat
  BY Places
<1> QED
  BY <1>1 DEF Before

\* Where a frame of the map leads, and where its pieces are.
LEMMA CarriedPieces ==
    ASSUME NEW f \in FrameSet, NEW a, NEW b, Placed(a), Carries(f, a, b)
    PROVE  /\ Placed(b) /\ a \in Positions /\ b \in Positions
           /\ a.msg < b.msg \/ (a.msg = b.msg /\ a.part <= b.part)
           /\ OfMap(f) => \A i \in DOMAIN f.pieces :
                /\ f.pieces[i].of = a.msg /\ a.msg \in 1 .. Messages
                /\ Before(f.pieces[i], b)
<1>1. /\ a \in Positions /\ a.msg \in Nat /\ a.part \in Nat
  BY Places DEF Placed
<1>2. CASE OfMap(f) /\ f.pieces # <<>>
  <2> DEFINE k == Len(f.pieces)
  <2>1. f.pieces \in Seq(Pieces)
    BY DEF FrameSet
  <2>2. k \in Nat /\ k > 0 /\ DOMAIN f.pieces = 1 .. k
    BY <1>2, <2>1
  <2>3. /\ a.msg <= Messages /\ a.part + k <= BodyOf[a.msg] + 1 /\ b = Behind(a, k)
        /\ \A i \in 1 .. k : f.pieces[i] = [of |-> a.msg, part |-> a.part + i - 1]
    BY <1>2, <2>2 DEF Carries
  <2> HIDE DEF k
  <2>4. a.msg \in 1 .. Messages /\ Messages \in Nat /\ BodyOf[a.msg] \in Nat
    BY <1>1, <2>3, SizesNat DEF Placed
  <2>5. /\ Placed(b)
        /\ a.part + k = BodyOf[a.msg] + 1 => b.part = 0 /\ b.msg = a.msg + 1
        /\ a.part + k # BodyOf[a.msg] + 1 => b.part = a.part + k /\ b.msg = a.msg
    BY <2>2, <2>3, BehindPlaced
  <2>6. b \in Positions /\ b.msg \in Nat /\ b.part \in Nat
    BY <2>5, Places DEF Placed
  <2>7. ASSUME NEW i \in 1 .. k
        PROVE  /\ f.pieces[i].of = a.msg /\ f.pieces[i].part = a.part + i - 1
               /\ Before(f.pieces[i], b)
    <3>0. f.pieces[i] = [of |-> a.msg, part |-> a.part + i - 1]
      BY <2>3
    <3>1. f.pieces[i].of = a.msg /\ f.pieces[i].part = a.part + i - 1
      BY ONLY <3>0
    <3>2. a.msg < b.msg \/ (a.msg = b.msg /\ a.part + i - 1 < b.part)
      BY <1>1, <2>2, <2>5, <2>6
    <3> QED
      BY <3>1, <3>2 DEF Before
  <2>8. a.msg < b.msg \/ (a.msg = b.msg /\ a.part <= b.part)
    BY <1>1, <2>2, <2>5, <2>6
  <2> QED
    BY <1>1, <2>2, <2>4, <2>5, <2>6, <2>7, <2>8
<1>3. CASE ~(OfMap(f) /\ f.pieces # <<>>)
  <2>1. b = a /\ (OfMap(f) => DOMAIN f.pieces = {})
    BY <1>3 DEF Carries
  <2> QED
    BY <1>1, <2>1
<1> QED
  BY <1>2, <1>3

\* Whatever read has a frame of the map in its hands: what it has joined then
\* lies behind all that was returned.
LEMMA ReadFrom ==
    ASSUME StreamType, NEW f \in FrameSet, OfMap(f), NEW a, NEW b, Placed(a),
           Carries(f, a, b), Between(json, returned, a)
    PROVE  /\ Between(Joined(f), returned, b) /\ Joined(f) \in Seq(Pieces)
           /\ Expects(f) \in Nat
<1>1. /\ Placed(b) /\ a \in Positions /\ b \in Positions
      /\ a.msg < b.msg \/ (a.msg = b.msg /\ a.part <= b.part)
      /\ \A i \in DOMAIN f.pieces :
           /\ f.pieces[i].of = a.msg /\ a.msg \in 1 .. Messages /\ Before(f.pieces[i], b)
  BY CarriedPieces
<1>2. /\ a.msg \in Nat /\ b.msg \in Nat
      /\ \A i \in DOMAIN returned : returned[i].msg \in Nat /\ returned[i].msg < a.msg
  <2>1. \A i \in DOMAIN returned : returned[i] \in Returns
    BY DEF StreamType
  <2> QED
    BY <1>1, <2>1, Places DEF Between, Returns
<1>3. \A i \in DOMAIN json : json[i] \in Pieces
  BY DEF StreamType
<1>4. ASSUME NEW k \in DOMAIN Joined(f)
      PROVE  Before(Joined(f)[k], b) /\ \A i \in DOMAIN returned : returned[i].msg < Joined(f)[k].of
  <2>1. CASE \E i \in DOMAIN json : Joined(f)[k] = json[i]
    <3>1. PICK i \in DOMAIN json : Joined(f)[k] = json[i]
      BY <2>1
    <3>2. Before(json[i], b)
      BY <1>1, <1>3, BeforeLater DEF Between
    <3> QED
      BY <3>1, <3>2 DEF Between
  <2>2. CASE \E i \in DOMAIN f.pieces : Joined(f)[k] = f.pieces[i]
    BY <1>1, <1>2, <2>2
  <2> QED
    BY <2>1, <2>2, JoinedFrom
<1>5. \A i \in DOMAIN returned : returned[i].msg < b.msg
  BY <1>1, <1>2
<1>6. Expects(f) \in Nat
  <2>1. CASE Prefixed(f)
    <3>1. f.pieces \in Seq(Pieces) /\ Len(f.pieces) > 1
      BY <2>1 DEF Prefixed, FrameSet
    <3>2. 1 \in DOMAIN f.pieces
      BY <3>1
    <3> QED
      BY <1>1, <2>1, <3>2, SizesNat DEF Expects
  <2>2. CASE ~Prefixed(f)
    BY <2>2 DEF Expects, StreamType
  <2> QED
    BY <2>1, <2>2
<1> QED
  BY <1>4, <1>5, <1>6, JoinedFrom DEF Between

LEMMA TextOf ==
    ASSUME NEW n \in 1 .. Messages
    PROVE  /\ DOMAIN Text(n) = 1 .. BodyOf[n] /\ BodyOf[n] \in Nat \ {0}
           /\ 1 \in DOMAIN Text(n) /\ BodyOf[n] \in DOMAIN Text(n)
           /\ Text(n)[1].of = n
           /\ Text(n)[BodyOf[n]] = [of |-> n, part |-> BodyOf[n]]
<1>1. BodyOf[n] \in Nat \ {0} /\ 1 \in 1 .. BodyOf[n] /\ BodyOf[n] \in 1 .. BodyOf[n]
  BY SizesNat
<1> QED
  BY <1>1 DEF Text

\* A text that is the whole of message n ends before place p.
LEMMA WholeBefore ==
    ASSUME NEW n \in 1 .. Messages, NEW p, Placed(p), NEW rets, Between(Text(n), rets, p)
    PROVE  n < p.msg /\ \A i \in DOMAIN rets : rets[i].msg < n
<1>1. Before([of |-> n, part |-> BodyOf[n]], p) /\ \A i \in DOMAIN rets : rets[i].msg < n
  BY TextOf DEF Between
<1>2. p.msg \in Nat /\ p.part \in Nat /\ BodyOf[n] \in Nat \ {0}
  BY Places, TextOf DEF Placed
<1>3. n < p.msg \/ (n = p.msg /\ BodyOf[n] < p.part)
  BY <1>1 DEF Before
<1>4. ~(n = p.msg /\ BodyOf[n] < p.part)
  BY <1>2 DEF Placed
<1> QED
  BY <1>1, <1>3, <1>4

-----------------------------------------------------------------------------
(* The course of the frames *)

LEMMA CourseFacts ==
    ASSUME StreamType, NEW cur, Course(cur)
    PROVE  /\ Len(wire) \in Nat /\ DOMAIN wire = 1 .. Len(wire)
           /\ \A i \in 1 .. Len(wire) + 1 : cur[i] \in Positions /\ Placed(cur[i])
           /\ \A i \in 1 .. Len(wire) : Carries(wire[i], cur[i], cur[i + 1]) /\ wire[i] \in FrameSet
           /\ cur[Len(wire) + 1] = at /\ Placed(at)
<1>1. Len(wire) \in Nat /\ DOMAIN wire = 1 .. Len(wire) /\ \A i \in 1 .. Len(wire) : wire[i] \in FrameSet
  BY DEF StreamType
<1>2. Len(wire) + 1 \in 1 .. Len(wire) + 1
  BY <1>1
<1>3. cur \in [1 .. Len(wire) + 1 -> Positions]
  BY DEF Course
<1> QED
  BY <1>1, <1>2, <1>3 DEF Course

\* The server puts a frame behind the others.
LEMMA FlowAppended ==
    ASSUME StreamType, Flow, NEW f \in FrameSet, wire' = Append(wire, f),
           NEW b, at' = b, Placed(b), Carries(f, at, b),
           UNCHANGED <<json, expected, aligned, cut, returned>>
    PROVE  Flow'
<1>1. PICK cur \in [1 .. Len(wire) + 1 -> Positions] : Course(cur) /\ Reads(cur[1])
  BY DEF Flow
<1>2. /\ Len(wire) \in Nat /\ Len(wire') = Len(wire) + 1 /\ DOMAIN wire' = 1 .. Len(wire) + 1
      /\ DOMAIN wire = 1 .. Len(wire)
      /\ \A i \in 1 .. Len(wire) : wire'[i] = wire[i]
      /\ wire'[Len(wire) + 1] = f
  BY AppendOf DEF StreamType
<1>3. /\ \A i \in 1 .. Len(wire) + 1 : cur[i] \in Positions /\ Placed(cur[i])
      /\ \A i \in 1 .. Len(wire) : Carries(wire[i], cur[i], cur[i + 1])
      /\ cur[Len(wire) + 1] = at /\ b \in Positions
  BY <1>1, CourseFacts DEF Placed
<1>4. PICK new \in [1 .. Len(wire) + 2 -> Positions] :
          /\ \A i \in 1 .. Len(wire) + 1 : new[i] = cur[i]
          /\ new[Len(wire) + 2] = b
  <2> DEFINE c == [i \in 1 .. Len(wire) + 2 |-> IF i = Len(wire) + 2 THEN b ELSE cur[i]]
  <2>1. /\ c \in [1 .. Len(wire) + 2 -> Positions] /\ c[Len(wire) + 2] = b
        /\ \A i \in 1 .. Len(wire) + 1 : c[i] = cur[i]
    BY <1>2, <1>3
  <2> QED
    BY <2>1
<1>5. \A i \in 1 .. Len(wire) + 2 : Placed(new[i])
  <2> SUFFICES ASSUME NEW i \in 1 .. Len(wire) + 2, i # Len(wire) + 2 PROVE Placed(new[i])
    BY <1>4
  <2>1. i \in 1 .. Len(wire) + 1
    BY <1>2
  <2> QED
    BY <1>3, <1>4, <2>1
<1>6. ASSUME NEW i \in DOMAIN wire' PROVE Carries(wire'[i], new[i], new[i + 1])
  <2>1. CASE i = Len(wire) + 1
    <3>1. /\ i + 1 = Len(wire) + 2 /\ i \in 1 .. Len(wire) + 1
      BY <1>2, <2>1
    <3> QED
      BY <1>2, <1>3, <1>4, <2>1, <3>1
  <2>2. CASE i # Len(wire) + 1
    <3>1. /\ i \in 1 .. Len(wire) /\ i \in 1 .. Len(wire) + 1 /\ i + 1 \in 1 .. Len(wire) + 1
      BY <1>2, <2>2
    <3> QED
      BY <1>2, <1>3, <1>4, <3>1
  <2> QED
    BY <2>1, <2>2
<1>7. Len(wire') + 1 = Len(wire) + 2 /\ 1 \in 1 .. Len(wire) + 1
  BY <1>2
<1>8. new \in [1 .. Len(wire') + 1 -> Positions] /\ \A i \in 1 .. Len(wire') + 1 : Placed(new[i])
  BY <1>4, <1>5, <1>7
<1>9. new[Len(wire') + 1] = at' /\ new[1] = cur[1]
  BY <1>4, <1>7
<1>10. Course(new)'
  BY <1>6, <1>8, <1>9 DEF Course
<1>11. Reads(new[1])'
  BY <1>1, <1>9 DEF Reads
<1> QED
  BY <1>8, <1>10, <1>11 DEF Flow

\* The reader takes the first frame.
LEMMA FlowTaken ==
    ASSUME StreamType, wire # <<>>, wire' = Tail(wire), at' = at, NEW cur, Course(cur),
           Reads(cur[2])'
    PROVE  Flow'
<1>1. /\ Len(wire) \in Nat \ {0} /\ Len(wire') = Len(wire) - 1 /\ DOMAIN wire' = 1 .. Len(wire) - 1
      /\ \A i \in 1 .. Len(wire) - 1 : wire'[i] = wire[i + 1]
  BY TailOf DEF StreamType
<1>2. /\ \A i \in 1 .. Len(wire) + 1 : cur[i] \in Positions /\ Placed(cur[i])
      /\ \A i \in 1 .. Len(wire) : Carries(wire[i], cur[i], cur[i + 1])
      /\ cur[Len(wire) + 1] = at
  BY CourseFacts
<1>3. PICK new \in [1 .. Len(wire) -> Positions] : \A i \in 1 .. Len(wire) : new[i] = cur[i + 1]
  <2> DEFINE c == [i \in 1 .. Len(wire) |-> cur[i + 1]]
  <2>1. c \in [1 .. Len(wire) -> Positions] /\ \A i \in 1 .. Len(wire) : c[i] = cur[i + 1]
    BY <1>1, <1>2
  <2> QED
    BY <2>1
<1>4. Len(wire') + 1 = Len(wire) /\ 1 \in 1 .. Len(wire) /\ Len(wire) \in 1 .. Len(wire)
  BY <1>1
<1>5. new \in [1 .. Len(wire') + 1 -> Positions] /\ \A i \in 1 .. Len(wire') + 1 : Placed(new[i])
  <2>1. \A i \in 1 .. Len(wire) : i + 1 \in 1 .. Len(wire) + 1
    BY <1>1
  <2> QED
    BY <1>2, <1>3, <1>4, <2>1
<1>6. ASSUME NEW i \in DOMAIN wire' PROVE Carries(wire'[i], new[i], new[i + 1])
  <2>1. i \in 1 .. Len(wire) - 1 /\ i \in 1 .. Len(wire) /\ i + 1 \in 1 .. Len(wire)
    BY <1>1
  <2> QED
    BY <1>1, <1>2, <1>3, <2>1
<1>7. new[Len(wire') + 1] = at' /\ new[1] = cur[2]
  BY <1>2, <1>3, <1>4
<1>8. Course(new)'
  BY <1>5, <1>6, <1>7 DEF Course
<1>9. Reads(new[1])'
  BY <1>7 DEF Reads
<1> QED
  BY <1>5, <1>8, <1>9 DEF Flow

\* A frame that carries nothing of the map leaves the reader where it is.
LEMMA FlowPassed ==
    ASSUME StreamType, Flow, wire # <<>>, wire' = Tail(wire), ~OfMap(wire[1]),
           UNCHANGED <<at, json, expected, aligned, cut, returned>>
    PROVE  Flow'
<1>1. PICK cur \in [1 .. Len(wire) + 1 -> Positions] : Course(cur) /\ Reads(cur[1])
  BY DEF Flow
<1>2. 1 \in 1 .. Len(wire)
  BY TailOf DEF StreamType
<1>3. Carries(wire[1], cur[1], cur[1 + 1])
  BY <1>1, <1>2, CourseFacts
<1>4. cur[2] = cur[1]
  BY <1>3 DEF Carries
<1>5. Reads(cur[2])'
  BY <1>1, <1>4 DEF Reads
<1> QED
  BY <1>1, <1>5, FlowTaken

\* The map request finds nothing of the map on its way.
LEMMA FlowBegins ==
    ASSUME StreamType', \A i \in DOMAIN wire' : ~OfMap(wire'[i]),
           at' = [msg |-> 1, part |-> 0],
           json' = <<>>, expected' = 0, aligned', returned' = <<>>
    PROVE  Flow'
<1> DEFINE p == [msg |-> 1, part |-> 0]
<1>1. Len(wire') \in Nat /\ DOMAIN wire' = 1 .. Len(wire')
  BY DEF StreamType
<1>2. p \in Positions /\ Placed(p)
  <2>1. p.msg = 1 /\ p.part = 0 /\ 1 \in 1 .. Messages + 1
    BY SizesNat
  <2>2. p \in Positions
    BY DEF Positions
  <2> QED
    BY <2>1, <2>2 DEF Placed
<1>3. Begins(<<>>, 0, p) /\ p.msg = 1 /\ Between(<<>>, <<>>, p)
  BY DEF Begins, Between
<1> HIDE DEF p
<1>4. /\ 1 \in 1 .. Len(wire') + 1 /\ Len(wire') + 1 \in 1 .. Len(wire') + 1
      /\ \A i \in 1 .. Len(wire') : i \in 1 .. Len(wire') + 1 /\ i + 1 \in 1 .. Len(wire') + 1
  BY <1>1
<1>5. PICK new : new = [i \in 1 .. Len(wire') + 1 |-> p]
  OBVIOUS
<1>6. /\ new \in [1 .. Len(wire') + 1 -> Positions] /\ \A i \in 1 .. Len(wire') + 1 : Placed(new[i])
      /\ \A i \in DOMAIN wire' : new[i] = p /\ new[i + 1] = p
      /\ new[1] = p /\ new[Len(wire') + 1] = at'
  BY <1>1, <1>2, <1>4, <1>5 DEF p
<1>7. \A i \in DOMAIN wire' : Carries(wire'[i], new[i], new[i + 1])
  BY <1>6 DEF Carries
<1>8. Course(new)'
  BY <1>6, <1>7 DEF Course
<1>9. Reads(new[1])'
  <2>1. Len(<<>>) + 1 = 1
    OBVIOUS
  <2> QED
    BY <1>3, <1>6, <2>1 DEF Reads
<1> QED
  BY <1>6, <1>8, <1>9 DEF Flow

-----------------------------------------------------------------------------
(* The steps *)

\* What a step does to the server's window and to the pieces on their way.
CreditStep ==
    \/ \E f \in FrameSet : Len(f.pieces) <= credit /\ ServerSends(f)
    \/ \E f : Consumes(f) /\ (GivesBack(f) \/ (f.pieces = <<>> /\ credit' = credit))
    \/ UNCHANGED <<wire, credit>>
    \/ wire' = <<>> /\ credit' = Window

Kept == FlowInv' /\ CreditStep

\* A session that is over, or one that begins.
LEMMA FlowOver ==
    ASSUME NEW o \in BOOLEAN, NEW w \in SUBSET {"settings", "ack"}, Hangup(o, w),
           pc' \in {"connect", "ota", "start"}
    PROVE  Kept
<1>1. /\ wire' = <<>> /\ json' = <<>> /\ returned' = <<>> /\ expected' = 0
      /\ credit' = Window /\ at' = [msg |-> 0, part |-> 1] /\ ~done' /\ owed' = w
      /\ aligned' /\ ~cut' /\ done' \in BOOLEAN /\ aligned' \in BOOLEAN /\ cut' \in BOOLEAN
  BY DEF Hangup
<1>2. StreamType'
  <2>1. [msg |-> 0, part |-> 1] \in Positions
    BY DEF Positions
  <2> QED
    BY <1>1, <2>1, SizesNat DEF StreamType, InSession, Reading
<1>3. DOMAIN wire' = {} /\ DOMAIN returned' = {}
  BY <1>1
<1>4. Fresh'
  BY <1>1, <1>3 DEF Fresh
<1>5. pc' \notin InMap
  BY DEF InMap
<1>6. WholeMessages' /\ NothingSkipped'
  BY <1>3 DEF WholeMessages, NothingSkipped
<1> QED
  BY <1>1, <1>2, <1>3, <1>4, <1>5, <1>6 DEF FlowInv, Kept, CreditStep

LEMMA FlowFailed == Failed => Kept
<1> SUFFICES ASSUME Failed PROVE Kept
  OBVIOUS
<1>1. Hangup(FALSE, {}) /\ pc' \in {"connect", "ota", "start"}
  BY DEF Failed
<1> QED
  BY <1>1, FlowOver

LEMMA InitFlow == Init => FlowInv
<1> SUFFICES ASSUME Init PROVE FlowInv
  OBVIOUS
<1>1. [msg |-> 0, part |-> 1] \in Positions
  BY DEF Positions
<1>2. StreamType
  <2>1. /\ wire = <<>> /\ json = <<>> /\ returned = <<>> /\ expected = 0
        /\ credit = Window /\ at = [msg |-> 0, part |-> 1] /\ owed = {}
        /\ done \in BOOLEAN /\ aligned \in BOOLEAN /\ cut \in BOOLEAN /\ pc = "connect"
    BY DEF Init
  <2> QED
    BY <1>1, <2>1, SizesNat DEF StreamType
<1>3. DOMAIN wire = {} /\ DOMAIN returned = {} /\ pc = "connect"
  BY DEF Init
<1>4. WholeMessages /\ NothingSkipped
  BY <1>3 DEF WholeMessages, NothingSkipped
<1> QED
  BY <1>2, <1>3, <1>4 DEF FlowInv, InMap

\* What only the properties of the returned texts depend on.
LEMMA ReturnedSame ==
    ASSUME WholeMessages, NothingSkipped, returned' = returned, ~cut' => ~cut
    PROVE  WholeMessages' /\ NothingSkipped'
  BY DEF WholeMessages, NothingSkipped

\* The server sends: what it sends, and what that does to its window.
LEMMA SentFrame ==
    ASSUME FlowInv, NEW f \in FrameSet, ServerSends(f), Len(f.pieces) <= credit, Addressed(f)
    PROVE  /\ wire' \in Seq(FrameSet) /\ credit' \in Nat
           /\ \A i \in DOMAIN wire' : Addressed(wire'[i])
           /\ \A i \in DOMAIN wire' : (i \in DOMAIN wire /\ wire'[i] = wire[i]) \/ wire'[i] = f
           /\ wire' = Append(wire, f)
<1>1. wire \in Seq(FrameSet) /\ credit \in Nat /\ f.pieces \in Seq(Pieces)
  BY DEF FlowInv, StreamType, FrameSet
<1>2. wire' = Append(wire, f) /\ credit' = credit - Len(f.pieces)
  BY DEF ServerSends
<1>3. Len(f.pieces) \in Nat
  BY <1>1
<1>4. credit' \in Nat
  BY <1>1, <1>2, <1>3
<1>5. \A i \in DOMAIN wire' : (i \in DOMAIN wire /\ wire'[i] = wire[i]) \/ wire'[i] = f
  <2>1. \A i \in 1 .. Len(wire) + 1 : i \in 1 .. Len(wire) \/ i = Len(wire) + 1
    BY <1>1, AppendOf
  <2> QED
    BY <1>1, <1>2, <2>1, AppendOf
<1>6. \A i \in DOMAIN wire' : Addressed(wire'[i])
  BY <1>5 DEF FlowInv
<1> QED
  BY <1>1, <1>2, <1>4, <1>5, <1>6, AppendOf

\* Before the map request, and in it.
LEMMA SentFlow ==
    ASSUME FlowInv, NEW f \in FrameSet, ServerSends(f), Len(f.pieces) <= credit, Addressed(f),
           pc \in InSession, pc' = pc, owed' \subseteq owed, done' \in BOOLEAN,
           UNCHANGED <<json, expected, aligned, cut, returned>>, NEW b \in Positions, at' = b,
           pc \in {"start", "register"} =>
               ~OfMap(f) /\ (pc = "start" => f.type # "data") /\ b.msg = 0,
           pc \in InMap => Placed(b) /\ Carries(f, at, b)
    PROVE  Kept
<1>1. /\ wire' \in Seq(FrameSet) /\ credit' \in Nat
      /\ \A i \in DOMAIN wire' : Addressed(wire'[i])
      /\ \A i \in DOMAIN wire' : (i \in DOMAIN wire /\ wire'[i] = wire[i]) \/ wire'[i] = f
      /\ wire' = Append(wire, f)
  BY SentFrame
<1>2. StreamType'
  BY <1>1 DEF FlowInv, StreamType
<1>3. ASSUME pc' \in {"start", "register"} PROVE Fresh'
  BY <1>1, <1>3 DEF FlowInv, Fresh
<1>4. ASSUME pc' \in InMap PROVE Flow'
  BY <1>1, <1>4, FlowAppended DEF FlowInv
<1>5. WholeMessages' /\ NothingSkipped'
  BY ReturnedSame DEF FlowInv
<1> QED
  BY <1>1, <1>2, <1>3, <1>4, <1>5 DEF FlowInv, Kept, CreditStep

\* A frame that carries nothing goes by the place where the server is.
LEMMA IdleFrame ==
    ASSUME NEW f, ~OfMap(f) PROVE Carries(f, at, at)
  BY DEF Carries

LEMMA AtPlaced ==
    ASSUME FlowInv, pc \in InMap
    PROVE  Placed(at)
<1>1. PICK cur \in [1 .. Len(wire) + 1 -> Positions] : Course(cur)
  BY DEF FlowInv, Flow
<1> QED
  BY <1>1, CourseFacts DEF FlowInv

LEMMA SettingsFlow == FlowInv /\ ServerSettings => Kept
<1> SUFFICES ASSUME FlowInv, ServerSettings PROVE Kept
  OBVIOUS
<1>1. PICK type \in owed : owed' = owed \ {type} /\ ServerSends(Frame(type, 0, <<>>, FALSE))
  BY DEF ServerSettings
<1> DEFINE f == Frame(type, 0, <<>>, FALSE)
<1>2. type \in {"settings", "ack"} /\ type \in FrameTypes /\ credit \in Nat /\ at \in Positions
  BY DEF FlowInv, StreamType, FrameTypes
<1>3. f \in FrameSet /\ f.type = type /\ f.stream = 0 /\ f.pieces = <<>>
  <2>1. <<>> \in Seq(Pieces)
    OBVIOUS
  <2> QED
    BY <1>2, <2>1 DEF Frame, FrameSet
<1> HIDE DEF f
<1>4. Addressed(f) /\ ~OfMap(f) /\ Len(f.pieces) <= credit /\ f.type # "data"
  BY <1>2, <1>3 DEF Addressed, OfMap
<1>5. /\ pc = "start" /\ pc \in InSession /\ pc \notin InMap
      /\ UNCHANGED <<pc, at, done, json, expected, aligned, cut, returned>>
  BY DEF ServerSettings, InSession, Reading, InMap
<1>6. at.msg = 0 /\ done' \in BOOLEAN /\ owed' \subseteq owed
  BY <1>1, <1>5 DEF FlowInv, Fresh, StreamType
<1>7. ServerSends(f)
  BY <1>1 DEF f
<1> QED
  BY <1>2, <1>3, <1>4, <1>5, <1>6, <1>7, SentFlow

LEMMA NoiseFlow == FlowInv /\ ServerNoise => Kept
<1> SUFFICES ASSUME FlowInv, ServerNoise PROVE Kept
  OBVIOUS
<1>1. PICK f \in
             {Frame("control", 0, <<>>, FALSE), Frame("goaway", 0, <<>>, FALSE)}
        \cup (IF pc = "start" \/ done THEN {}
              ELSE {Frame("headers", Active, <<>>, FALSE)})
        \cup (IF pc \notin InMap THEN {}
              ELSE {Frame("data", RegisterStream, <<[of |-> 0, part |-> 1]>>, TRUE),
                    Frame("reset", RegisterStream, <<>>, FALSE)}) :
        Len(f.pieces) <= credit /\ ServerSends(f)
  BY DEF ServerNoise
<1>2. Active \in Nat /\ RegisterStream \in Nat /\ RegisterStream # MapStreamId
  BY DEF Active, RegisterStream, MapStreamId
<1>3. /\ f \in FrameSet /\ Addressed(f) /\ ~OfMap(f)
      /\ pc \in {"start", "register"} => f.type # "data"
  <2>1. CASE f \in {Frame("control", 0, <<>>, FALSE), Frame("goaway", 0, <<>>, FALSE),
                    Frame("headers", Active, <<>>, FALSE), Frame("reset", RegisterStream, <<>>, FALSE)}
    <3>0. PICK type \in {"control", "goaway", "headers", "reset"}, stream \in Nat :
            f = [type |-> type, stream |-> stream, pieces |-> <<>>, end |-> FALSE]
      BY <1>2, <2>1 DEF Frame
    <3>1. f \in FrameSet /\ f.pieces = <<>> /\ f.type # "data"
      <4>1. <<>> \in Seq(Pieces) /\ type \in FrameTypes /\ type # "data"
        BY DEF FrameTypes
      <4> QED
        BY <3>0, <4>1 DEF FrameSet
    <3> QED
      BY <3>1 DEF Addressed, OfMap
  <2>2. CASE /\ pc \in InMap
             /\ f = Frame("data", RegisterStream, <<[of |-> 0, part |-> 1]>>, TRUE)
    <3>1. <<[of |-> 0, part |-> 1]>> \in Seq(Pieces)
      BY DEF Pieces
    <3>2. "data" \in FrameTypes /\ TRUE \in BOOLEAN
      BY DEF FrameTypes
    <3>3. f \in FrameSet /\ f.type = "data" /\ f.stream = RegisterStream
      BY <1>2, <2>2, <3>1, <3>2 DEF Frame, FrameSet
    <3> QED
      BY <1>2, <2>2, <3>3 DEF Addressed, OfMap, InMap
  <2> QED
    BY <1>1, <2>1, <2>2
<1>4. /\ pc \in InSession
      /\ UNCHANGED <<pc, at, done, owed, json, expected, aligned, cut, returned>>
  BY DEF ServerNoise
<1>5. /\ at \in Positions /\ done' \in BOOLEAN /\ owed' \subseteq owed
      /\ pc \in {"start", "register"} => at.msg = 0
  BY <1>4 DEF FlowInv, StreamType, Fresh
<1>6. pc \in InMap => Placed(at) /\ Carries(f, at, at)
  BY <1>3, AtPlaced, IdleFrame
<1> QED
  BY <1>1, <1>3, <1>4, <1>5, <1>6, SentFlow

LEMMA DataFlow == FlowInv /\ ServerData => Kept
<1> SUFFICES ASSUME FlowInv, ServerData PROVE Kept
  OBVIOUS
<1>1. /\ pc \in {"register"} \cup InMap /\ pc \in InSession
      /\ UNCHANGED <<pc, owed, json, expected, aligned, cut, returned>>
  BY DEF ServerData, InMap, InSession, Reading
<1>0. PICK k \in (IF at.part = 0 THEN 2 ELSE 1) .. Left :
        \E end \in IF k = Left THEN BOOLEAN ELSE {FALSE} :
          /\ k <= credit
          /\ ServerSends(Frame("data", Active,
                [i \in 1 .. k |-> [of |-> at.msg, part |-> at.part + i - 1]], end))
          /\ at' = IF k < Left \/ at.msg = 0
                   THEN [at EXCEPT !.part = @ + k]
                   ELSE [msg |-> at.msg + 1, part |-> 0]
          /\ done' = end
  BY DEF ServerData
<1>2. PICK end \in IF k = Left THEN BOOLEAN ELSE {FALSE} :
          /\ k <= credit
          /\ ServerSends(Frame("data", Active,
                [i \in 1 .. k |-> [of |-> at.msg, part |-> at.part + i - 1]], end))
          /\ at' = IF k < Left \/ at.msg = 0
                   THEN [at EXCEPT !.part = @ + k]
                   ELSE [msg |-> at.msg + 1, part |-> 0]
          /\ done' = end
  BY <1>0
<1> DEFINE pcs == [i \in 1 .. k |-> [of |-> at.msg, part |-> at.part + i - 1]]
           f == [type |-> "data", stream |-> Active, pieces |-> pcs, end |-> end]
<1>3. /\ at \in Positions /\ at.msg \in Nat /\ at.part \in Nat /\ credit \in Nat
      /\ at = [msg |-> at.msg, part |-> at.part] /\ Messages \in Nat \ {0}
  BY Places, SizesNat DEF FlowInv, StreamType
<1>4. /\ Left \in Int
      /\ pc \in InMap => Placed(at) /\ (at.msg > Messages => Left = 0)
      /\ pc \in InMap \/ at.msg = 0
      /\ at.msg <= Messages => Left = BodyOf[at.msg] - at.part + 1 /\ BodyOf[at.msg] \in Nat
  <2>1. CASE at.msg > Messages
    <3>1. Left = 0 /\ ~(at.msg <= Messages) /\ at.msg # 0
      BY <1>3, <2>1 DEF Left
    <3> QED
      BY <1>1, <2>1, <3>1, AtPlaced DEF FlowInv, Fresh
  <2>2. CASE ~(at.msg > Messages)
    <3>1. at.msg \in 0 .. Messages
      BY <1>3, <2>2
    <3>2. Left = BodyOf[at.msg] - at.part + 1 /\ BodyOf[at.msg] \in Nat
      BY <2>2, <3>1, SizesNat DEF Left
    <3>3. Left \in Int
      BY <1>3, <3>2
    <3> QED
      BY <1>1, <2>2, <3>2, <3>3, AtPlaced DEF FlowInv, Fresh
  <2> QED
    BY <2>1, <2>2
<1>5. /\ k \in Nat \ {0} /\ k <= Left /\ (at.part = 0 => k > 1)
      /\ end \in BOOLEAN /\ (end => k = Left)
  <2>1. k \in Nat \ {0} /\ k <= Left /\ (at.part = 0 => k > 1)
    BY <1>4
  <2>2. end \in BOOLEAN /\ (end => k = Left)
    BY <1>2, Zenon
  <2> QED
    BY <2>1, <2>2
<1>6. pcs \in Seq(Pieces) /\ Len(pcs) = k /\ DOMAIN pcs = 1 .. k /\ pcs # <<>>
  <2>1. \A i \in 1 .. k : [of |-> at.msg, part |-> at.part + i - 1] \in Pieces
    <3>1. \A i \in 1 .. k : at.part + i - 1 \in Nat
      BY <1>3, <1>5
    <3> QED
      BY <1>3, <3>1 DEF Pieces
  <2> QED
    BY <1>5, <2>1
<1>7. /\ f \in FrameSet /\ f.type = "data" /\ f.stream = Active /\ f.pieces = pcs /\ f.end = end
      /\ ServerSends(f)
  BY <1>2, <1>5, <1>6 DEF Frame, FrameSet, FrameTypes, Active, RegisterStream, MapStreamId
<1>8. Addressed(f) /\ (OfMap(f) <=> pc # "register") /\ Len(f.pieces) <= credit
  BY <1>2, <1>6, <1>7 DEF Addressed, OfMap, Active, RegisterStream, MapStreamId
<1> HIDE DEF f
<1>9. CASE pc = "register"
  <2>1. at.msg = 0 /\ pc \notin InMap
    BY <1>9 DEF FlowInv, Fresh, InMap
  <2>2. at' = [msg |-> 0, part |-> at.part + k]
    BY <1>2, <1>3, <2>1
  <2>3. [msg |-> 0, part |-> at.part + k] \in Positions
    BY <1>3, <1>5 DEF Positions
  <2> QED
    BY <1>1, <1>2, <1>5, <1>7, <1>8, <1>9, <2>1, <2>2, <2>3, SentFlow
<1>10. CASE pc \in InMap
  <2>0. pc \notin {"start", "register"}
    BY <1>10 DEF InMap
  <2>1. /\ Placed(at) /\ at.msg \in 1 .. Messages /\ at.msg # 0 /\ at.msg <= Messages
        /\ at.part + k <= BodyOf[at.msg] + 1
    <3>1. at.msg <= Messages
      BY <1>3, <1>4, <1>5, <1>10
    <3> QED
      BY <1>3, <1>4, <1>5, <1>10, <3>1 DEF Placed
  <2>2. /\ at' = Behind(at, k) /\ Placed(Behind(at, k))
        /\ end => Behind(at, k).part = 0
    <3>1. k = Left <=> at.part + k = BodyOf[at.msg] + 1
      BY <1>3, <1>4, <1>5, <2>1
    <3>2. /\ Placed(Behind(at, k))
          /\ at.part + k = BodyOf[at.msg] + 1 => Behind(at, k).part = 0
      BY <1>5, <2>1, BehindPlaced
    <3>3. CASE k = Left
      <4>1. at' = [msg |-> at.msg + 1, part |-> 0]
        BY <1>2, <1>4, <2>1, <3>3
      <4> QED
        BY <3>1, <3>2, <3>3, <4>1 DEF Behind
    <3>4. CASE k # Left
      <4>1. k < Left
        BY <1>4, <1>5, <3>4
      <4>2. at' = [msg |-> at.msg, part |-> at.part + k]
        BY <1>2, <1>3, <4>1
      <4> QED
        BY <1>5, <3>1, <3>2, <3>4, <4>2 DEF Behind
    <3> QED
      BY <3>3, <3>4
  <2>3. Carries(f, at, Behind(at, k))
    <3>1. \A i \in DOMAIN f.pieces : f.pieces[i] = [of |-> at.msg, part |-> at.part + i - 1]
      BY <1>6, <1>7
    <3>2. Len(f.pieces) = k /\ f.pieces # <<>> /\ f.end = end /\ OfMap(f)
      BY <1>6, <1>7, <1>8, <2>0
    <3> HIDE DEF pcs
    <3> QED
      BY <1>5, <2>1, <2>2, <3>1, <3>2 DEF Carries
  <2>4. Behind(at, k) \in Positions
    BY <2>2 DEF Placed
  <2>5. PICK b : b = Behind(at, k)
    OBVIOUS
  <2> QED
    BY <1>1, <1>2, <1>5, <1>7, <1>8, <2>0, <2>2, <2>3, <2>4, <2>5, SentFlow
<1> QED
  BY <1>1, <1>9, <1>10

LEMMA EndFlow == FlowInv /\ ServerEnd => Kept
<1> SUFFICES ASSUME FlowInv, ServerEnd PROVE Kept
  OBVIOUS
<1>1. /\ pc \in {"register"} \cup InMap /\ pc \in InSession /\ pc # "start"
      /\ at.part = 0 \/ Left = 0
      /\ UNCHANGED <<pc, at, owed, json, expected, aligned, cut, returned>> /\ done' \in BOOLEAN
  BY DEF ServerEnd, InMap, InSession, Reading
<1>2. PICK type \in {"data", "headers", "reset"} :
          ServerSends(Frame(type, Active, <<>>, type # "reset"))
  BY DEF ServerEnd
<1>3. PICK f : f = [type |-> type, stream |-> Active, pieces |-> <<>>, end |-> type # "reset"]
  OBVIOUS
<1>4. /\ f \in FrameSet /\ f.type = type /\ f.stream = Active /\ f.pieces = <<>>
      /\ f.type = "data" => f.end
  <2>1. <<>> \in Seq(Pieces) /\ Active \in Nat /\ type \in FrameTypes
    BY DEF FrameTypes, Active, RegisterStream, MapStreamId
  <2> QED
    BY <1>3, <2>1 DEF FrameSet
<1>5. ServerSends(f)
  BY <1>2, <1>3 DEF Frame
<1>6. at \in Positions /\ credit \in Nat /\ Len(f.pieces) = 0
  BY <1>4 DEF FlowInv, StreamType
<1>7. Addressed(f) /\ (pc = "register" => ~OfMap(f))
  BY <1>4 DEF Addressed, OfMap, Active, RegisterStream, MapStreamId
<1>8. ASSUME pc \in InMap PROVE Placed(at) /\ Carries(f, at, at)
  <2>1. Placed(at) /\ at.msg \in Nat /\ at.part \in Nat /\ Messages \in Nat
    BY <1>8, AtPlaced, Places, SizesNat DEF Placed
  <2>2. at.part = 0
    <3> SUFFICES ASSUME at.part # 0 PROVE FALSE
      OBVIOUS
    <3>1. at.msg \in 1 .. Messages /\ at.part <= BodyOf[at.msg] /\ ~(at.msg > Messages)
      BY <2>1 DEF Placed
    <3>2. BodyOf[at.msg] \in Nat /\ Left = BodyOf[at.msg] - at.part + 1
      BY <3>1, SizesNat DEF Left
    <3> QED
      BY <1>1, <2>1, <3>1, <3>2
  <2> QED
    BY <1>4, <2>1, <2>2 DEF Carries, OfMap
<1>9. pc = "register" => at.msg = 0
  BY DEF FlowInv, Fresh
<1>10. Len(f.pieces) <= credit
  BY <1>6
<1> QED
  BY <1>1, <1>4, <1>5, <1>6, <1>7, <1>8, <1>9, <1>10, SentFlow

\* Steps that touch neither frames nor text.
LEMMA FlowStill ==
    ASSUME FlowInv, pc' = pc \/ (pc \in InMap /\ pc' \in {"poll", "closing"}),
           UNCHANGED <<wire, credit, at, done, owed, json, expected, aligned, cut, returned>>
    PROVE  Kept
<1>1. StreamType'
  BY DEF FlowInv, StreamType, InSession, Reading
<1>2. \A i \in DOMAIN wire' : Addressed(wire'[i])
  BY DEF FlowInv
<1>3. ASSUME pc' \in {"start", "register"} PROVE Fresh'
  <2>1. pc' = pc
    BY <1>3
  <2> QED
    BY <1>3, <2>1 DEF FlowInv, Fresh
<1>4. ASSUME pc' \in InMap PROVE Flow'
  <2>1. Flow
    BY <1>4 DEF FlowInv
  <2> QED
    BY <2>1 DEF Flow, Course, Reads
<1>5. WholeMessages' /\ NothingSkipped'
  BY ReturnedSame DEF FlowInv
<1> QED
  BY <1>1, <1>2, <1>3, <1>4, <1>5 DEF FlowInv, Kept, CreditStep

\* The client takes the first frame.
LEMMA TakenFrame ==
    ASSUME FlowInv, NEW f, Consumes(f)
    PROVE  /\ wire # <<>> /\ f = wire[1] /\ 1 \in DOMAIN wire /\ f \in FrameSet /\ Addressed(f)
           /\ wire' = Tail(wire) /\ wire' \in Seq(FrameSet)
           /\ \A i \in DOMAIN wire' : i + 1 \in DOMAIN wire /\ wire'[i] = wire[i + 1]
           /\ \A i \in DOMAIN wire' : Addressed(wire'[i])
           /\ GivesBack(f) => credit' \in Nat
<1>1. wire # <<>> /\ f = Head(wire) /\ wire' = Tail(wire) /\ wire \in Seq(FrameSet)
  BY DEF Consumes, FlowInv, StreamType
<1>2. /\ f = wire[1] /\ 1 \in DOMAIN wire /\ f \in FrameSet /\ wire' \in Seq(FrameSet)
      /\ \A i \in DOMAIN wire' : i + 1 \in DOMAIN wire /\ wire'[i] = wire[i + 1]
  BY <1>1, TailOf
<1>3. Addressed(f) /\ \A i \in DOMAIN wire' : Addressed(wire'[i])
  BY <1>2 DEF FlowInv
<1>4. GivesBack(f) => credit' \in Nat
  <2>1. f.pieces \in Seq(Pieces) /\ credit \in Nat
    BY <1>2 DEF FrameSet, FlowInv, StreamType
  <2>2. Len(f.pieces) \in Nat
    BY <2>1
  <2> QED
    BY <2>1, <2>2 DEF GivesBack
<1> QED
  BY <1>1, <1>2, <1>3, <1>4

\* It looks at a frame that carries nothing of the map.
LEMMA PassedFlow ==
    ASSUME FlowInv, NEW f, Consumes(f), ~OfMap(f), credit' \in Nat, pc \in InSession,
           UNCHANGED <<at, done, owed, json, expected, aligned, cut, returned>>,
           pc' = pc \/ (pc = "start" /\ pc' = "register"),
           GivesBack(f) \/ (f.pieces = <<>> /\ credit' = credit)
    PROVE  Kept
<1>1. /\ wire # <<>> /\ f = wire[1] /\ wire' = Tail(wire) /\ wire' \in Seq(FrameSet)
      /\ \A i \in DOMAIN wire' : i + 1 \in DOMAIN wire /\ wire'[i] = wire[i + 1]
      /\ \A i \in DOMAIN wire' : Addressed(wire'[i])
  BY TakenFrame
<1>2. StreamType'
  BY <1>1 DEF FlowInv, StreamType, InSession, Reading
<1>3. ASSUME pc' \in {"start", "register"} PROVE Fresh'
  <2>1. pc \in {"start", "register"} /\ (pc' = "start" => pc = "start")
    BY <1>3
  <2> QED
    BY <1>1, <2>1 DEF FlowInv, Fresh
<1>4. ASSUME pc' \in InMap PROVE Flow'
  <2>1. pc \in InMap
    BY <1>4 DEF InMap
  <2> QED
    BY <1>1, <2>1, FlowPassed DEF FlowInv
<1>5. WholeMessages' /\ NothingSkipped'
  BY ReturnedSame DEF FlowInv
<1> QED
  BY <1>1, <1>2, <1>3, <1>4, <1>5 DEF FlowInv, Kept, CreditStep

LEMMA StartFlow == FlowInv /\ StartFrame => Kept
<1> SUFFICES ASSUME FlowInv, StartFrame PROVE Kept
  OBVIOUS
<1>1. pc = "start" /\ pc \in InSession
  BY DEF StartFrame, InSession, Reading
<1>2. CASE Failed
  BY <1>2, FlowFailed
<1>3. CASE ~Failed
  <2>1. PICK f : /\ ConsumesControl(f) /\ pc' \in {"start", "register"}
                 /\ UNCHANGED <<device, open, credit, at, done, noise, owed,
                                json, expected, aligned, cut, returned>>
    <3>1. PICK f \in ToSet(wire) :
          /\ f = Head(wire)
          /\ LET seen == got \cup ({f.type} \cap {"settings", "ack"})
                 more == attempts + 1 < MaxStart /\ seen # {"settings", "ack"}
             IN  IF f.type = "goaway" \/ (~more /\ "settings" \notin seen)
                 THEN Failed
                 ELSE /\ ConsumesControl(f)
                      /\ got' = seen /\ attempts' = attempts + 1
                      /\ pc' = IF more THEN "start" ELSE "register"
                      /\ UNCHANGED <<device, open, credit, at, done, noise, owed,
                                     json, expected, aligned, cut, returned>>
      BY DEF StartFrame
    <3> QED
      BY <1>3, <3>1
  <2>2. Consumes(f)
    BY <2>1 DEF ConsumesControl
  <2>3. f = wire[1] /\ 1 \in DOMAIN wire
    BY <2>2, TakenFrame
  <2>4. ~OfMap(f) /\ f.pieces = <<>>
    BY <1>1, <2>3 DEF FlowInv, Fresh, Addressed
  <2>5. credit' \in Nat
    BY <2>1 DEF FlowInv, StreamType
  <2> QED
    BY <1>1, <2>1, <2>2, <2>4, <2>5, PassedFlow
<1> QED
  BY <1>2, <1>3

LEMMA RegisterFlow == FlowInv /\ RegisterFrame => Kept
<1> SUFFICES ASSUME FlowInv, RegisterFrame PROVE Kept
  OBVIOUS
<1>1. pc = "register" /\ pc \in InSession
  BY DEF RegisterFrame, InSession, Reading
<1>2. PICK f \in ToSet(wire) :
          /\ f = Head(wire)
          /\ IF f.type = "goaway"
             THEN Failed
             ELSE /\ Consumes(f)
                  /\ IF f.type = "data" THEN GivesBack(f) ELSE credit' = credit
                  /\ IF f.end
                     THEN Registered
                     ELSE UNCHANGED <<pc, device, at, done>>
                  /\ UNCHANGED <<open, noise, attempts, got, owed,
                                 json, expected, aligned, cut, returned>>
  BY DEF RegisterFrame
<1>3. CASE f.type = "goaway"
  BY <1>2, <1>3, FlowFailed
<1>4. CASE f.type # "goaway"
  <2>1. /\ Consumes(f)
        /\ GivesBack(f) \/ (f.pieces = <<>> /\ credit' = credit)
        /\ UNCHANGED <<owed, json, expected, aligned, cut, returned>>
    BY <1>2, <1>4, TakenFrame DEF Addressed
  <2>2. /\ f = wire[1] /\ 1 \in DOMAIN wire /\ wire' \in Seq(FrameSet) /\ credit' \in Nat
        /\ \A i \in DOMAIN wire' : i + 1 \in DOMAIN wire /\ wire'[i] = wire[i + 1]
        /\ \A i \in DOMAIN wire' : Addressed(wire'[i])
    BY <2>1, TakenFrame DEF FlowInv, StreamType
  <2>3. ~OfMap(f) /\ \A i \in DOMAIN wire' : ~OfMap(wire'[i])
    BY <1>1, <2>2 DEF FlowInv, Fresh
  <2>4. CASE f.end
    <3>1. Registered
      BY <1>2, <1>4, <2>4
    <3>2. /\ pc' = "first" /\ at' = [msg |-> 1, part |-> 0] /\ done' = FALSE
          /\ json' = <<>> /\ expected' = 0 /\ aligned' /\ returned' = <<>>
      BY <1>1, <2>1, <3>1 DEF Registered, FlowInv, Fresh
    <3>3. at' \in Positions
      BY <3>2 DEF Positions
    <3>4. StreamType'
      BY <2>1, <2>2, <3>2, <3>3 DEF FlowInv, StreamType, InSession, Reading
    <3>5. Flow'
      BY <2>3, <3>2, <3>4, FlowBegins
    <3>6. WholeMessages' /\ NothingSkipped'
      BY <2>1, ReturnedSame DEF FlowInv
    <3> QED
      BY <2>1, <2>2, <3>2, <3>4, <3>5, <3>6 DEF FlowInv, Kept, CreditStep
  <2>5. CASE ~f.end
    <3>1. UNCHANGED <<pc, at, done>>
      BY <1>2, <1>4, <2>5
    <3> QED
      BY <1>1, <2>1, <2>2, <2>3, <3>1, PassedFlow
  <2> QED
    BY <2>4, <2>5
<1> QED
  BY <1>3, <1>4

LEMMA OtherFlow == FlowInv /\ ReadOther => Kept
<1> SUFFICES ASSUME FlowInv, ReadOther PROVE Kept
  OBVIOUS
<1>1. PICK f : ConsumesControl(f) /\ f.type \in {"control", "settings", "ack", "headers", "reset"}
  BY DEF ReadOther
<1>2. Consumes(f) /\ ~OfMap(f)
  BY <1>1 DEF ConsumesControl, OfMap
<1>3. /\ pc \in InSession
      /\ UNCHANGED <<pc, credit, at, done, owed, json, expected, aligned, cut, returned>>
  BY DEF ReadOther, InSession, Reading
<1>4. credit' \in Nat /\ f.pieces = <<>>
  BY <1>1, <1>2, <1>3, TakenFrame DEF FlowInv, StreamType, Addressed
<1> QED
  BY <1>2, <1>3, <1>4, PassedFlow

LEMMA StaleFlow == FlowInv /\ ReadStale => Kept
<1> SUFFICES ASSUME FlowInv, ReadStale PROVE Kept
  OBVIOUS
<1>1. PICK f : Consumes(f) /\ GivesBack(f) /\ ~InActive(f)
  BY DEF ReadStale
<1>2. /\ pc \in {"first", "poll"} /\ pc \in InSession
      /\ UNCHANGED <<pc, at, done, owed, json, expected, aligned, cut, returned>>
  BY DEF ReadStale, InSession, Reading
<1>3. ~OfMap(f)
  BY <1>1, <1>2 DEF InActive, Active, OfMap
<1>4. credit' \in Nat
  BY <1>1, TakenFrame
<1> QED
  BY <1>1, <1>2, <1>3, <1>4, PassedFlow

\* A text is complete: its message, if it is one, is behind all that were
\* returned, and the next read begins behind it.
LEMMA ReturnFlow ==
    ASSUME FlowInv, pc \in InMap, NEW f, Consumes(f), OfMap(f), GivesBack(f),
           Complete(Joined(f), Expects(f), f.end),
           NEW m, m = IF \E n \in 1 .. Messages : Joined(f) = Text(n) THEN Joined(f)[1].of ELSE 0,
           json' = <<>>, expected' = 0, aligned' = AtBoundary(f),
           returned' = Append(returned, [msg |-> m, aligned |-> aligned]),
           pc' \in {"first", "setup", "poll"}, UNCHANGED <<at, done, owed, cut>>
    PROVE  Kept
<1>1. /\ wire # <<>> /\ f = wire[1] /\ 1 \in DOMAIN wire /\ f \in FrameSet
      /\ wire' = Tail(wire) /\ wire' \in Seq(FrameSet) /\ credit' \in Nat
      /\ \A i \in DOMAIN wire' : Addressed(wire'[i])
  BY TakenFrame
<1>2. PICK cur \in [1 .. Len(wire) + 1 -> Positions] : Course(cur) /\ Reads(cur[1])
  BY DEF FlowInv, Flow
<1>3. PICK a : a = cur[1]
  OBVIOUS
<1>4. PICK b : b = cur[2]
  OBVIOUS
<1>5. Placed(a) /\ Carries(f, a, b) /\ Reads(a)
  <2>1. 1 \in 1 .. Len(wire) /\ 1 \in 1 .. Len(wire) + 1
    BY <1>1, TailOf DEF FlowInv, StreamType
  <2>2. Carries(wire[1], cur[1], cur[1 + 1])
    BY <1>2, <2>1, CourseFacts DEF FlowInv
  <2> QED
    BY <1>1, <1>2, <1>3, <1>4, <2>1, <2>2, CourseFacts DEF FlowInv
<1>6. /\ Placed(b) /\ a \in Positions /\ b \in Positions
      /\ a.msg < b.msg \/ (a.msg = b.msg /\ a.part <= b.part)
  BY <1>1, <1>5, CarriedPieces
<1>7. Between(Joined(f), returned, b)
  BY <1>1, <1>5, ReadFrom DEF FlowInv, Reads
<1>8. /\ returned \in Seq(Returns) /\ Len(returned) \in Nat /\ DOMAIN returned = 1 .. Len(returned)
      /\ aligned \in BOOLEAN
      /\ \A i \in DOMAIN returned : returned[i].msg \in Nat /\ returned[i].aligned \in BOOLEAN
  <2>1. returned \in Seq(Returns) /\ aligned \in BOOLEAN
    BY DEF FlowInv, StreamType
  <2>2. \A i \in DOMAIN returned : returned[i] \in Returns
    BY <2>1
  <2> QED
    BY <2>1, <2>2 DEF Returns
<1>9. /\ m \in Nat /\ m < b.msg
      /\ m # 0 => \A i \in DOMAIN returned : returned[i].msg < m
      /\ \A n \in 1 .. Messages : Joined(f) = Text(n) => m = n
  <2>1. CASE \E n \in 1 .. Messages : Joined(f) = Text(n)
    <3>1. PICK n \in 1 .. Messages : Joined(f) = Text(n)
      BY <2>1
    <3>2. m = n /\ \A i \in 1 .. Messages : Joined(f) = Text(i) => m = i
      BY <2>1, <3>1, TextOf
    <3>3. n < b.msg /\ \A i \in DOMAIN returned : returned[i].msg < n
      BY <1>6, <1>7, <3>1, WholeBefore
    <3> QED
      BY <3>2, <3>3, SizesNat
  <2>2. CASE ~\E n \in 1 .. Messages : Joined(f) = Text(n)
    <3>1. m = 0 /\ b.msg \in 1 .. Messages + 1
      BY <1>6, <2>2 DEF Placed
    <3> QED
      BY <2>2, <3>1
  <2> QED
    BY <2>1, <2>2
<1>10. aligned => /\ a.msg \in 1 .. Messages /\ m = a.msg
                  /\ b.msg = a.msg + 1 /\ AtBoundary(f)
  <2> SUFFICES ASSUME aligned PROVE /\ a.msg \in 1 .. Messages /\ m = a.msg
                                    /\ b.msg = a.msg + 1 /\ AtBoundary(f)
    OBVIOUS
  <2>1. Begins(json, expected, a)
    BY <1>5 DEF Reads
  <2>2. /\ a.msg \in 1 .. Messages /\ Joined(f) = Text(a.msg)
        /\ b.msg = a.msg + 1 /\ AtBoundary(f)
    BY <1>1, <1>5, <2>1, ReadInStep DEF FlowInv
  <2> QED
    BY <1>9, <2>2
<1>11. AtBoundary(f) => b.part = 0
  <2> SUFFICES ASSUME AtBoundary(f) PROVE b.part = 0
    OBVIOUS
  <2>1. CASE f.pieces = <<>>
    BY <1>5, <2>1 DEF Carries
  <2>2. CASE f.pieces # <<>>
    <3>1. f.pieces \in Seq(Pieces)
      BY <1>1 DEF FrameSet
    <3>2. /\ Len(f.pieces) \in Nat \ {0} /\ Len(f.pieces) \in DOMAIN f.pieces
      BY <2>2, <3>1
    <3>3. /\ a.msg <= Messages /\ a.part + Len(f.pieces) <= BodyOf[a.msg] + 1
          /\ f.pieces[Len(f.pieces)] = [of |-> a.msg, part |-> a.part + Len(f.pieces) - 1]
          /\ b = Behind(a, Len(f.pieces))
      BY <1>5, <2>2, <3>2 DEF Carries
    <3>4. a.part + Len(f.pieces) - 1 = BodyOf[a.msg]
      BY <2>2, <3>3 DEF AtBoundary, Last
    <3>5. a.msg \in 0 .. Messages /\ a.part \in Nat
      BY <1>6, <3>3, Places, SizesNat
    <3>6. a.part + Len(f.pieces) = BodyOf[a.msg] + 1
      BY <3>2, <3>4, <3>5, SizesNat
    <3> QED
      BY <1>5, <3>2, <3>3, <3>6, BehindPlaced
  <2> QED
    BY <2>1, <2>2
<1>12. /\ Len(returned') = Len(returned) + 1 /\ DOMAIN returned' = 1 .. Len(returned) + 1
       /\ \A i \in 1 .. Len(returned) : returned'[i] = returned[i]
       /\ returned'[Len(returned) + 1] = [msg |-> m, aligned |-> aligned]
       /\ returned' \in Seq(Returns)
  <2>1. [msg |-> m, aligned |-> aligned] \in Returns
    BY <1>8, <1>9 DEF Returns
  <2> QED
    BY <1>8, <2>1, AppendOf
<1>13. /\ returned'[Len(returned) + 1].msg = m /\ returned'[Len(returned) + 1].aligned = aligned
       /\ \A i \in DOMAIN returned' : i \in DOMAIN returned \/ i = Len(returned) + 1
  BY <1>8, <1>12
<1>14. Reads(b)'
  <2>1. aligned' => Begins(<<>>, 0, b)
    BY <1>11 DEF Begins
  <2>2. ~cut' => aligned' /\ b.msg = Len(returned') + 1
    <3> SUFFICES ASSUME ~cut' PROVE aligned' /\ b.msg = Len(returned') + 1
      OBVIOUS
    <3>1. aligned /\ a.msg = Len(returned) + 1
      BY <1>5 DEF Reads
    <3> QED
      BY <1>10, <1>12, <3>1
  <2>3. Between(<<>>, returned', b)
    <3>1. \A i \in DOMAIN returned : returned[i].msg < b.msg
      BY <1>7 DEF Between
    <3>2. \A i \in DOMAIN returned' : returned'[i].msg < b.msg
      BY <1>8, <1>9, <1>12, <1>13, <3>1
    <3> QED
      BY <3>2 DEF Between
  <2> QED
    BY <2>1, <2>2, <2>3 DEF Reads
<1>15. Flow'
  BY <1>1, <1>2, <1>4, <1>14, FlowTaken DEF FlowInv
<1>16. StreamType'
  BY <1>1, <1>12 DEF FlowInv, StreamType, AtBoundary, InSession, Reading
<1>17. WholeMessages'
  <2> SUFFICES ASSUME NEW i \in DOMAIN returned'
               PROVE  /\ returned'[i].aligned => returned'[i].msg # 0
                      /\ \A j \in 1 .. i - 1 :
                            returned'[i].msg = 0 \/ returned'[j].msg < returned'[i].msg
    BY DEF WholeMessages
  <2>1. CASE i \in DOMAIN returned
    <3>1. returned'[i] = returned[i] /\ \A j \in 1 .. i - 1 : returned'[j] = returned[j]
      BY <1>8, <1>12, <2>1
    <3> QED
      BY <2>1, <3>1 DEF FlowInv, WholeMessages
  <2>2. CASE i = Len(returned) + 1
    <3>1. aligned => m # 0
      BY <1>10
    <3>2. \A j \in 1 .. i - 1 : j \in DOMAIN returned /\ returned'[j] = returned[j]
      BY <1>8, <1>12, <2>2
    <3> QED
      BY <1>9, <1>13, <2>2, <3>1, <3>2
  <2> QED
    BY <1>13, <2>1, <2>2
<1>18. NothingSkipped'
  <2> SUFFICES ASSUME ~cut, NEW i \in DOMAIN returned' PROVE returned'[i].msg = i
    BY DEF NothingSkipped
  <2>1. CASE i \in DOMAIN returned
    BY <1>8, <1>12, <2>1 DEF FlowInv, NothingSkipped
  <2>2. CASE i = Len(returned) + 1
    <3>1. aligned /\ a.msg = Len(returned) + 1
      BY <1>5 DEF Reads
    <3> QED
      BY <1>10, <1>13, <2>2, <3>1
  <2> QED
    BY <1>13, <2>1, <2>2
<1> QED
  BY <1>1, <1>15, <1>16, <1>17, <1>18 DEF FlowInv, InMap, Kept, CreditStep

\* A text that is not complete yet goes on.
LEMMA JoinFlow ==
    ASSUME FlowInv, pc \in InMap, pc' = pc, NEW f, Consumes(f), OfMap(f), GivesBack(f),
           ~Complete(Joined(f), Expects(f), f.end),
           json' = Joined(f), expected' = Expects(f),
           UNCHANGED <<at, done, owed, aligned, cut, returned>>
    PROVE  Kept
<1>1. /\ wire # <<>> /\ f = wire[1] /\ 1 \in DOMAIN wire /\ f \in FrameSet
      /\ wire' = Tail(wire) /\ wire' \in Seq(FrameSet) /\ credit' \in Nat
      /\ \A i \in DOMAIN wire' : Addressed(wire'[i])
  BY TakenFrame
<1>2. PICK cur \in [1 .. Len(wire) + 1 -> Positions] : Course(cur) /\ Reads(cur[1])
  BY DEF FlowInv, Flow
<1>3. PICK a : a = cur[1]
  OBVIOUS
<1>4. PICK b : b = cur[2]
  OBVIOUS
<1>5. Placed(a) /\ Carries(f, a, b) /\ Reads(a)
  <2>1. 1 \in 1 .. Len(wire) /\ 1 \in 1 .. Len(wire) + 1
    BY <1>1, TailOf DEF FlowInv, StreamType
  <2>2. Carries(wire[1], cur[1], cur[1 + 1])
    BY <1>2, <2>1, CourseFacts DEF FlowInv
  <2> QED
    BY <1>1, <1>2, <1>3, <1>4, <2>1, <2>2, CourseFacts DEF FlowInv
<1>6. /\ Between(Joined(f), returned, b) /\ Joined(f) \in Seq(Pieces) /\ Expects(f) \in Nat
  BY <1>1, <1>5, ReadFrom DEF FlowInv, Reads
<1>7. aligned => b.msg = a.msg /\ Begins(Joined(f), Expects(f), b)
  BY <1>1, <1>5, ReadInStep DEF FlowInv, Reads
<1>8. Reads(b)'
  BY <1>5, <1>6, <1>7 DEF Reads
<1>9. Flow'
  BY <1>1, <1>2, <1>4, <1>8, FlowTaken DEF FlowInv
<1>10. StreamType'
  BY <1>1, <1>6 DEF FlowInv, StreamType
<1>11. WholeMessages' /\ NothingSkipped'
  BY ReturnedSame DEF FlowInv
<1> QED
  BY <1>1, <1>9, <1>10, <1>11 DEF FlowInv, InMap, Kept, CreditStep

LEMMA ReadDataFlow == FlowInv /\ ReadData => Kept
<1> SUFFICES ASSUME FlowInv, ReadData PROVE Kept
  OBVIOUS
<1>1. PICK f \in ToSet(wire) :
          /\ f.type = "data" /\ InActive(f)
          /\ LET text == Joined(f)
                 m == IF \E n \in 1 .. Messages : text = Text(n)
                      THEN text[1].of ELSE 0
             IN  IF ~Complete(text, Expects(f), f.end)
                 THEN /\ Consumes(f) /\ GivesBack(f)
                      /\ json' = text /\ expected' = Expects(f)
                      /\ UNCHANGED <<pc, device, open, at, done, noise, attempts,
                                     got, owed, aligned, cut, returned>>
                 ELSE IF pc = "first" /\ m = 0
                 THEN f = Head(wire) /\ Failed
                 ELSE /\ Consumes(f) /\ GivesBack(f)
                      /\ json' = <<>> /\ expected' = 0
                      /\ aligned' = AtBoundary(f)
                      /\ returned' = Append(returned, [msg |-> m, aligned |-> aligned])
                      /\ IF pc = "first" THEN FirstResponse(m) ELSE PolledResponse(m)
                      /\ UNCHANGED <<open, at, done, noise, attempts, got, owed, cut>>
  BY DEF ReadData
<1>2. pc \in {"first", "poll"} /\ pc \in InMap
  BY DEF ReadData, InMap
<1>3. ASSUME Consumes(f) PROVE OfMap(f)
  <2>1. Addressed(f)
    BY <1>3, TakenFrame
  <2>2. f.stream \in {MapStreamId, 0} /\ RegisterStream # 0
    BY <1>1, <1>2 DEF InActive, Active, RegisterStream
  <2> QED
    BY <1>1, <2>1, <2>2 DEF Addressed, OfMap
<1> DEFINE text == Joined(f)
           m == IF \E n \in 1 .. Messages : text = Text(n) THEN text[1].of ELSE 0
<1>4. CASE ~Complete(text, Expects(f), f.end)
  BY <1>1, <1>2, <1>3, <1>4, JoinFlow
<1>5. CASE Complete(text, Expects(f), f.end) /\ pc = "first" /\ m = 0
  BY <1>1, <1>5, FlowFailed
<1>6. CASE Complete(text, Expects(f), f.end) /\ ~(pc = "first" /\ m = 0)
  <2>1. /\ Consumes(f) /\ GivesBack(f)
        /\ json' = <<>> /\ expected' = 0 /\ aligned' = AtBoundary(f)
        /\ returned' = Append(returned, [msg |-> m, aligned |-> aligned])
        /\ IF pc = "first" THEN FirstResponse(m) ELSE PolledResponse(m)
        /\ UNCHANGED <<at, done, owed, cut>>
    BY <1>1, <1>6
  <2>2. pc' \in {"first", "setup", "poll"}
    BY <1>2, <2>1 DEF FirstResponse, PolledResponse
  <2>3. PICK n : n = m
    OBVIOUS
  <2> QED
    BY <1>2, <1>3, <1>6, <2>1, <2>2, <2>3, ReturnFlow
<1> QED
  BY <1>4, <1>5, <1>6

\* The end of a read that found nothing to read.
LEMMA GiveUpFlow == FlowInv /\ GiveUp => Kept
<1> SUFFICES ASSUME FlowInv, GiveUp PROVE Kept
  OBVIOUS
<1>1. CASE Failed
  BY <1>1, FlowFailed
<1>2. CASE ~Failed
  <2>1. /\ wire = <<>> /\ pc = "poll" /\ pc' \in {"poll", "closing"}
        /\ json' = <<>> /\ expected' = 0
        /\ cut' = (cut \/ json # <<>>)
        /\ aligned' = (at.part = 0)
        /\ UNCHANGED <<wire, credit, at, done, owed, returned>>
    BY <1>2 DEF GiveUp, TimedOut
  <2>2. PICK cur \in [1 .. Len(wire) + 1 -> Positions] : Course(cur) /\ Reads(cur[1])
    BY <2>1 DEF FlowInv, Flow, InMap
  <2>3. Len(wire) = 0 /\ DOMAIN wire = {} /\ Len(wire) + 1 = 1
    BY <2>1
  <2>4. PICK p : p = cur[1]
    OBVIOUS
  <2>5. p = at /\ Reads(p)
    BY <2>2, <2>3, <2>4 DEF Course
  <2>6. Reads(p)'
    <3>1. aligned' => Begins(<<>>, 0, p)
      BY <2>1, <2>5 DEF Begins
    <3>2. ~cut' => aligned' /\ p.msg = Len(returned') + 1
      <4> SUFFICES ASSUME ~cut' PROVE aligned' /\ p.msg = Len(returned') + 1
        OBVIOUS
      <4>1. ~cut /\ json = <<>>
        BY <2>1
      <4>2. Begins(<<>>, expected, p) /\ p.msg = Len(returned) + 1
        BY <2>5, <4>1 DEF Reads
      <4> QED
        BY <2>1, <2>5, <4>2 DEF Begins
    <3>3. Between(<<>>, returned', p)
      BY <2>1, <2>5 DEF Reads, Between
    <3> QED
      BY <2>1, <3>1, <3>2, <3>3 DEF Reads
  <2>7. Course(cur)'
    BY <2>1, <2>2 DEF Course
  <2>8. Flow'
    BY <2>1, <2>2, <2>4, <2>6, <2>7 DEF Flow
  <2>9. StreamType'
    <3>1. cut' \in BOOLEAN /\ aligned' \in BOOLEAN /\ json' \in Seq(Pieces) /\ expected' \in Nat
      BY <2>1
    <3> QED
      BY <2>1, <3>1 DEF FlowInv, StreamType, InSession, Reading
  <2>10. WholeMessages' /\ NothingSkipped'
    BY <2>1, ReturnedSame DEF FlowInv
  <2>11. \A i \in DOMAIN wire' : Addressed(wire'[i])
    BY <2>1, <2>3
  <2> QED
    BY <2>1, <2>8, <2>9, <2>10, <2>11 DEF FlowInv, Kept, CreditStep
<1> QED
  BY <1>1, <1>2

LEMMA ServerFlow == FlowInv /\ Server => Kept
<1> SUFFICES ASSUME FlowInv, Server PROVE Kept
  OBVIOUS
<1>1. CASE ServerCloses
  BY <1>1, FlowStill DEF ServerCloses
<1> QED
  BY <1>1, SettingsFlow, DataFlow, EndFlow, NoiseFlow DEF Server

LEMMA ReaderFlow == FlowInv /\ Reader => Kept
<1> SUFFICES ASSUME FlowInv, Reader PROVE Kept
  OBVIOUS
<1>1. CASE RegisterRefused
  BY <1>1, FlowFailed DEF RegisterRefused
<1>2. CASE ReadStop
  <2>1. CASE Failed
    BY <2>1, FlowFailed
  <2>2. CASE ~Failed
    <3>1. /\ pc \in InMap /\ pc' = "closing"
          /\ UNCHANGED <<wire, credit, at, done, owed, json, expected, aligned, cut, returned>>
      BY <1>2, <2>2 DEF ReadStop, Stops, InMap, session
    <3> QED
      BY <3>1, FlowStill
  <2> QED
    BY <2>1, <2>2
<1> QED
  BY <1>1, <1>2, StartFlow, RegisterFlow, OtherFlow, StaleFlow, ReadDataFlow, GiveUpFlow
  DEF Reader

LEMMA MainFlow == FlowInv /\ MainTask => Kept
<1> SUFFICES ASSUME FlowInv, MainTask PROVE Kept
  OBVIOUS
<1>1. CASE Connect
  <2>1. CASE Failed
    BY <2>1, FlowFailed
  <2>2. CASE ~Failed
    <3>1. Hangup(TRUE, {"settings", "ack"}) /\ pc' = "start"
      BY <1>1, <2>2 DEF Connect
    <3> QED
      BY <3>1, FlowOver
  <2> QED
    BY <2>1, <2>2
<1>2. CASE OtaOnly
  BY <1>2, FlowStill DEF OtaOnly, vars, session
<1>3. CASE SetUpSession
  BY <1>3, FlowStill DEF SetUpSession, session, InMap
<1>4. CASE Monitor
  <2>1. Hangup(FALSE, {}) /\ pc' = "connect"
    BY <1>4 DEF Monitor
  <2> QED
    BY <2>1, FlowOver
<1> QED
  BY <1>1, <1>2, <1>3, <1>4 DEF MainTask

LEMMA FlowStep == FlowInv /\ [Next]_vars => Kept
<1> SUFFICES ASSUME FlowInv, [Next]_vars PROVE Kept
  OBVIOUS
<1>1. CASE UNCHANGED vars
  BY <1>1, FlowStill DEF vars, session
<1> QED
  BY <1>1, ServerFlow, ReaderFlow, MainFlow DEF Next

\* The inductive invariant: the frames follow each other in the stream of the
\* messages, and what a read has joined is what lies before them.
THEOREM StreamInvariant == Spec => []FlowInv
<1>1. FlowInv /\ [Next]_vars => FlowInv'
  BY FlowStep DEF Kept
<1> QED
  BY InitFlow, <1>1, PTL DEF Spec

\* A read of ts_http2_read_json that begins between two messages returns exactly
\* one, also after one that gave up inside a message, and none is returned twice.
THEOREM ReadsWholeMessages == Spec => []WholeMessages
<1>1. FlowInv => WholeMessages
  BY DEF FlowInv
<1> QED
  BY <1>1, StreamInvariant, PTL

\* The reads of the main task and those of the map task together return every
\* message of a session, as long as none of them gives up inside a message.
THEOREM ReadsSkipNothing == Spec => []NothingSkipped
<1>1. FlowInv => NothingSkipped
  BY DEF FlowInv
<1> QED
  BY <1>1, StreamInvariant, PTL

-----------------------------------------------------------------------------
(* The server's window *)

\* OnWire, for any sequence of frames.
Cells(w) == {p \in (DOMAIN w) \X (1 .. Window) : p[2] \in DOMAIN w[p[1]].pieces}

CreditInv ==
    /\ FlowInv
    /\ \A i \in DOMAIN wire : Len(wire[i].pieces) <= Window
    /\ IsFiniteSet(Cells(wire))
    /\ credit + Cardinality(Cells(wire)) = Window

LEMMA SameSize ==
    ASSUME NEW S, NEW T, NEW g \in [S -> T], IsFiniteSet(S),
           \A x, y \in S : g[x] = g[y] => x = y, \A y \in T : \E x \in S : g[x] = y
    PROVE  IsFiniteSet(T) /\ Cardinality(T) = Cardinality(S)
<1>1. g \in Bijection(S, T)
  BY DEF Bijection, Injection, Surjection, IsInjective
<1> QED
  BY <1>1, FS_Bijection DEF ExistsBijection

\* The pieces of one frame.
LEMMA FrameCells ==
    ASSUME NEW n \in Nat, NEW k \in Nat
    PROVE  IsFiniteSet({n} \X (1 .. k)) /\ Cardinality({n} \X (1 .. k)) = k
<1> DEFINE g == [j \in 1 .. k |-> <<n, j>>]
<1>1. g \in [1 .. k -> {n} \X (1 .. k)]
  OBVIOUS
<1>2. \A x, y \in 1 .. k : g[x] = g[y] => x = y
  OBVIOUS
<1>3. \A y \in {n} \X (1 .. k) : \E x \in 1 .. k : g[x] = y
  OBVIOUS
<1>4. IsFiniteSet(1 .. k) /\ Cardinality(1 .. k) = k
  BY FS_Interval
<1> DEFINE first == 1 .. k
           new == {n} \X (1 .. k)
<1>5. g \in [first -> new] /\ IsFiniteSet(first) /\ Cardinality(first) = k
  BY <1>1, <1>4
<1>6. (\A x, y \in first : g[x] = g[y] => x = y) /\ (\A y \in new : \E x \in first : g[x] = y)
  BY <1>2, <1>3
<1>7. IsFiniteSet(new) /\ Cardinality(new) = k
  <2> HIDE DEF g, first, new
  <2> QED
    BY <1>5, <1>6, SameSize
<1> QED
  BY <1>7

LEMMA FramePieces ==
    ASSUME NEW f \in FrameSet
    PROVE  Len(f.pieces) \in Nat /\ DOMAIN f.pieces = 1 .. Len(f.pieces)
<1>1. f.pieces \in Seq(Pieces)
  BY DEF FrameSet
<1> QED
  BY <1>1

LEMMA CellsAppended ==
    ASSUME NEW w \in Seq(FrameSet), NEW f \in FrameSet, Len(f.pieces) <= Window,
           IsFiniteSet(Cells(w))
    PROVE  /\ IsFiniteSet(Cells(Append(w, f)))
           /\ Cardinality(Cells(Append(w, f))) = Cardinality(Cells(w)) + Len(f.pieces)
<1> DEFINE n == Len(w) + 1
           k == Len(f.pieces)
           new == {n} \X (1 .. k)
           v == Append(w, f)
<1>1. /\ Len(w) \in Nat /\ n \in Nat /\ k \in Nat /\ DOMAIN w = 1 .. Len(w)
      /\ DOMAIN v = 1 .. Len(w) + 1 /\ v[n] = f
      /\ \A i \in 1 .. Len(w) : v[i] = w[i]
      /\ DOMAIN f.pieces = 1 .. k /\ Window \in Nat
  BY AppendOf, FramePieces, SizesNat
<1>2. IsFiniteSet(new) /\ Cardinality(new) = k
  BY <1>1, FrameCells
<1> HIDE DEF v, k
<1>3. Cells(v) = Cells(w) \cup new
  <2>1. ASSUME NEW p \in Cells(v) PROVE p \in Cells(w) \cup new
    <3>1. p \in (DOMAIN v) \X (1 .. Window) /\ p[2] \in DOMAIN v[p[1]].pieces
      BY DEF Cells
    <3>2. CASE p[1] = n
      BY <1>1, <3>1, <3>2
    <3>3. CASE p[1] # n
      <4>1. p[1] \in 1 .. Len(w)
        BY <1>1, <3>1, <3>3
      <4> QED
        BY <1>1, <3>1, <4>1 DEF Cells
    <3> QED
      BY <3>2, <3>3
  <2>2. ASSUME NEW p \in Cells(w) PROVE p \in Cells(v)
    <3>1. p \in (DOMAIN w) \X (1 .. Window) /\ p[2] \in DOMAIN w[p[1]].pieces
      BY DEF Cells
    <3>2. p[1] \in 1 .. Len(w) /\ p[1] \in DOMAIN v
      BY <1>1, <3>1
    <3> QED
      BY <1>1, <3>1, <3>2 DEF Cells
  <2>3. ASSUME NEW p \in new PROVE p \in Cells(v)
    <3>1. p[1] = n /\ p[2] \in 1 .. k /\ p[2] \in 1 .. Window /\ n \in DOMAIN v
      BY <1>1 DEF k
    <3> QED
      BY <1>1, <3>1 DEF Cells
  <2> QED
    BY <2>1, <2>2, <2>3
<1>4. Cells(w) \cap new = {}
  <2>1. \A p \in Cells(w) : p[1] \in 1 .. Len(w)
    BY <1>1 DEF Cells
  <2> QED
    BY <1>1, <2>1
<1> HIDE DEF new
<1>5. /\ IsFiniteSet(Cells(v))
      /\ Cardinality(Cells(v)) = Cardinality(Cells(w)) + k - 0
  BY <1>2, <1>3, <1>4, FS_Union, FS_EmptySet
<1> QED
  BY <1>1, <1>2, <1>5, FS_CardinalityType DEF v, k

LEMMA CellsTaken ==
    ASSUME NEW w \in Seq(FrameSet), w # <<>>, Len(w[1].pieces) <= Window, IsFiniteSet(Cells(w))
    PROVE  /\ IsFiniteSet(Cells(Tail(w)))
           /\ Cardinality(Cells(w)) = Cardinality(Cells(Tail(w))) + Len(w[1].pieces)
<1> DEFINE k == Len(w[1].pieces)
           first == {1} \X (1 .. k)
           rest == {p \in Cells(w) : p[1] # 1}
           v == Tail(w)
<1>1. /\ Len(w) \in Nat \ {0} /\ DOMAIN w = 1 .. Len(w) /\ DOMAIN v = 1 .. Len(w) - 1
      /\ \A i \in 1 .. Len(w) - 1 : v[i] = w[i + 1]
      /\ 1 \in DOMAIN w /\ w[1] \in FrameSet /\ Window \in Nat
  BY TailOf, SizesNat
<1>2. k \in Nat /\ DOMAIN w[1].pieces = 1 .. k
  BY <1>1, FramePieces
<1>3. IsFiniteSet(first) /\ Cardinality(first) = k
  BY <1>2, FrameCells
<1>4. IsFiniteSet(rest)
  BY FS_Subset
<1> HIDE DEF v
<1>5. Cells(w) = first \cup rest
  <2>1. ASSUME NEW p \in Cells(w) PROVE p \in first \cup rest
    <3>1. p \in (DOMAIN w) \X (1 .. Window) /\ p[2] \in DOMAIN w[p[1]].pieces
      BY DEF Cells
    <3> QED
      BY <1>2, <3>1
  <2>2. ASSUME NEW p \in first PROVE p \in Cells(w)
    <3>1. p \in {1} \X (1 .. k) /\ p[1] = 1 /\ p[2] \in 1 .. k /\ p[2] \in 1 .. Window
      BY <1>1, <1>2
    <3> QED
      BY <1>1, <1>2, <3>1 DEF Cells
  <2> QED
    BY <2>1, <2>2
<1>6. first \cap rest = {}
  OBVIOUS
<1>7. Cardinality(Cells(w)) = k + Cardinality(rest) - 0
  <2> HIDE DEF first, rest, k
  <2> QED
    BY <1>3, <1>4, <1>5, <1>6, FS_Union, FS_EmptySet
<1>8. IsFiniteSet(Cells(v)) /\ Cardinality(Cells(v)) = Cardinality(rest)
  <2> DEFINE g == [p \in rest |-> <<p[1] - 1, p[2]>>]
  <2>1. ASSUME NEW p \in rest
        PROVE  /\ p = <<p[1], p[2]>> /\ p[1] \in 2 .. Len(w) /\ p[2] \in 1 .. Window
               /\ p[1] - 1 \in 1 .. Len(w) - 1 /\ p[2] \in DOMAIN v[p[1] - 1].pieces
    <3>1. p \in (DOMAIN w) \X (1 .. Window) /\ p[2] \in DOMAIN w[p[1]].pieces /\ p[1] # 1
      BY DEF Cells
    <3>2. p = <<p[1], p[2]>> /\ p[1] \in 2 .. Len(w) /\ p[2] \in 1 .. Window
      BY <1>1, <3>1
    <3>3. p[1] - 1 \in 1 .. Len(w) - 1 /\ (p[1] - 1) + 1 = p[1]
      BY <1>1, <3>2
    <3> QED
      BY <1>1, <3>1, <3>2, <3>3
  <2>2. g \in [rest -> Cells(v)]
    <3> SUFFICES ASSUME NEW p \in rest PROVE <<p[1] - 1, p[2]>> \in Cells(v)
      OBVIOUS
    <3> QED
      BY <1>1, <2>1 DEF Cells
  <2>3. \A x, y \in rest : g[x] = g[y] => x = y
    <3> SUFFICES ASSUME NEW x \in rest, NEW y \in rest, g[x] = g[y] PROVE x = y
      OBVIOUS
    <3>1. <<x[1] - 1, x[2]>> = <<y[1] - 1, y[2]>>
      OBVIOUS
    <3> HIDE DEF rest, g
    <3>2. x[1] - 1 = y[1] - 1 /\ x[2] = y[2]
      BY <3>1
    <3>3. x[1] = y[1]
      BY <2>1, <3>2
    <3> QED
      BY <2>1, <3>2, <3>3
  <2>4. \A y \in Cells(v) : \E x \in rest : g[x] = y
    <3> SUFFICES ASSUME NEW y \in Cells(v) PROVE \E x \in rest : g[x] = y
      OBVIOUS
    <3>1. /\ y = <<y[1], y[2]>> /\ y[1] \in 1 .. Len(w) - 1 /\ y[2] \in 1 .. Window
          /\ y[2] \in DOMAIN v[y[1]].pieces
      BY <1>1 DEF Cells
    <3>2. y[1] + 1 \in 1 .. Len(w) /\ y[1] + 1 # 1 /\ (y[1] + 1) - 1 = y[1] /\ v[y[1]] = w[y[1] + 1]
      BY <1>1, <3>1
    <3>3. <<y[1] + 1, y[2]>> \in rest
      BY <1>1, <3>1, <3>2 DEF Cells
    <3>4. g[<<y[1] + 1, y[2]>>] = <<(y[1] + 1) - 1, y[2]>>
      BY <3>3
    <3> QED
      BY <3>1, <3>2, <3>3, <3>4
  <2> HIDE DEF g, rest
  <2> QED
    BY <1>4, <2>2, <2>3, <2>4, SameSize
<1> QED
  BY <1>2, <1>4, <1>7, <1>8, FS_CardinalityType DEF v

LEMMA CreditKept == CreditInv /\ [Next]_vars => CreditInv'
<1> SUFFICES ASSUME CreditInv, [Next]_vars PROVE CreditInv'
  OBVIOUS
<1>1. FlowInv' /\ CreditStep
  BY FlowStep DEF CreditInv, Kept
<1>2. /\ wire \in Seq(FrameSet) /\ credit \in Nat /\ Window \in Nat
      /\ IsFiniteSet(Cells(wire)) /\ credit + Cardinality(Cells(wire)) = Window
      /\ Cardinality(Cells(wire)) \in Nat
      /\ \A i \in DOMAIN wire : Len(wire[i].pieces) <= Window
  BY SizesNat, FS_CardinalityType DEF CreditInv, FlowInv, StreamType
<1>3. CASE \E f \in FrameSet : Len(f.pieces) <= credit /\ ServerSends(f)
  <2>1. PICK f \in FrameSet : Len(f.pieces) <= credit /\ ServerSends(f)
    BY <1>3
  <2>2. Len(f.pieces) \in Nat /\ Len(f.pieces) <= Window
    BY <1>2, <2>1, FramePieces
  <2>3. wire' = Append(wire, f) /\ credit' = credit - Len(f.pieces)
    BY <2>1 DEF ServerSends
  <2>4. /\ IsFiniteSet(Cells(wire'))
        /\ Cardinality(Cells(wire')) = Cardinality(Cells(wire)) + Len(f.pieces)
    BY <1>2, <2>2, <2>3, CellsAppended
  <2>5. \A i \in DOMAIN wire' : Len(wire'[i].pieces) <= Window
    <3>1. \A i \in 1 .. Len(wire) + 1 : i \in 1 .. Len(wire) \/ i = Len(wire) + 1
      BY <1>2, AppendOf
    <3> QED
      BY <1>2, <2>2, <2>3, <3>1, AppendOf
  <2>6. credit' + Cardinality(Cells(wire')) = Window
    BY <1>2, <2>2, <2>3, <2>4
  <2> QED
    BY <1>1, <2>4, <2>5, <2>6 DEF CreditInv, Cells
<1>4. CASE \E f : Consumes(f) /\ (GivesBack(f) \/ (f.pieces = <<>> /\ credit' = credit))
  <2>1. PICK f : Consumes(f) /\ (GivesBack(f) \/ (f.pieces = <<>> /\ credit' = credit))
    BY <1>4
  <2>2. /\ wire # <<>> /\ f = wire[1] /\ 1 \in DOMAIN wire /\ f \in FrameSet /\ wire' = Tail(wire)
        /\ \A i \in DOMAIN wire' : i + 1 \in DOMAIN wire /\ wire'[i] = wire[i + 1]
    BY <2>1, TakenFrame DEF CreditInv
  <2>3. Len(f.pieces) \in Nat /\ Len(f.pieces) <= Window
    BY <1>2, <2>2, FramePieces
  <2>4. credit' = credit + Len(f.pieces)
    BY <1>2, <2>1 DEF GivesBack
  <2>5. /\ IsFiniteSet(Cells(wire'))
        /\ Cardinality(Cells(wire)) = Cardinality(Cells(wire')) + Len(f.pieces)
    BY <1>2, <2>2, <2>3, CellsTaken
  <2>6. credit' + Cardinality(Cells(wire')) = Window
    BY <1>2, <2>3, <2>4, <2>5, FS_CardinalityType
  <2>7. \A i \in DOMAIN wire' : Len(wire'[i].pieces) <= Window
    BY <1>2, <2>2
  <2> QED
    BY <1>1, <2>5, <2>6, <2>7 DEF CreditInv, Cells
<1>5. CASE UNCHANGED <<wire, credit>>
  BY <1>1, <1>2, <1>5 DEF CreditInv, Cells
<1>6. CASE wire' = <<>> /\ credit' = Window
  <2>1. DOMAIN wire' = {}
    BY <1>6
  <2>2. Cells(wire') = {}
    BY <2>1 DEF Cells
  <2>3. IsFiniteSet(Cells(wire')) /\ credit' + Cardinality(Cells(wire')) = Window
    <3>1. IsFiniteSet(Cells(wire')) /\ Cardinality(Cells(wire')) = 0
      BY <2>2, FS_EmptySet
    <3>2. credit' = Window /\ Window + 0 = Window
      BY <1>2, <1>6
    <3> QED
      BY <3>1, <3>2
  <2> QED
    BY <1>1, <2>1, <2>3 DEF CreditInv, Cells
<1> QED
  BY <1>1, <1>3, <1>4, <1>5, <1>6 DEF CreditStep

\* No way to read, skip or drop a DATA frame keeps a part of the server's window:
\* what it may not send is on its way.
THEOREM WindowComesBack == Spec => []CreditBalanced
<1>1. Init => CreditInv
  <2> SUFFICES ASSUME Init PROVE CreditInv
    OBVIOUS
  <2>1. wire = <<>> /\ credit = Window /\ FlowInv
    BY InitFlow DEF Init
  <2>2. Cells(wire) = {} /\ DOMAIN wire = {}
    BY <2>1 DEF Cells
  <2>3. IsFiniteSet(Cells(wire)) /\ Cardinality(Cells(wire)) = 0
    BY <2>2, FS_EmptySet
  <2>4. credit + 0 = Window
    BY <2>1, SizesNat
  <2> QED
    BY <2>1, <2>2, <2>3, <2>4 DEF CreditInv
<1>2. CreditInv => CreditBalanced
  BY DEF CreditInv, CreditBalanced, OnWire, Cells
<1> QED
  BY <1>1, <1>2, CreditKept, PTL DEF Spec
=============================================================================
