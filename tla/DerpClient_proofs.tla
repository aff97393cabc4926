------------------------- MODULE DerpClient_proofs -------------------------
(***************************************************************************)
(* What is proved about the relay client of DerpClient, whatever the       *)
(* server does and however long its calls last.                            *)
(*                                                                         *)
(* Each variable keeps its kind, and a request that derp_send_packet       *)
(* accepted is in exactly one place (Accounting): queued, in the hands of  *)
(* a receive task, on the wire, or freed.  Until two receive tasks overlap *)
(* (which derp_close does not prevent), packets stay in order (Order): the *)
(* one task takes them from the front of the queue, and writes each on a   *)
(* connection that none opened later has been written on.                  *)
(***************************************************************************)
EXTENDS DerpClient, FiniteSetTheorems, SequenceTheorems, TLAPS

-----------------------------------------------------------------------------
(* The invariants *)

\* TypeOK, with a number left for the request of a sender under way.
Kinds == TypeOK /\ (sender = "checked" => accepted < MaxSends)

\* Only a task that writes carries a request, and a session whose task does
\* not run yet has an untouched one.
TasksFresh ==
    /\ main.at # "down" => sessions \in Tasks
    /\ \A t \in Tasks :
        /\ task[t].at = "write" <=> task[t].req # 0
        /\ t > sessions => task[t] = NoTask
        /\ t = sessions /\ main.at \in {"dial", "handshake"} => task[t] = NoTask

Values(q) == {q[i] : i \in DOMAIN q}
Queued == Values(queue)
Carried == {task[t].req : t \in Tasks} \ {0}
Sent == UNION {Values(wire[c]) : c \in Conns}

\* The accepted requests are divided among the four kinds of places, and no
\* place of a kind holds the request of another.
Accounting ==
    /\ Queued \cup Carried \cup Sent \cup lost = 1 .. accepted
    /\ Queued \cap Carried = {} /\ Queued \cap Sent = {} /\ Queued \cap lost = {}
    /\ Carried \cap Sent = {} /\ Carried \cap lost = {} /\ Sent \cap lost = {}
    /\ \A i, j \in DOMAIN queue : queue[i] = queue[j] => i = j
    /\ \A t, u \in Tasks : task[t].req = task[u].req /\ task[t].req # 0 => t = u
    /\ \A c, d \in Conns : \A i \in DOMAIN wire[c], j \in DOMAIN wire[d] :
        wire[c][i] = wire[d][j] => c = d /\ i = j

AccountInv == Kinds /\ TasksFresh /\ Accounting

\* The structure names no connection or the latest one, and nothing is written on
\* a connection before it is opened.
Latest ==
    /\ dc.conn \in {0, conns}
    /\ open \subseteq 1 .. conns
    /\ \A c \in Conns : c > conns => wire[c] = <<>>

OneAlive == \A t, u \in Tasks : Alive(t) /\ Alive(u) => t = u

\* Requests move towards the wire in the order of their numbers, and the
\* connection a write began on is the last one written on.
Order ==
    /\ InOrder
    /\ \A i, j \in DOMAIN queue : i < j => queue[i] < queue[j]
    /\ \A t \in Tasks : task[t].at = "write" =>
        /\ \A j \in DOMAIN queue : task[t].req < queue[j]
        /\ \A c \in Conns : \A i \in DOMAIN wire[c] : wire[c][i] < task[t].req
        /\ \A c \in Conns : task[t].conn \in Conns /\ c > task[t].conn => wire[c] = <<>>

OrderInv == AccountInv /\ Latest /\ (~overlapped => OneAlive /\ Order)

-----------------------------------------------------------------------------
(* Lemmas about the operators *)

\* The delays are 5, 10, 20, ... cut at BackoffMax.
LEMMA BackoffKind ==
    ASSUME NEW n \in Failures
    PROVE  OneMore(n) \in Failures /\ Backoff(OneMore(n)) \in 0 .. BackoffMax
<1>1. 2^0 = 1 /\ 2^1 = 2 /\ 2^2 = 4 /\ 2^3 = 8
    OBVIOUS
<1>2. ASSUME NEW f \in 1 .. 4
      PROVE  Backoff(f) \in 0 .. BackoffMax
    <2>1. CASE f = 1
        BY <1>1, <2>1, DerpAssumption DEF Backoff
    <2>2. CASE f = 2
        BY <1>1, <2>2, DerpAssumption DEF Backoff
    <2>3. CASE f = 3
        BY <1>1, <2>3, DerpAssumption DEF Backoff
    <2>4. CASE f = 4
        BY <1>1, <2>4, DerpAssumption DEF Backoff
    <2>5. QED
        BY <2>1, <2>2, <2>3, <2>4
<1>3. OneMore(n) \in 1 .. 4
    BY DEF OneMore, Failures
<1>4. QED
    BY <1>2, <1>3 DEF Failures

\* What is left of a queue without its oldest request.
LEMMA TailOf ==
    ASSUME NEW S, NEW q \in Seq(S), q # <<>>
    PROVE  /\ DOMAIN q = 1 .. Len(q) /\ Len(q) \in Nat \ {0}
           /\ Head(q) = q[1] /\ Head(q) \in S
           /\ Tail(q) \in Seq(S) /\ Len(Tail(q)) = Len(q) - 1
           /\ DOMAIN Tail(q) = 1 .. Len(q) - 1
           /\ \A i \in 1 .. Len(q) - 1 : Tail(q)[i] = q[i + 1]
    OBVIOUS

LEMMA TailValues ==
    ASSUME NEW S, NEW q \in Seq(S), q # <<>>,
           \A i, j \in DOMAIN q : q[i] = q[j] => i = j
    PROVE  /\ Values(Tail(q)) = Values(q) \ {Head(q)}
           /\ Head(q) \in Values(q)
           /\ \A i, j \in DOMAIN Tail(q) : Tail(q)[i] = Tail(q)[j] => i = j
<1>1. Head(q) \in Values(q)
    BY TailOf DEF Values
<1>2. Values(Tail(q)) \subseteq Values(q) \ {Head(q)}
    BY TailOf DEF Values
<1>3. ASSUME NEW v \in Values(q) \ {Head(q)}
      PROVE  v \in Values(Tail(q))
    <2>1. PICK i \in DOMAIN q : v = q[i]
        BY DEF Values
    <2>2. i # 1
        BY <2>1, TailOf
    <2>3. i - 1 \in DOMAIN Tail(q) /\ Tail(q)[i - 1] = v
        BY <2>1, <2>2, TailOf
    <2>4. QED
        BY <2>3 DEF Values
<1>4. \A i, j \in DOMAIN Tail(q) : Tail(q)[i] = Tail(q)[j] => i = j
    <2>1. SUFFICES ASSUME NEW i \in DOMAIN Tail(q), NEW j \in DOMAIN Tail(q),
                          Tail(q)[i] = Tail(q)[j]
                   PROVE  i = j
        OBVIOUS
    <2>2. i + 1 \in DOMAIN q /\ j + 1 \in DOMAIN q /\ q[i + 1] = q[j + 1]
        BY <2>1, TailOf
    <2>3. i + 1 = j + 1 /\ i \in Int /\ j \in Int
        BY <2>2, TailOf
    <2>4. QED
        BY <2>3
<1>5. QED
    BY <1>1, <1>2, <1>3, <1>4

\* A request put at the end of a queue.
LEMMA AppendOf ==
    ASSUME NEW S, NEW q \in Seq(S), NEW r \in S
    PROVE  /\ DOMAIN q = 1 .. Len(q) /\ Len(q) \in Nat
           /\ Append(q, r) \in Seq(S) /\ Len(Append(q, r)) = Len(q) + 1
           /\ DOMAIN Append(q, r) = 1 .. Len(q) + 1
           /\ \A i \in 1 .. Len(q) : Append(q, r)[i] = q[i]
           /\ Append(q, r)[Len(q) + 1] = r
    OBVIOUS

LEMMA AppendValues ==
    ASSUME NEW S, NEW q \in Seq(S), NEW r \in S
    PROVE  Values(Append(q, r)) = Values(q) \cup {r}
<1>1. Values(q) \subseteq Values(Append(q, r))
    BY AppendOf DEF Values
<1>2. r \in Values(Append(q, r))
    BY AppendOf DEF Values
<1>3. ASSUME NEW v \in Values(Append(q, r))
      PROVE  v \in Values(q) \cup {r}
    <2>1. PICK i \in DOMAIN Append(q, r) : v = Append(q, r)[i]
        BY DEF Values
    <2>2. CASE i = Len(q) + 1
        BY <2>1, <2>2, AppendOf
    <2>3. CASE i # Len(q) + 1
        BY <2>1, <2>3, AppendOf DEF Values
    <2>4. QED
        BY <2>2, <2>3
<1>4. QED
    BY <1>1, <1>2, <1>3

-----------------------------------------------------------------------------
(* Kinds and fresh tasks *)

LEMMA InitAccount == Init => AccountInv
<1>1. SUFFICES ASSUME Init PROVE AccountInv
    OBVIOUS
<1>2. Kinds
    <2>1. derp_init \in Clients
        BY DerpAssumption DEF derp_init, Clients, Failures
    <2>2. NoTask \in TaskStates
        BY DerpAssumption DEF NoTask, TaskStates
    <2>3. main \in [at : {"down", "dial", "handshake", "up", "closing"}, left : Delays]
        BY <1>1, DerpAssumption DEF Init, Delays
    <2>4. wire \in [Conns -> Seq(Requests)] /\ task \in [Tasks -> TaskStates]
        BY <1>1, <2>2 DEF Init
    <2>5. queue \in Seq(Requests) /\ Len(queue) <= QueueDepth
        BY <1>1, DerpAssumption DEF Init
    <2>6. /\ sessions \in 0 .. MaxSessions /\ conns \in 0 .. MaxConns
          /\ accepted \in 0 .. MaxSends
        BY <1>1, DerpAssumption DEF Init
    <2>7. dc \in Clients /\ open \subseteq Conns /\ lost \subseteq Requests
          /\ sender = "idle" /\ overlapped \in BOOLEAN
        BY <1>1, <2>1 DEF Init
    <2>8. QED
        BY <2>3, <2>4, <2>5, <2>6, <2>7 DEF Kinds, TypeOK
<1>3. TasksFresh
    BY <1>1 DEF Init, TasksFresh, NoTask
<1>4. Queued = {} /\ Carried = {} /\ Sent = {} /\ lost = {}
    BY <1>1 DEF Init, Queued, Carried, Sent, Values, NoTask
<1>5. Accounting
    BY <1>1, <1>4 DEF Init, Accounting, NoTask
<1>6. QED
    BY <1>2, <1>3, <1>5 DEF AccountInv

\* After the step the state of task t is st, and the other tasks stand still.
Now(t, st) ==
    /\ task' \in [Tasks -> TaskStates]
    /\ task'[t] = st
    /\ \A u \in Tasks \ {t} : task'[u] = task[u]

State(pc, l, c, r) == [at |-> pc, left |-> l, conn |-> c, req |-> r]

LEMMA ThreeFields ==
    ASSUME Kinds, NEW t \in Tasks, NEW pc, NEW c \in 0 .. MaxConns, NEW r \in 0 .. MaxSends,
           pc \in {"loop", "drain", "write", "reconnect", "dial", "handshake", "done", "gone"},
           task' = [task EXCEPT ![t].at = pc, ![t].conn = c, ![t].req = r]
    PROVE  Now(t, State(pc, task[t].left, c, r))
<1> DEFINE s == [task[t] EXCEPT !.at = pc, !.conn = c, !.req = r]
<1>1. task \in [Tasks -> TaskStates] /\ task[t] \in TaskStates
    BY DEF Kinds, TypeOK
<1>2. s = State(pc, task[t].left, c, r) /\ s \in TaskStates
    <2>1. s \in TaskStates
        BY <1>1 DEF TaskStates
    <2>2. s.at = pc /\ s.left = task[t].left /\ s.conn = c /\ s.req = r
        BY <1>1 DEF TaskStates
    <2>3. \A x \in TaskStates : x = State(x.at, x.left, x.conn, x.req)
        BY DEF State, TaskStates
    <2> HIDE DEF s
    <2>4. QED
        BY <2>1, <2>2, <2>3
<1>3. task' = [task EXCEPT ![t] = s]
    BY <1>1
<1> HIDE DEF s
<1>4. QED
    BY <1>1, <1>2, <1>3 DEF Now

LEMMA GotoNow ==
    ASSUME Kinds, NEW t \in Tasks, NEW pc, Goto(t, pc),
           pc \in {"loop", "drain", "reconnect", "dial", "handshake", "done", "gone"}
    PROVE  Now(t, State(pc, task[t].left, 0, 0))
<1>1. 0 \in 0 .. MaxConns /\ 0 \in 0 .. MaxSends
    BY DerpAssumption
<1>2. task' = [task EXCEPT ![t].at = pc, ![t].conn = 0, ![t].req = 0]
    BY DEF Goto
<1>3. QED
    BY <1>1, <1>2, ThreeFields

LEMMA ExceptNow ==
    ASSUME Kinds, NEW t \in Tasks
    PROVE  /\ \A c \in 0 .. MaxConns :
                task' = [task EXCEPT ![t].at = "read", ![t].conn = c]
                    => Now(t, State("read", task[t].left, c, task[t].req))
           /\ \A l \in 0 .. BackoffMax :
                task' = [task EXCEPT ![t].at = "delay", ![t].left = l]
                    => Now(t, State("delay", l, task[t].conn, task[t].req))
           /\ \A c \in 0 .. MaxConns, r \in Requests :
                task' = [task EXCEPT ![t].at = "write", ![t].conn = c, ![t].req = r]
                    => Now(t, State("write", task[t].left, c, r))
           /\ task' = [task EXCEPT ![t].at = "loop"]
                    => Now(t, State("loop", task[t].left, task[t].conn, task[t].req))
<1> USE DEF Kinds, TypeOK, Now, State, Tasks, TaskStates, Requests
<1>1. ASSUME NEW c \in 0 .. MaxConns,
             task' = [task EXCEPT ![t].at = "read", ![t].conn = c]
      PROVE  Now(t, State("read", task[t].left, c, task[t].req))
    BY <1>1
<1>2. ASSUME NEW l \in 0 .. BackoffMax,
             task' = [task EXCEPT ![t].at = "delay", ![t].left = l]
      PROVE  Now(t, State("delay", l, task[t].conn, task[t].req))
    BY <1>2
<1>3. ASSUME NEW c \in 0 .. MaxConns, NEW r \in Requests,
             task' = [task EXCEPT ![t].at = "write", ![t].conn = c, ![t].req = r]
      PROVE  Now(t, State("write", task[t].left, c, r))
    <2>1. r \in 0 .. MaxSends
        BY DerpAssumption
    <2>2. QED
        BY <1>3, <2>1, ThreeFields
<1>4. ASSUME task' = [task EXCEPT ![t].at = "loop"]
      PROVE  Now(t, State("loop", task[t].left, task[t].conn, task[t].req))
    BY <1>4
<1>5. QED
    BY <1>1, <1>2, <1>3, <1>4

\* What each step of receive task t does to the state of the task.
LEMMA TaskMoves ==
    ASSUME Kinds, NEW t \in Tasks
    PROVE  /\ Loop(t) => Now(t, State(IF dc.running THEN "drain" ELSE "done", task[t].left, 0, 0))
           /\ Dequeue(t) => Now(t, State("write", task[t].left, dc.conn, Head(queue)))
           /\ Written(t) \/ WriteFailed(t) => Now(t, State("drain", task[t].left, 0, 0))
           /\ Poll(t) => Now(t, State("read", task[t].left, dc.conn, task[t].req))
           /\ ReadDone(t) \/ Reconnected(t) => Now(t, State("loop", task[t].left, 0, 0))
           /\ ReadBroken(t) \/ ReconnectFailed(t)
                => Now(t, State("reconnect", task[t].left, 0, 0))
           /\ BeginBackoff(t)
                => IF dc.running
                   THEN Now(t, State("delay", Backoff(OneMore(dc.failures)), task[t].conn, task[t].req))
                   ELSE Now(t, State("done", task[t].left, 0, 0))
           /\ EndBackoff(t)
                => Now(t, State(IF dc.running THEN "dial" ELSE "done", task[t].left, 0, 0))
           /\ Dialled(t) => Now(t, State("handshake", task[t].left, 0, 0))
           /\ Exit(t) => Now(t, State("gone", task[t].left, 0, 0))
<1>1. Loop(t) => Now(t, State(IF dc.running THEN "drain" ELSE "done", task[t].left, 0, 0))
    BY GotoNow DEF Loop
<1>2. ASSUME Dequeue(t)
      PROVE  Now(t, State("write", task[t].left, dc.conn, Head(queue)))
    <2>1. dc.conn \in 0 .. MaxConns /\ Head(queue) \in Requests
        BY <1>2, TailOf DEF Dequeue, Kinds, TypeOK, Clients
    <2>2. task' = [task EXCEPT ![t].at = "write", ![t].conn = dc.conn, ![t].req = Head(queue)]
        BY <1>2 DEF Dequeue
    <2>3. QED
        BY <2>1, <2>2, ExceptNow
<1>3. Written(t) \/ WriteFailed(t) => Now(t, State("drain", task[t].left, 0, 0))
    BY GotoNow DEF Written, WriteFailed
<1>4. ASSUME Poll(t)
      PROVE  Now(t, State("read", task[t].left, dc.conn, task[t].req))
    <2>1. dc.conn \in 0 .. MaxConns
        BY DEF Kinds, TypeOK, Clients
    <2>2. task' = [task EXCEPT ![t].at = "read", ![t].conn = dc.conn]
        BY <1>4 DEF Poll
    <2>3. QED
        BY <2>1, <2>2, ExceptNow
<1>5. ReadDone(t) \/ Reconnected(t) => Now(t, State("loop", task[t].left, 0, 0))
    BY GotoNow DEF ReadDone, Reconnected
<1>6. ReadBroken(t) \/ ReconnectFailed(t) => Now(t, State("reconnect", task[t].left, 0, 0))
    BY GotoNow DEF ReadBroken, ReconnectFailed
<1>7. ASSUME BeginBackoff(t)
      PROVE  IF dc.running
             THEN Now(t, State("delay", Backoff(OneMore(dc.failures)), task[t].conn, task[t].req))
             ELSE Now(t, State("done", task[t].left, 0, 0))
    <2>1. CASE ~dc.running
        BY <1>7, <2>1, GotoNow DEF BeginBackoff
    <2>2. CASE dc.running
        <3>1. dc.failures \in Failures
            BY DEF Kinds, TypeOK, Clients
        <3>2. Backoff(OneMore(dc.failures)) \in 0 .. BackoffMax
            BY <3>1, BackoffKind
        <3>3. task' = [task EXCEPT ![t].at = "delay", ![t].left = Backoff(OneMore(dc.failures))]
            BY <1>7, <2>2 DEF BeginBackoff
        <3>4. QED
            BY <2>2, <3>2, <3>3, ExceptNow
    <2>3. QED
        BY <2>1, <2>2
<1>8. EndBackoff(t)
        => Now(t, State(IF dc.running THEN "dial" ELSE "done", task[t].left, 0, 0))
    BY GotoNow DEF EndBackoff
<1>9. Dialled(t) => Now(t, State("handshake", task[t].left, 0, 0))
    BY GotoNow DEF Dialled
<1>10. Exit(t) => Now(t, State("gone", task[t].left, 0, 0))
    BY GotoNow DEF Exit
<1>11. QED
    BY <1>1, <1>2, <1>3, <1>4, <1>5, <1>6, <1>7, <1>8, <1>9, <1>10

\* What StartOk does to the task it creates.
LEMMA StartMoves ==
    ASSUME Kinds, TasksFresh, StartOk
    PROVE  /\ sessions \in Tasks /\ task[sessions] = NoTask
           /\ Now(sessions, State("loop", 0, 0, 0))
<1>1. sessions \in Tasks /\ task[sessions] = NoTask
    BY DEF StartOk, TasksFresh
<1>2. task' = [task EXCEPT ![sessions].at = "loop"]
    BY DEF StartOk
<1>3. Now(sessions, State("loop", task[sessions].left, task[sessions].conn, task[sessions].req))
    BY <1>1, <1>2, ExceptNow
<1>4. QED
    BY <1>1, <1>3 DEF NoTask

\* A unit of time passes for every task.
LEMMA TickMoves ==
    ASSUME Kinds, Tick
    PROVE  /\ task' \in [Tasks -> TaskStates]
           /\ \A t \in Tasks :
                task'[t] = State(task[t].at, Less(task[t].left), task[t].conn, task[t].req)
           /\ main' = [main EXCEPT !.left = Less(main.left)]
           /\ main'.at = main.at /\ main'.left = Less(main.left)
<1>1. task' = [t \in Tasks |-> [task[t] EXCEPT !.left = Less(@)]]
    BY DEF Tick
<1>2. ASSUME NEW x \in TaskStates
      PROVE  /\ [x EXCEPT !.left = Less(@)] \in TaskStates
             /\ [x EXCEPT !.left = Less(@)] = State(x.at, Less(x.left), x.conn, x.req)
    <2>1. x.left \in 0 .. BackoffMax /\ Less(x.left) \in 0 .. BackoffMax
        BY DerpAssumption DEF TaskStates, Less
    <2>2. QED
        BY <2>1 DEF TaskStates, State
<1>3. \A t \in Tasks : task[t] \in TaskStates
    BY DEF Kinds, TypeOK
<1>4. main' = [main EXCEPT !.left = Less(main.left)]
    BY DEF Tick
<1>5. main'.at = main.at /\ main'.left = Less(main.left)
    BY <1>4 DEF Kinds, TypeOK
<1>6. QED
    BY <1>1, <1>2, <1>3, <1>4, <1>5

-----------------------------------------------------------------------------
(* Each step keeps the kinds and the fresh tasks *)

\* The changes the receive task makes to the structure.
LEMMA StructureKinds ==
    ASSUME NEW d \in Clients
    PROVE  /\ [d EXCEPT !.failures = 0] \in Clients
           /\ [d EXCEPT !.failures = OneMore(@)] \in Clients
           /\ \A c \in 0 .. MaxConns : [d EXCEPT !.conn = c] \in Clients
           /\ [d EXCEPT !.ready = TRUE, !.failures = 0] \in Clients
           /\ derp_close_connection(d) \in Clients
           /\ [d EXCEPT !.running = FALSE, !.ready = FALSE] \in Clients
<1> USE DerpAssumption DEF Clients
<1>1. [d EXCEPT !.failures = 0] \in Clients
    BY DEF Failures
<1>2. [d EXCEPT !.failures = OneMore(@)] \in Clients
    BY BackoffKind
<1>3. \A c \in 0 .. MaxConns : [d EXCEPT !.conn = c] \in Clients
    OBVIOUS
<1>4. [d EXCEPT !.ready = TRUE, !.failures = 0] \in Clients
    <2>1. 0 \in Failures
        BY DEF Failures
    <2>2. QED
        BY <2>1
<1>5. derp_close_connection(d) \in Clients
    <2>1. 0 \in 0 .. MaxConns
        OBVIOUS
    <2>2. [d EXCEPT !.conn = 0] \in Clients
        BY <2>1
    <2>3. [d EXCEPT !.conn = 0, !.ready = FALSE] \in Clients
        BY <2>1
    <2>4. QED
        BY <2>3 DEF derp_close_connection
<1>6. [d EXCEPT !.running = FALSE, !.ready = FALSE] \in Clients
    OBVIOUS
<1>7. QED
    BY <1>1, <1>2, <1>3, <1>4, <1>5, <1>6

LEMMA FreshStep ==
    ASSUME TasksFresh, NEW t \in Tasks, NEW st, Now(t, st),
           UNCHANGED <<main, sessions>>,
           task[t].at # "none", st.at = "write" <=> st.req # 0
    PROVE  TasksFresh'
<1>1. task'[t] = st /\ \A u \in Tasks \ {t} : task'[u] = task[u]
    BY DEF Now
<1>2. ~(t > sessions) /\ ~(t = sessions /\ main.at \in {"dial", "handshake"})
    BY DEF TasksFresh, NoTask
<1>3. QED
    BY <1>1, <1>2 DEF TasksFresh

LEMMA TaskStepKinds ==
    ASSUME Kinds, TasksFresh, NEW t \in Tasks, Step(t)
    PROVE  Kinds' /\ TasksFresh'
<1> USE DerpAssumption
<1>1. CASE Loop(t)
    <2>1. Kinds'
        <3>1. task' \in [Tasks -> TaskStates]
            BY <1>1, TaskMoves DEF Now
        <3>2. QED
            BY <1>1, <3>1 DEF Loop, Kinds, TypeOK, Untouched
    <2>2. TasksFresh'
        BY <1>1, FreshStep, TaskMoves DEF Loop, Untouched, State, TasksFresh
    <2>3. QED
        BY <2>1, <2>2
<1>2. CASE Dequeue(t)
    <2>1. Kinds'
        <3>1. task' \in [Tasks -> TaskStates]
            BY <1>2, TaskMoves DEF Now
        <3>2. queue' \in Seq(Requests) /\ Len(queue') <= QueueDepth
            BY <1>2, TailOf DEF Dequeue, Kinds, TypeOK
        <3>3. QED
            BY <1>2, <3>1, <3>2 DEF Dequeue, Kinds, TypeOK, Untouched
    <2>2. TasksFresh'
        <3>1. Head(queue) # 0
            BY <1>2, TailOf DEF Dequeue, Kinds, TypeOK, Requests
        <3>2. QED
            BY <1>2, <3>1, FreshStep, TaskMoves DEF Dequeue, Untouched, State
    <2>3. QED
        BY <2>1, <2>2
<1>3. CASE Written(t)
    <2>1. Kinds'
        <3>1. task' \in [Tasks -> TaskStates]
            BY <1>3, TaskMoves DEF Now
        <3>2. PICK c \in Conns : wire' = [wire EXCEPT ![c] = Append(@, task[t].req)]
            BY <1>3 DEF Written, Kinds, TypeOK, Reached
        <3>3. wire[c] \in Seq(Requests) /\ task[t].req \in Requests
            BY <1>3, <3>2 DEF Written, Kinds, TypeOK, TasksFresh, TaskStates, Requests
        <3>4. wire' \in [Conns -> Seq(Requests)]
            BY <3>2, <3>3, AppendOf DEF Kinds, TypeOK
        <3>5. QED
            BY <1>3, <3>1, <3>4 DEF Written, Kinds, TypeOK, Untouched
    <2>2. TasksFresh'
        BY <1>3, FreshStep, TaskMoves DEF Written, Untouched, State, TasksFresh
    <2>3. QED
        BY <2>1, <2>2
<1>4. CASE WriteFailed(t)
    <2>1. Kinds'
        <3>1. task' \in [Tasks -> TaskStates]
            BY <1>4, TaskMoves DEF Now
        <3>2. task[t].req \in Requests
            BY <1>4 DEF WriteFailed, Kinds, TypeOK, TasksFresh, TaskStates, Requests
        <3>3. QED
            BY <1>4, <3>1, <3>2 DEF WriteFailed, Kinds, TypeOK, Untouched
    <2>2. TasksFresh'
        BY <1>4, FreshStep, TaskMoves DEF WriteFailed, Untouched, State, TasksFresh
    <2>3. QED
        BY <2>1, <2>2
<1>5. CASE Poll(t)
    <2>1. Kinds'
        BY <1>5, TaskMoves DEF Poll, Kinds, TypeOK, Now, Untouched
    <2>2. TasksFresh'
        BY <1>5, FreshStep, TaskMoves DEF Poll, Untouched, State, TasksFresh
    <2>3. QED
        BY <2>1, <2>2
<1>6. CASE ReadDone(t)
    <2>1. Kinds'
        <3>1. task' \in [Tasks -> TaskStates]
            BY <1>6, TaskMoves DEF Now
        <3>2. dc' \in Clients
            BY <1>6, StructureKinds DEF ReadDone, Kinds, TypeOK
        <3>3. conns' \in 0 .. MaxConns /\ open' \subseteq Conns
            BY <1>6 DEF ReadDone, Kinds, TypeOK, Untouched, Conns
        <3>4. QED
            BY <1>6, <3>1, <3>2, <3>3 DEF ReadDone, Kinds, TypeOK, Untouched
    <2>2. TasksFresh'
        BY <1>6, FreshStep, TaskMoves DEF ReadDone, Untouched, State, TasksFresh
    <2>3. QED
        BY <2>1, <2>2
<1>7. CASE ReadBroken(t)
    <2>1. Kinds'
        <3>1. task' \in [Tasks -> TaskStates]
            BY <1>7, TaskMoves DEF Now
        <3>2. dc' \in Clients
            BY <1>7, StructureKinds DEF ReadBroken, Kinds, TypeOK
        <3>3. conns' \in 0 .. MaxConns /\ open' \subseteq Conns
            BY <1>7 DEF ReadBroken, Kinds, TypeOK, Untouched, Conns, derp_close_connection
        <3>4. QED
            BY <1>7, <3>1, <3>2, <3>3 DEF ReadBroken, Kinds, TypeOK, Untouched
    <2>2. TasksFresh'
        BY <1>7, FreshStep, TaskMoves DEF ReadBroken, Untouched, State, TasksFresh
    <2>3. QED
        BY <2>1, <2>2
<1>8. CASE BeginBackoff(t)
    <2>1. Kinds'
        <3>1. task' \in [Tasks -> TaskStates]
            BY <1>8, TaskMoves DEF Now
        <3>2. dc' \in Clients
            BY <1>8, StructureKinds DEF BeginBackoff, Kinds, TypeOK
        <3>3. conns' \in 0 .. MaxConns /\ open' \subseteq Conns
            BY <1>8 DEF BeginBackoff, Kinds, TypeOK, Untouched, Conns
        <3>4. QED
            BY <1>8, <3>1, <3>2, <3>3 DEF BeginBackoff, Kinds, TypeOK, Untouched
    <2>2. TasksFresh'
        <3>1. task[t].req = 0 /\ task[t].at = "reconnect" /\ UNCHANGED <<main, sessions>>
            BY <1>8 DEF BeginBackoff, Untouched, TasksFresh
        <3>2. CASE dc.running
            <4>1. Now(t, State("delay", Backoff(OneMore(dc.failures)), task[t].conn, 0))
                BY <1>8, <3>1, <3>2, TaskMoves
            <4>2. QED
                BY <3>1, <4>1, FreshStep DEF State
        <3>3. CASE ~dc.running
            <4>1. Now(t, State("done", task[t].left, 0, 0))
                BY <1>8, <3>3, TaskMoves
            <4>2. QED
                BY <3>1, <4>1, FreshStep DEF State
        <3>4. QED
            BY <3>2, <3>3
    <2>3. QED
        BY <2>1, <2>2
<1>9. CASE EndBackoff(t)
    <2>1. Kinds'
        BY <1>9, TaskMoves DEF EndBackoff, Kinds, TypeOK, Now, Untouched
    <2>2. TasksFresh'
        <3>1. task[t].at = "delay" /\ UNCHANGED <<main, sessions>>
            BY <1>9 DEF EndBackoff, Untouched
        <3>2. Now(t, State(IF dc.running THEN "dial" ELSE "done", task[t].left, 0, 0))
            BY <1>9, TaskMoves
        <3>3. QED
            BY <3>1, <3>2, FreshStep DEF State
    <2>3. QED
        BY <2>1, <2>2
<1>10. CASE Dialled(t)
    <2>1. Kinds'
        <3>1. task' \in [Tasks -> TaskStates]
            BY <1>10, TaskMoves DEF Now
        <3>2. dc' \in Clients
            <4>1. Opened \in 0 .. MaxConns
                BY <1>10 DEF Dialled, Kinds, TypeOK, Opened
            <4>2. QED
                BY <1>10, <4>1, StructureKinds DEF Dialled, Kinds, TypeOK
        <3>3. conns' \in 0 .. MaxConns /\ open' \subseteq Conns
            BY <1>10 DEF Dialled, Kinds, TypeOK, Untouched, Conns, Opened
        <3>4. QED
            BY <1>10, <3>1, <3>2, <3>3 DEF Dialled, Kinds, TypeOK, Untouched
    <2>2. TasksFresh'
        BY <1>10, FreshStep, TaskMoves DEF Dialled, Untouched, State, TasksFresh
    <2>3. QED
        BY <2>1, <2>2
<1>11. CASE Reconnected(t)
    <2>1. Kinds'
        <3>1. task' \in [Tasks -> TaskStates]
            BY <1>11, TaskMoves DEF Now
        <3>2. dc' \in Clients
            BY <1>11, StructureKinds DEF Reconnected, Kinds, TypeOK
        <3>3. QED
            BY <1>11, <3>1, <3>2 DEF Reconnected, Kinds, TypeOK, Untouched
    <2>2. TasksFresh'
        BY <1>11, FreshStep, TaskMoves DEF Reconnected, Untouched, State, TasksFresh
    <2>3. QED
        BY <2>1, <2>2
<1>12. CASE ReconnectFailed(t)
    <2>1. Kinds'
        <3>1. task' \in [Tasks -> TaskStates]
            BY <1>12, TaskMoves DEF Now
        <3>2. dc' \in Clients
            <4>1. dc \in Clients /\ 0 \in 0 .. MaxConns
                BY DEF Kinds, TypeOK
            <4>2. dc' \in {dc, [dc EXCEPT !.conn = 0], derp_close_connection(dc)}
                BY <1>12 DEF ReconnectFailed, Undialled
            <4>3. QED
                BY <4>1, <4>2, StructureKinds
        <3>3. conns' \in 0 .. MaxConns /\ open' \subseteq Conns
            BY <1>12 DEF ReconnectFailed, Undialled, Kinds, TypeOK, Untouched, Conns
        <3>4. QED
            BY <1>12, <3>1, <3>2, <3>3 DEF ReconnectFailed, Kinds, TypeOK, Untouched
    <2>2. TasksFresh'
        BY <1>12, FreshStep, TaskMoves DEF ReconnectFailed, Untouched, State, TasksFresh
    <2>3. QED
        BY <2>1, <2>2
<1>13. CASE Exit(t)
    <2>1. Kinds'
        <3>1. task' \in [Tasks -> TaskStates]
            BY <1>13, TaskMoves DEF Now
        <3>2. dc' \in Clients
            BY <1>13, StructureKinds DEF Exit, Kinds, TypeOK
        <3>3. QED
            BY <1>13, <3>1, <3>2 DEF Exit, Kinds, TypeOK, Untouched
    <2>2. TasksFresh'
        BY <1>13, FreshStep, TaskMoves DEF Exit, Untouched, State, TasksFresh
    <2>3. QED
        BY <2>1, <2>2
<1>14. QED
    BY <1>1, <1>2, <1>3, <1>4, <1>5, <1>6, <1>7, <1>8, <1>9, <1>10, <1>11, <1>12, <1>13 DEF Step

\* The changes the main task makes to the structure and to its own place.
LEMMA MainKinds ==
    ASSUME Kinds
    PROVE  /\ derp_init \in Clients
           /\ [dc EXCEPT !.ready = TRUE, !.running = TRUE, !.queue = TRUE, !.handle = TRUE]
                \in Clients
           /\ [dc EXCEPT !.running = FALSE] \in Clients
           /\ [derp_close_connection(dc) EXCEPT !.handle = FALSE, !.queue = FALSE] \in Clients
<1>1. dc \in Clients /\ derp_close_connection(dc) \in Clients
    BY StructureKinds DEF Kinds, TypeOK
<1>2. derp_init \in Clients
    BY DerpAssumption DEF derp_init, Clients, Failures
<1>3. \A d \in Clients :
        /\ [d EXCEPT !.ready = TRUE, !.running = TRUE, !.queue = TRUE, !.handle = TRUE]
             \in Clients
        /\ [d EXCEPT !.running = FALSE] \in Clients
        /\ [d EXCEPT !.handle = FALSE, !.queue = FALSE] \in Clients
    BY DEF Clients
<1>4. QED
    BY <1>1, <1>2, <1>3

Positions == [at : {"down", "dial", "handshake", "up", "closing"}, left : Delays]

LEMMA MainMoves ==
    ASSUME Kinds
    PROVE  /\ \A pc \in {"dial", "handshake", "up", "closing"} : [main EXCEPT !.at = pc] \in Positions
           /\ \A pc \in {"down", "closing"}, l \in Delays :
                [main EXCEPT !.at = pc, !.left = l] \in Positions
           /\ \A l \in Delays : [main EXCEPT !.left = l] \in Positions
<1>1. main \in Positions
    BY DEF Kinds, TypeOK, Positions
<1>2. QED
    BY <1>1 DEF Positions

LEMMA DelayKinds ==
    /\ 0 \in Delays /\ CloseWait \in Delays /\ RetryDelay \in Delays
    /\ \A l \in Delays : l \in Nat /\ Less(l) \in Delays
BY DerpAssumption DEF Delays, Less

LEMMA MainStepKinds ==
    ASSUME Kinds, TasksFresh,
           \/ StartInit \/ StartTls \/ StartOk \/ StartFail \/ CloseBegin \/ CloseEnd
           \/ Send \/ Tick
    PROVE  Kinds' /\ TasksFresh'
<1> USE DerpAssumption
<1>0. main \in Positions /\ dc \in Clients /\ 0 \in 0 .. MaxConns
    BY DEF Kinds, TypeOK, Positions
<1>1. CASE StartInit
    <2>1. main' \in Positions /\ dc' \in Clients
        BY <1>1, MainMoves, MainKinds DEF StartInit
    <2>2. Kinds'
        BY <1>1, <2>1 DEF StartInit, Unstarted, Kinds, TypeOK, Positions
    <2>3. TasksFresh'
        BY <1>1 DEF StartInit, Unstarted, TasksFresh, Tasks, Kinds, TypeOK
    <2>4. QED
        BY <2>2, <2>3
<1>2. CASE StartTls
    <2>1. Opened \in 0 .. MaxConns /\ Opened \in Conns
        BY <1>2 DEF StartTls, Opened, Kinds, TypeOK, Conns
    <2>2. main' \in Positions /\ dc' \in Clients
        BY <1>0, <1>2, <2>1, MainMoves, StructureKinds DEF StartTls
    <2>3. Kinds'
        BY <1>2, <2>1, <2>2 DEF StartTls, Unstarted, Kinds, TypeOK, Positions
    <2>4. main'.at = "handshake"
        BY <1>0, <1>2 DEF StartTls, Positions
    <2>5. TasksFresh'
        BY <1>2, <2>4 DEF StartTls, Unstarted, TasksFresh
    <2>6. QED
        BY <2>3, <2>5
<1>3. CASE StartOk
    <2>1. main' \in Positions /\ dc' \in Clients
        BY <1>0, <1>3, MainMoves, MainKinds DEF StartOk
    <2>2. task' \in [Tasks -> TaskStates]
        BY <1>3, StartMoves DEF Now
    <2>3. Kinds'
        BY <1>3, <2>1, <2>2 DEF StartOk, Kinds, TypeOK, Positions
    <2>4. main'.at = "up"
        BY <1>0, <1>3 DEF StartOk, Positions
    <2>5. TasksFresh'
        <3>1. sessions' = sessions /\ sessions \in Tasks
            BY <1>3, StartMoves DEF StartOk
        <3>2. task'[sessions] = State("loop", 0, 0, 0)
              /\ \A u \in Tasks \ {sessions} : task'[u] = task[u]
            BY <1>3, StartMoves DEF Now
        <3>3. QED
            BY <2>4, <3>1, <3>2 DEF TasksFresh, State, Tasks, Kinds, TypeOK
    <2>6. QED
        BY <2>3, <2>5
<1>4. CASE StartFail
    <2>1. main' \in Positions /\ dc' \in Clients
        BY <1>0, <1>4, MainMoves, StructureKinds DEF StartFail, Undialled
    <2>2. Kinds'
        BY <1>4, <2>1 DEF StartFail, Undialled, Unstarted, Kinds, TypeOK, Positions
    <2>3. main'.at = "up"
        BY <1>0, <1>4 DEF StartFail, Positions
    <2>4. TasksFresh'
        BY <1>4, <2>3 DEF StartFail, Unstarted, TasksFresh
    <2>5. QED
        BY <2>2, <2>4
<1>5. CASE CloseBegin
    <2>1. main' \in Positions /\ dc' \in Clients
        BY <1>5, MainMoves, MainKinds, DelayKinds DEF CloseBegin
    <2>2. Kinds'
        BY <1>5, <2>1 DEF CloseBegin, Unstarted, Kinds, TypeOK, Positions
    <2>3. main'.at = "closing"
        BY <1>0, <1>5 DEF CloseBegin, Positions
    <2>4. TasksFresh'
        BY <1>5, <2>3 DEF CloseBegin, Unstarted, TasksFresh
    <2>5. QED
        BY <2>2, <2>4
<1>6. CASE CloseEnd
    <2>1. main' \in Positions /\ dc' \in Clients
        BY <1>6, MainMoves, MainKinds, DelayKinds DEF CloseEnd
    <2>2. lost' \subseteq Requests
        BY <1>6 DEF CloseEnd, Kinds, TypeOK
    <2>3. Kinds'
        BY <1>6, <2>1, <2>2 DEF CloseEnd, Kinds, TypeOK, Positions
    <2>4. main'.at = "down"
        BY <1>0, <1>6 DEF CloseEnd, Positions
    <2>5. TasksFresh'
        BY <1>6, <2>4 DEF CloseEnd, TasksFresh
    <2>6. QED
        BY <2>3, <2>5
<1>7. CASE Send
    <2>1. ASSUME SendEnqueue, Len(queue) < QueueDepth
          PROVE  Len(queue') <= QueueDepth /\ queue' \in Seq(Requests) /\ accepted' \in 0 .. MaxSends
        <3>1. accepted + 1 \in Requests /\ accepted + 1 \in 0 .. MaxSends
            BY <2>1 DEF SendEnqueue, Kinds, TypeOK, Requests
        <3>2. queue \in Seq(Requests)
            BY DEF Kinds, TypeOK
        <3>3. queue' = Append(queue, accepted + 1) /\ accepted' = accepted + 1
            BY <2>1 DEF SendEnqueue
        <3>4. Len(Append(queue, accepted + 1)) = Len(queue) + 1 /\ Len(queue) \in Nat
              /\ Append(queue, accepted + 1) \in Seq(Requests)
            BY <3>1, <3>2, AppendOf
        <3>5. QED
            BY <2>1, <3>1, <3>3, <3>4
    <2>2. Kinds'
        BY <1>7, <2>1 DEF Send, SendCheck, SendEnqueue, SendOnFreed, Kinds, TypeOK
    <2>3. TasksFresh'
        BY <1>7 DEF Send, SendCheck, SendEnqueue, SendOnFreed, TasksFresh
    <2>4. QED
        BY <2>2, <2>3
<1>8. CASE Tick
    <2>1. main' \in Positions
        BY <1>0, <1>8, MainMoves, TickMoves, DelayKinds DEF Positions
    <2>2. Kinds'
        BY <1>8, <2>1, TickMoves DEF Tick, Kinds, TypeOK, Positions
    <2>3. UNCHANGED sessions /\ main'.at = main.at
        BY <1>8, TickMoves DEF Tick
    <2>4. \A t \in Tasks : /\ task'[t].at = task[t].at /\ task'[t].req = task[t].req
                           /\ task[t] = NoTask => task'[t] = NoTask
        BY <1>8, TickMoves DEF State, NoTask, Less
    <2>5. TasksFresh'
        BY <2>3, <2>4 DEF TasksFresh
    <2>6. QED
        BY <2>2, <2>5
<1>9. QED
    BY <1>1, <1>2, <1>3, <1>4, <1>5, <1>6, <1>7, <1>8

LEMMA KindsStep ==
    ASSUME Kinds, TasksFresh, [Next]_vars
    PROVE  Kinds' /\ TasksFresh'
<1>1. CASE UNCHANGED vars \/ Rest
    BY <1>1 DEF vars, Rest, Kinds, TypeOK, TasksFresh
<1>2. QED
    BY <1>1, MainStepKinds, TaskStepKinds DEF Next

-----------------------------------------------------------------------------
(* Each step keeps the accounting *)

\* What the steps that move a request rest on.
LEMMA SameAccounting ==
    ASSUME Accounting, UNCHANGED <<queue, wire, lost, accepted>>,
           \A t \in Tasks : task'[t].req = task[t].req
    PROVE  Accounting'
<1>1. Queued' = Queued /\ Sent' = Sent
    BY DEF Queued, Sent
<1>2. Carried' = Carried
    BY DEF Carried
<1>3. QED
    BY <1>1, <1>2 DEF Accounting

LEMMA DequeueAccounting ==
    ASSUME Kinds, TasksFresh, Accounting, NEW t \in Tasks, Dequeue(t)
    PROVE  Accounting'
<1> DEFINE r == Head(queue)
<1>1. /\ queue \in Seq(Requests) /\ queue # <<>> /\ queue' = Tail(queue)
      /\ UNCHANGED <<wire, lost, accepted>>
    BY DEF Dequeue, Kinds, TypeOK
<1>2. /\ task'[t].req = r /\ task[t].req = 0
      /\ \A u \in Tasks \ {t} : task'[u] = task[u]
    <2>1. Now(t, State("write", task[t].left, dc.conn, Head(queue)))
        BY TaskMoves
    <2>2. task[t].req = 0
        BY DEF TasksFresh, Dequeue
    <2>3. QED
        BY <2>1, <2>2 DEF Now, State
<1>3. r \in Queued /\ r # 0
    BY <1>1, TailValues, TailOf DEF Queued, Requests, Accounting
<1>4. Queued' = Queued \ {r}
    BY <1>1, TailValues DEF Queued, Accounting
<1>5. Carried' = Carried \cup {r}
    BY <1>2, <1>3 DEF Carried
<1>6. Sent' = Sent
    BY <1>1 DEF Sent
<1>7. \A i, j \in DOMAIN queue' : queue'[i] = queue'[j] => i = j
    BY <1>1, TailValues DEF Accounting
<1>8. \A u, w \in Tasks : task'[u].req = task'[w].req /\ task'[u].req # 0 => u = w
    <2>1. \A u \in Tasks : task[u].req # r
        BY <1>3 DEF Accounting, Carried
    <2>2. QED
        BY <1>2, <2>1 DEF Accounting
<1> HIDE DEF r
<1>9. QED
    BY <1>1, <1>3, <1>4, <1>5, <1>6, <1>7, <1>8 DEF Accounting

\* The request leaves the hands of task t.
LEMMA Released ==
    ASSUME Kinds, TasksFresh, Accounting, NEW t \in Tasks, Written(t) \/ WriteFailed(t)
    PROVE  /\ task[t].req \in Carried /\ task[t].req \in Requests
           /\ Carried' = Carried \ {task[t].req}
           /\ \A u, w \in Tasks :
                task'[u].req = task'[w].req /\ task'[u].req # 0 => u = w
<1>1. task[t].req # 0 /\ task[t].req \in Requests
    BY DEF Written, WriteFailed, TasksFresh, Kinds, TypeOK, TaskStates, Requests
<1>2. /\ task'[t].req = 0
      /\ \A u \in Tasks \ {t} : task'[u] = task[u]
    <2>1. Now(t, State("drain", task[t].left, 0, 0))
        BY TaskMoves
    <2>2. QED
        BY <2>1 DEF Now, State
<1>3. \A u \in Tasks \ {t} : task[u].req # task[t].req
    BY <1>1 DEF Accounting
<1>4. QED
    BY <1>1, <1>2, <1>3 DEF Carried, Accounting

LEMMA WrittenAccounting ==
    ASSUME Kinds, TasksFresh, Accounting, NEW t \in Tasks, Written(t)
    PROVE  Accounting'
<1> DEFINE r == task[t].req
<1>0. PICK c \in Reached(t) : wire' = [wire EXCEPT ![c] = Append(@, task[t].req)]
    BY DEF Written
<1>1. /\ c \in Conns /\ wire \in [Conns -> Seq(Requests)] /\ wire[c] \in Seq(Requests)
      /\ wire' = [wire EXCEPT ![c] = Append(wire[c], r)]
      /\ UNCHANGED <<queue, lost, accepted>>
    BY <1>0 DEF Written, Kinds, TypeOK, Reached
<1>2. r \in Carried /\ r \in Requests /\ Carried' = Carried \ {r}
    BY Released
<1>3. Queued' = Queued
    BY <1>1 DEF Queued
<1> HIDE DEF r
<1>4. /\ wire'[c] = Append(wire[c], r)
      /\ \A d \in Conns \ {c} : wire'[d] = wire[d]
    BY <1>1
<1>5. Sent' = Sent \cup {r}
    <2>1. Values(wire'[c]) = Values(wire[c]) \cup {r}
        BY <1>1, <1>2, <1>4, AppendValues
    <2>2. QED
        BY <1>1, <1>4, <2>1 DEF Sent
<1>6. r \notin Sent
    BY <1>2 DEF Accounting
<1>7. ASSUME NEW d \in Conns, NEW e \in Conns,
             NEW i \in DOMAIN wire'[d], NEW j \in DOMAIN wire'[e], wire'[d][i] = wire'[e][j]
      PROVE  d = e /\ i = j
    <2>1. /\ DOMAIN wire[c] = 1 .. Len(wire[c]) /\ Len(wire[c]) \in Nat
          /\ DOMAIN wire'[c] = 1 .. Len(wire[c]) + 1
          /\ \A k \in DOMAIN wire[c] : wire'[c][k] = wire[c][k]
          /\ wire'[c][Len(wire[c]) + 1] = r
        BY <1>1, <1>2, <1>4, AppendOf
    <2>2. \A f \in Conns : \A k \in DOMAIN wire[f] : wire[f][k] # r
        BY <1>6 DEF Sent, Values
    <2>3. ASSUME NEW f \in Conns, NEW k \in DOMAIN wire'[f]
          PROVE  \/ wire'[f][k] # r /\ k \in DOMAIN wire[f] /\ wire'[f][k] = wire[f][k]
                 \/ wire'[f][k] = r /\ f = c /\ k = Len(wire[c]) + 1
        BY <1>4, <2>1, <2>2
    <2>4. CASE wire'[d][i] = r
        BY <1>7, <2>3, <2>4
    <2>5. CASE wire'[d][i] # r
        <3>1. /\ i \in DOMAIN wire[d] /\ wire'[d][i] = wire[d][i]
              /\ j \in DOMAIN wire[e] /\ wire'[e][j] = wire[e][j]
            BY <1>7, <2>3, <2>5
        <3>2. wire[d][i] = wire[e][j]
            BY <1>7, <3>1
        <3>3. QED
            BY <3>1, <3>2 DEF Accounting
    <2>6. QED
        BY <2>4, <2>5
<1>8. \A u, w \in Tasks : task'[u].req = task'[w].req /\ task'[u].req # 0 => u = w
    BY Released
<1>9. QED
    BY <1>1, <1>2, <1>3, <1>5, <1>7, <1>8 DEF Accounting

LEMMA WriteFailedAccounting ==
    ASSUME Kinds, TasksFresh, Accounting, NEW t \in Tasks, WriteFailed(t)
    PROVE  Accounting'
<1> DEFINE r == task[t].req
<1>1. lost' = lost \cup {r} /\ UNCHANGED <<queue, wire, accepted>>
    BY DEF WriteFailed
<1>2. r \in Carried /\ Carried' = Carried \ {r}
    BY Released
<1>3. Queued' = Queued /\ Sent' = Sent
    BY <1>1 DEF Queued, Sent
<1>4. \A u, w \in Tasks : task'[u].req = task'[w].req /\ task'[u].req # 0 => u = w
    BY Released
<1> HIDE DEF r
<1>5. QED
    BY <1>1, <1>2, <1>3, <1>4 DEF Accounting

LEMMA CloseEndAccounting ==
    ASSUME Kinds, Accounting, CloseEnd
    PROVE  Accounting'
<1>1. /\ lost' = lost \cup Queued /\ queue' = <<>>
      /\ UNCHANGED <<task, wire, accepted>>
    BY DEF CloseEnd, Queued, Values
<1>2. Queued' = {}
    BY <1>1 DEF Queued, Values
<1>3. Carried' = Carried /\ Sent' = Sent
    BY <1>1 DEF Carried, Sent
<1>4. QED
    BY <1>1, <1>2, <1>3 DEF Accounting

LEMMA EnqueueAccounting ==
    ASSUME Kinds, Accounting, SendEnqueue
    PROVE  Accounting'
<1> DEFINE r == accepted + 1
<1>0. UNCHANGED <<task, wire, lost>>
    BY DEF SendEnqueue
<1>1. CASE UNCHANGED <<queue, accepted>>
    BY <1>0, <1>1, SameAccounting
<1>2. CASE queue' = Append(queue, r) /\ accepted' = r
    <2>1. queue \in Seq(Requests) /\ r \in Requests /\ accepted \in Nat
        BY DerpAssumption DEF Kinds, TypeOK, Requests, SendEnqueue
    <2>2. Queued' = Queued \cup {r}
        BY <1>2, <2>1, AppendValues DEF Queued
    <2>3. Carried' = Carried /\ Sent' = Sent
        BY <1>0 DEF Carried, Sent
    <2>4. r \notin 1 .. accepted /\ 1 .. accepted' = 1 .. accepted \cup {r}
        BY <1>2, <2>1
    <2>5. \A i, j \in DOMAIN queue' : queue'[i] = queue'[j] => i = j
        <3>1. /\ DOMAIN queue = 1 .. Len(queue) /\ Len(queue) \in Nat
              /\ DOMAIN queue' = 1 .. Len(queue) + 1
              /\ \A i \in DOMAIN queue : queue'[i] = queue[i]
              /\ queue'[Len(queue) + 1] = r
            BY <1>2, <2>1, AppendOf
        <3>2. \A i \in DOMAIN queue : queue[i] # r
            BY <2>4 DEF Accounting, Queued, Values
        <3>3. QED
            BY <3>1, <3>2 DEF Accounting
    <2> HIDE DEF r
    <2>6. QED
        BY <1>0, <2>2, <2>3, <2>4, <2>5 DEF Accounting
<1>3. QED
    BY <1>1, <1>2 DEF SendEnqueue

LEMMA AccountStep == AccountInv /\ [Next]_vars => AccountInv'
<1> SUFFICES ASSUME AccountInv, [Next]_vars
             PROVE  AccountInv'
    OBVIOUS
<1> USE DEF AccountInv
<1>1. SUFFICES Accounting'
    BY KindsStep
<1>2. ASSUME UNCHANGED <<queue, wire, lost, accepted, task>>
      PROVE  Accounting'
    BY <1>2, SameAccounting
<1>3. CASE StartInit \/ StartTls \/ StartFail \/ CloseBegin
    BY <1>2, <1>3 DEF StartInit, StartTls, StartFail, CloseBegin, Unstarted
<1>4. CASE StartOk
    <2>1. \A t \in Tasks : task'[t].req = task[t].req
        BY <1>4, StartMoves DEF Now, State, NoTask
    <2>2. QED
        BY <1>4, <2>1, SameAccounting DEF StartOk
<1>5. CASE Tick
    <2>1. \A t \in Tasks : task'[t].req = task[t].req
        BY <1>5, TickMoves DEF State
    <2>2. QED
        BY <1>5, <2>1, SameAccounting DEF Tick
<1>6. ASSUME NEW t \in Tasks, Step(t)
      PROVE  Accounting'
    <2>1. CASE Dequeue(t)
        BY <2>1, DequeueAccounting
    <2>2. CASE Written(t)
        BY <2>2, WrittenAccounting
    <2>3. CASE WriteFailed(t)
        BY <2>3, WriteFailedAccounting
    <2>4. ASSUME NEW st, Now(t, st), st.req = 0 \/ st.req = task[t].req, task[t].at # "write",
                 UNCHANGED <<queue, wire, lost, accepted>>
          PROVE  Accounting'
        <3>1. \A u \in Tasks : task'[u].req = task[u].req
            BY <2>4 DEF Now, TasksFresh
        <3>2. QED
            BY <2>4, <3>1, SameAccounting
    <2>5. CASE Loop(t)
        BY <2>4, <2>5, TaskMoves DEF Loop, State
    <2>6. CASE Poll(t)
        BY <2>4, <2>6, TaskMoves DEF Poll, State
    <2>7. CASE ReadDone(t) \/ Reconnected(t)
        BY <2>4, <2>7, TaskMoves DEF ReadDone, Reconnected, State
    <2>8. CASE ReadBroken(t) \/ ReconnectFailed(t)
        BY <2>4, <2>8, TaskMoves DEF ReadBroken, ReconnectFailed, State
    <2>9. CASE BeginBackoff(t)
        <3>1. task[t].at # "write" /\ UNCHANGED <<queue, wire, lost, accepted>>
            BY <2>9 DEF BeginBackoff
        <3>2. CASE dc.running
            BY <2>4, <2>9, <3>1, <3>2, TaskMoves DEF State
        <3>3. CASE ~dc.running
            BY <2>4, <2>9, <3>1, <3>3, TaskMoves DEF State
        <3>4. QED
            BY <3>2, <3>3
    <2>10. CASE EndBackoff(t)
        BY <2>4, <2>10, TaskMoves DEF EndBackoff, State
    <2>11. CASE Dialled(t)
        BY <2>4, <2>11, TaskMoves DEF Dialled, State
    <2>12. CASE Exit(t)
        BY <2>4, <2>12, TaskMoves DEF Exit, State
    <2>13. QED
        BY <1>6, <2>1, <2>2, <2>3, <2>5, <2>6, <2>7, <2>8, <2>9, <2>10, <2>11, <2>12 DEF Step
<1>7. CASE CloseEnd
    BY <1>7, CloseEndAccounting
<1>8. CASE Send
    BY <1>2, <1>8, EnqueueAccounting DEF Send, SendCheck, SendOnFreed
<1>9. CASE Rest \/ UNCHANGED vars
    BY <1>2, <1>9 DEF Rest, vars
<1>10. QED
    BY <1>3, <1>4, <1>5, <1>6, <1>7, <1>8, <1>9 DEF Next

\* The division of the accepted requests is what Accounted counts.
LEMMA OnePlace == AccountInv => Accounted
<1> SUFFICES ASSUME AccountInv, NEW r \in 1 .. accepted
             PROVE  Cardinality(Places(r)) = 1
    BY DEF Accounted
<1> USE DEF AccountInv
<1>1. r # 0
    OBVIOUS
<1>2. ASSUME NEW p, Places(r) = {p}
      PROVE  Cardinality(Places(r)) = 1
    BY <1>2, FS_Singleton
<1>3. /\ r \in Queued <=> \E i \in DOMAIN queue : queue[i] = r
      /\ r \in Carried <=> \E t \in Tasks : task[t].req = r
      /\ r \in Sent <=> \E c \in Conns : \E i \in DOMAIN wire[c] : wire[c][i] = r
    BY <1>1 DEF Queued, Carried, Sent, Values
<1>4. \/ r \in Queued /\ r \notin Carried /\ r \notin Sent /\ r \notin lost
      \/ r \notin Queued /\ r \in Carried /\ r \notin Sent /\ r \notin lost
      \/ r \notin Queued /\ r \notin Carried /\ r \in Sent /\ r \notin lost
      \/ r \notin Queued /\ r \notin Carried /\ r \notin Sent /\ r \in lost
    BY DEF Accounting
<1>5. CASE r \in Queued /\ r \notin Carried /\ r \notin Sent /\ r \notin lost
    <2>1. PICK i \in DOMAIN queue : queue[i] = r
        BY <1>3, <1>5
    <2>2. \A j \in DOMAIN queue : queue[j] = r => j = i
        BY <2>1 DEF Accounting
    <2>3. Places(r) = {<<"queue", 0, i>>}
        BY <1>3, <1>5, <2>1, <2>2 DEF Places
    <2>4. QED
        BY <1>2, <2>3
<1>6. CASE r \notin Queued /\ r \in Carried /\ r \notin Sent /\ r \notin lost
    <2>1. PICK t \in Tasks : task[t].req = r
        BY <1>3, <1>6
    <2>2. \A u \in Tasks : task[u].req = r => u = t
        BY <1>1, <2>1 DEF Accounting
    <2>3. Places(r) = {<<"task", t, 0>>}
        BY <1>3, <1>6, <2>1, <2>2 DEF Places
    <2>4. QED
        BY <1>2, <2>3
<1>7. CASE r \notin Queued /\ r \notin Carried /\ r \in Sent /\ r \notin lost
    <2>0. PICK c \in Conns : \E i \in DOMAIN wire[c] : wire[c][i] = r
        BY <1>3, <1>7
    <2>1. PICK i \in DOMAIN wire[c] : wire[c][i] = r
        BY <2>0
    <2>2. \A d \in Conns : \A j \in DOMAIN wire[d] : wire[d][j] = r => d = c /\ j = i
        BY <2>1 DEF Accounting
    <2>3. Places(r) = {<<"wire", c, i>>}
        BY <1>3, <1>7, <2>1, <2>2 DEF Places
    <2>4. QED
        BY <1>2, <2>3
<1>8. CASE r \notin Queued /\ r \notin Carried /\ r \notin Sent /\ r \in lost
    <2>1. /\ {j \in DOMAIN queue : queue[j] = r} = {}
          /\ {u \in Tasks : task[u].req = r} = {}
          /\ \A c \in Conns : {j \in DOMAIN wire[c] : wire[c][j] = r} = {}
        BY <1>3, <1>8
    <2>2. \A p \in Places(r) : p = <<"lost", 0, 0>>
        BY <2>1 DEF Places
    <2>3. <<"lost", 0, 0>> \in Places(r)
        BY <1>8 DEF Places
    <2>4. Places(r) = {<<"lost", 0, 0>>}
        BY <2>2, <2>3
    <2>5. QED
        BY <1>2, <2>4
<1>9. QED
    BY <1>4, <1>5, <1>6, <1>7, <1>8

\* The inductive invariant, whatever the server does.
THEOREM DerpAccountInv == Spec => []AccountInv
<1>1. AccountInv /\ [Next]_vars => AccountInv'
    BY AccountStep
<1>2. QED
    BY <1>1, InitAccount, PTL DEF Spec

\* A request that derp_send_packet accepted is never written twice, put back
\* behind another, or leaked, however slow the server is and however many
\* receive tasks are left behind by sessions that have closed.
THEOREM RequestsAccounted == Spec => []Accounted
<1>1. AccountInv => Accounted
    BY OnePlace
<1>2. QED
    BY <1>1, DerpAccountInv, PTL

\* Each variable keeps its kind.
THEOREM DerpTypeCorrect == Spec => []TypeOK
<1>1. AccountInv => TypeOK
    BY DEF AccountInv, Kinds
<1>2. QED
    BY <1>1, DerpAccountInv, PTL

-----------------------------------------------------------------------------
(* Until two tasks overlap, packets stay in order *)

LEMMA LatestStep == AccountInv /\ Latest /\ [Next]_vars => Latest'
<1> SUFFICES ASSUME AccountInv, Latest, [Next]_vars
             PROVE  Latest'
    OBVIOUS
<1>0. /\ dc \in Clients /\ conns \in 0 .. MaxConns /\ MaxConns \in Nat
      /\ wire \in [Conns -> Seq(Requests)] /\ open \subseteq Conns
    BY DerpAssumption DEF AccountInv, Kinds, TypeOK
\* The step opens no connection and writes nothing.
<1>1. ASSUME UNCHANGED <<conns, wire>>, dc'.conn \in {0, dc.conn}, open' \subseteq open
      PROVE  Latest'
    BY <1>1 DEF Latest
\* The step opens a connection.
<1>2. ASSUME conns' = Opened, dc' = [dc EXCEPT !.conn = Opened], open' = open \cup {Opened},
             UNCHANGED wire
      PROVE  Latest'
    <2>1. dc'.conn = conns'
        BY <1>0, <1>2 DEF Clients
    <2>2. QED
        BY <1>0, <1>2, <2>1 DEF Latest, Opened, Conns
<1>3. CASE StartInit
    <2>1. dc'.conn = 0 /\ UNCHANGED <<conns, wire, open>>
        BY <1>3 DEF StartInit, Unstarted, derp_init
    <2>2. QED
        BY <1>1, <2>1
<1>4. CASE StartTls
    BY <1>2, <1>4 DEF StartTls, Unstarted
<1>5. CASE StartOk
    <2>1. dc'.conn = dc.conn /\ UNCHANGED <<conns, wire, open>>
        BY <1>0, <1>5 DEF StartOk, Clients
    <2>2. QED
        BY <1>1, <2>1
<1>6. derp_close_connection(dc).conn = 0
    BY <1>0 DEF derp_close_connection, Clients
<1>7. CASE StartFail \/ CloseBegin
    <2>1. dc'.conn \in {0, dc.conn} /\ UNCHANGED <<conns, wire>> /\ open' \subseteq open
        BY <1>0, <1>6, <1>7 DEF StartFail, CloseBegin, Undialled, Unstarted, Clients
    <2>2. QED
        BY <1>1, <2>1
<1>8. CASE CloseEnd
    <2>1. dc'.conn = 0 /\ UNCHANGED <<conns, wire>> /\ open' \subseteq open
        BY <1>0, <1>8 DEF CloseEnd, derp_close_connection, Clients
    <2>2. QED
        BY <1>1, <2>1
<1>9. CASE Send \/ Tick \/ Rest \/ UNCHANGED vars
    BY <1>1, <1>9 DEF Send, SendCheck, SendEnqueue, SendOnFreed, Tick, Rest, vars
<1>10. ASSUME NEW t \in Tasks, Step(t)
       PROVE  Latest'
    <2>1. CASE Written(t)
        <3>1. PICK c \in Reached(t) : wire' = [wire EXCEPT ![c] = Append(@, task[t].req)]
            BY <2>1 DEF Written
        <3>2. c \in 1 .. conns /\ UNCHANGED <<dc, open, conns>>
            BY <2>1 DEF Written, Reached, Latest
        <3>3. \A d \in Conns : d > conns => wire'[d] = wire[d]
            BY <1>0, <3>1, <3>2
        <3>4. QED
            BY <3>2, <3>3 DEF Latest
    <2>2. CASE Dialled(t)
        BY <1>2, <2>2 DEF Dialled
    <2>3. CASE ReadBroken(t) \/ ReconnectFailed(t)
        <3>1. dc'.conn \in {0, dc.conn} /\ UNCHANGED <<conns, wire>> /\ open' \subseteq open
            BY <1>0, <1>6, <2>3 DEF ReadBroken, ReconnectFailed, Undialled, Untouched, Clients
        <3>2. QED
            BY <1>1, <3>1
    <2>4. CASE BeginBackoff(t) \/ ReadDone(t) \/ Reconnected(t) \/ Exit(t)
        <3>1. dc'.conn = dc.conn /\ UNCHANGED <<conns, wire, open>>
            BY <1>0, <2>4 DEF BeginBackoff, ReadDone, Reconnected, Exit, Clients
        <3>2. QED
            BY <1>1, <3>1
    <2>5. CASE Loop(t) \/ Dequeue(t) \/ WriteFailed(t) \/ Poll(t) \/ EndBackoff(t)
        BY <1>1, <2>5 DEF Loop, Dequeue, WriteFailed, Poll, EndBackoff
    <2>6. QED
        BY <1>10, <2>1, <2>2, <2>3, <2>4, <2>5 DEF Step
<1>11. QED
    BY <1>3, <1>4, <1>5, <1>7, <1>8, <1>9, <1>10 DEF Next

\* Only StartOk brings a task to life, and it notes an overlap.
LEMMA OneAliveStep ==
    ASSUME AccountInv, [Next]_vars, ~overlapped', ~overlapped => OneAlive
    PROVE  ~overlapped /\ OneAlive'
<1>0. Kinds /\ TasksFresh
    BY DEF AccountInv
<1>1. ASSUME UNCHANGED overlapped, \A t \in Tasks : Alive(t)' => Alive(t)
      PROVE  ~overlapped /\ OneAlive'
    BY <1>1 DEF OneAlive
<1>2. ASSUME UNCHANGED <<task, overlapped>>
      PROVE  ~overlapped /\ OneAlive'
    BY <1>1, <1>2 DEF Alive
<1>3. CASE StartInit \/ StartTls \/ StartFail \/ CloseBegin \/ CloseEnd \/ Send \/ Rest
           \/ UNCHANGED vars
    BY <1>2, <1>3 DEF StartInit, StartTls, StartFail, CloseBegin, CloseEnd, Unstarted, Send,
                      SendCheck, SendEnqueue, SendOnFreed, Rest, vars
<1>4. CASE StartOk
    <2>1. ~overlapped /\ \A t \in Tasks : ~Alive(t)
        BY <1>4 DEF StartOk
    <2>2. \A u \in Tasks \ {sessions} : task'[u] = task[u]
        BY <1>0, <1>4, StartMoves DEF Now
    <2>3. \A u \in Tasks \ {sessions} : ~Alive(u)'
        BY <2>1, <2>2 DEF Alive
    <2>4. QED
        BY <2>1, <2>3 DEF OneAlive
<1>5. CASE Tick
    <2>1. \A t \in Tasks : task'[t].at = task[t].at
        BY <1>0, <1>5, TickMoves DEF State
    <2>2. QED
        BY <1>1, <1>5, <2>1 DEF Tick, Alive
<1>6. ASSUME NEW t \in Tasks, Step(t)
      PROVE  ~overlapped /\ OneAlive'
    <2>1. Alive(t) /\ UNCHANGED overlapped
        BY <1>6 DEF Step, Loop, Dequeue, Written, WriteFailed, Poll, ReadDone, ReadBroken,
                    BeginBackoff, EndBackoff, Dialled, Reconnected, ReconnectFailed, Exit,
                    Untouched, Alive
    <2>2. \A u \in Tasks \ {t} : task'[u] = task[u]
        BY <1>0, <1>6, TaskMoves DEF Step, Now
    <2>3. QED
        BY <1>1, <2>1, <2>2 DEF Alive
<1>7. QED
    BY <1>3, <1>4, <1>5, <1>6 DEF Next

\* A step that moves no request and starts no write.
LEMMA OrderSame ==
    ASSUME Order, ~overlapped, UNCHANGED <<queue, wire>>,
           \A t \in Tasks : task'[t].at = "write" =>
               /\ task[t].at = "write" /\ task'[t].req = task[t].req
               /\ task'[t].conn = task[t].conn
    PROVE  Order'
<1>1. InOrder'
    BY DEF Order, InOrder
<1>2. QED
    BY <1>1 DEF Order

\* The only task alive.
LEMMA OnlyWriter ==
    ASSUME OneAlive, NEW t \in Tasks, Alive(t), NEW st, Now(t, st)
    PROVE  \A u \in Tasks : task'[u].at = "write" => u = t
BY DEF OneAlive, Now, Alive

LEMMA DequeueOrder ==
    ASSUME OrderInv, ~overlapped, NEW t \in Tasks, Dequeue(t)
    PROVE  Order'
<1> USE DEF OrderInv, AccountInv
<1>1. /\ queue \in Seq(Requests) /\ queue # <<>> /\ queue' = Tail(queue)
      /\ UNCHANGED <<wire, conns>>
    BY DEF Dequeue, Kinds, TypeOK
<1>2. /\ task'[t].req = queue[1] /\ task'[t].conn = dc.conn
      /\ \A u \in Tasks : task'[u].at = "write" => u = t
    <2>1. Now(t, State("write", task[t].left, dc.conn, Head(queue)))
        BY TaskMoves
    <2>2. Alive(t)
        BY DEF Dequeue, Alive
    <2>3. QED
        BY <1>1, <2>1, <2>2, OnlyWriter, TailOf DEF Now, State
<1>3. /\ DOMAIN queue = 1 .. Len(queue) /\ Len(queue) \in Nat \ {0}
      /\ DOMAIN queue' = 1 .. Len(queue) - 1
      /\ \A i \in DOMAIN queue' : queue'[i] = queue[i + 1] /\ i + 1 \in DOMAIN queue /\ i + 1 > 1
    BY <1>1, TailOf
<1>4. \A i, j \in DOMAIN queue' : i < j => queue'[i] < queue'[j]
    BY <1>3 DEF Order
<1>5. \A j \in DOMAIN queue' : queue[1] < queue'[j]
    BY <1>3 DEF Order
<1>6. \A c \in Conns : \A i \in DOMAIN wire[c] : wire[c][i] < queue[1]
    BY <1>3 DEF Order, InOrder
<1>7. InOrder'
    BY <1>1, <1>3 DEF Order, InOrder
<1>8. \A c \in Conns : dc.conn \in Conns /\ c > dc.conn => wire[c] = <<>>
    BY DEF Latest, Conns
<1>9. QED
    BY <1>1, <1>2, <1>4, <1>5, <1>6, <1>7, <1>8 DEF Order

LEMMA WrittenOrder ==
    ASSUME OrderInv, ~overlapped, NEW t \in Tasks, Written(t)
    PROVE  Order'
<1> USE DEF OrderInv, AccountInv
<1> DEFINE r == task[t].req
<1>0. PICK c \in Reached(t) : wire' = [wire EXCEPT ![c] = Append(@, r)]
    BY DEF Written
<1>1. Alive(t) /\ task[t].at = "write" /\ task[t].req \in Requests
    BY DEF Written, Alive, Kinds, TypeOK, TasksFresh, TaskStates, Requests
<1>2. c \in Conns /\ (c = task[t].conn \/ c = conns)
    <2>1. c \in open /\ (c = task[t].conn \/ c = dc.conn)
        BY DEF Reached
    <2>2. c \in Conns /\ c # 0
        BY <2>1 DEF Kinds, TypeOK, Conns
    <2>3. QED
        BY <2>1, <2>2 DEF Latest
<1>3. /\ wire[c] \in Seq(Requests)
      /\ wire'[c] = Append(wire[c], r)
      /\ \A d \in Conns \ {c} : wire'[d] = wire[d]
      /\ UNCHANGED queue
    BY <1>0, <1>2 DEF Written, Kinds, TypeOK
<1>4. \A u \in Tasks : task'[u].at # "write"
    <2>1. Now(t, State("drain", task[t].left, 0, 0))
        BY TaskMoves
    <2>2. \A u \in Tasks : task'[u].at = "write" => u = t
        BY <1>1, <2>1, OnlyWriter
    <2>3. QED
        BY <2>1, <2>2 DEF Now, State
<1>5. /\ \A j \in DOMAIN queue : r < queue[j]
      /\ \A d \in Conns : \A i \in DOMAIN wire[d] : wire[d][i] < r
      /\ \A d \in Conns : d > c => wire[d] = <<>>
      /\ \A i, j \in DOMAIN queue : i < j => queue[i] < queue[j]
    BY <1>1, <1>2 DEF Order, Latest
<1>6. InOrder
    BY DEF Order
<1> HIDE DEF r
<1>7. /\ DOMAIN wire[c] = 1 .. Len(wire[c]) /\ Len(wire[c]) \in Nat
      /\ DOMAIN wire'[c] = 1 .. Len(wire[c]) + 1
      /\ \A k \in DOMAIN wire[c] : wire'[c][k] = wire[c][k]
      /\ wire'[c][Len(wire[c]) + 1] = r
    <2>1. r \in Requests
        BY <1>1 DEF r
    <2>2. QED
        BY <1>3, <2>1, AppendOf
<1>8. ASSUME NEW d \in Conns, NEW k \in DOMAIN wire'[d]
      PROVE  \/ k \in DOMAIN wire[d] /\ wire'[d][k] = wire[d][k]
             \/ wire'[d][k] = r /\ d = c /\ k = Len(wire[c]) + 1
    BY <1>3, <1>7
<1>9. ASSUME NEW d \in Conns, NEW e \in Conns,
             NEW i \in DOMAIN wire'[d], NEW j \in DOMAIN wire'[e], d < e \/ (d = e /\ i < j)
      PROVE  wire'[d][i] < wire'[e][j]
    <2>1. CASE j \in DOMAIN wire[e] /\ wire'[e][j] = wire[e][j]
        <3>1. CASE i \in DOMAIN wire[d] /\ wire'[d][i] = wire[d][i]
            BY <1>6, <1>9, <2>1, <3>1 DEF InOrder
        <3>2. CASE wire'[d][i] = r /\ d = c /\ i = Len(wire[c]) + 1
            <4>1. CASE d = e
                BY <1>7, <1>9, <2>1, <3>2, <4>1 DEF Conns
            <4>2. CASE d < e
                <5>1. wire[e] = <<>>
                    BY <1>5, <3>2, <4>2 DEF Conns
                <5>2. QED
                    BY <2>1, <5>1
            <4>3. QED
                BY <1>9, <4>1, <4>2
        <3>3. QED
            BY <1>8, <3>1, <3>2
    <2>2. CASE wire'[e][j] = r /\ e = c /\ j = Len(wire[c]) + 1
        <3>1. CASE i \in DOMAIN wire[d] /\ wire'[d][i] = wire[d][i]
            BY <1>5, <2>2, <3>1
        <3>2. CASE wire'[d][i] = r /\ d = c /\ i = Len(wire[c]) + 1
            BY <1>7, <1>9, <2>2, <3>2 DEF Conns
        <3>3. QED
            BY <1>8, <3>1, <3>2
    <2>3. QED
        BY <1>8, <2>1, <2>2
<1>10. \A d \in Conns : \A i \in DOMAIN wire'[d], j \in DOMAIN queue : wire'[d][i] < queue[j]
    BY <1>5, <1>6, <1>8 DEF InOrder
<1>11. InOrder'
    BY <1>3, <1>9, <1>10 DEF InOrder
<1>12. QED
    BY <1>3, <1>4, <1>5, <1>11 DEF Order

LEMMA EnqueueOrder ==
    ASSUME OrderInv, ~overlapped, SendEnqueue
    PROVE  Order'
<1> USE DEF OrderInv, AccountInv
<1>1. UNCHANGED <<task, wire>>
    BY DEF SendEnqueue
<1>2. CASE UNCHANGED <<queue, accepted>>
    BY <1>1, <1>2, OrderSame
<1>3. CASE queue' = Append(queue, accepted + 1)
    <2>1. queue \in Seq(Requests) /\ accepted + 1 \in Requests /\ accepted \in Nat
        BY DerpAssumption DEF Kinds, TypeOK, Requests, SendEnqueue
    <2>2. /\ DOMAIN queue = 1 .. Len(queue) /\ Len(queue) \in Nat
          /\ DOMAIN queue' = 1 .. Len(queue) + 1
          /\ \A i \in DOMAIN queue : queue'[i] = queue[i]
          /\ queue'[Len(queue) + 1] = accepted + 1
        BY <1>3, <2>1, AppendOf
    <2>3. \A r \in Queued \cup Carried \cup Sent : r \in Nat /\ r < accepted + 1
        BY <2>1 DEF Accounting
    <2>4. \A i \in DOMAIN queue : queue[i] < accepted + 1
        BY <2>3 DEF Queued, Values
    <2>5. \A c \in Conns : \A i \in DOMAIN wire[c] : wire[c][i] < accepted + 1
        BY <2>3 DEF Sent, Values
    <2>6. \A t \in Tasks : task[t].at = "write" => task[t].req < accepted + 1
        BY <2>3 DEF Carried, TasksFresh
    <2>7. \A i, j \in DOMAIN queue' : i < j => queue'[i] < queue'[j]
        BY <2>2, <2>4 DEF Order
    <2>8. \A t \in Tasks : task[t].at = "write" => \A j \in DOMAIN queue' : task[t].req < queue'[j]
        BY <2>2, <2>6 DEF Order
    <2>9. InOrder'
        BY <1>1, <2>2, <2>5 DEF Order, InOrder
    <2>10. QED
        BY <1>1, <2>7, <2>8, <2>9 DEF Order
<1>4. QED
    BY <1>2, <1>3 DEF SendEnqueue

LEMMA OrderStep == OrderInv /\ [Next]_vars => OrderInv'
<1> SUFFICES ASSUME OrderInv, [Next]_vars, ~overlapped'
             PROVE  Order'
    BY AccountStep, LatestStep, OneAliveStep DEF OrderInv
<1>0. ~overlapped /\ Order /\ Kinds /\ TasksFresh
    BY OneAliveStep DEF OrderInv, AccountInv
<1>1. CASE StartInit \/ StartTls \/ StartFail \/ CloseBegin
    BY <1>0, <1>1, OrderSame DEF StartInit, StartTls, StartFail, CloseBegin, Unstarted
<1>2. CASE StartOk
    <2>1. \A t \in Tasks : task'[t].at = "write" => task'[t] = task[t]
        BY <1>0, <1>2, StartMoves DEF Now, State
    <2>2. QED
        BY <1>0, <1>2, <2>1, OrderSame DEF StartOk
<1>3. CASE CloseEnd
    <2>1. queue' = <<>> /\ UNCHANGED <<task, wire, overlapped>>
        BY <1>3 DEF CloseEnd
    <2>2. DOMAIN queue' = {}
        BY <2>1
    <2>3. QED
        BY <1>0, <2>1, <2>2 DEF Order, InOrder
<1>4. CASE Tick
    <2>1. \A t \in Tasks : /\ task'[t].at = task[t].at /\ task'[t].req = task[t].req
                           /\ task'[t].conn = task[t].conn
        BY <1>0, <1>4, TickMoves DEF State
    <2>2. QED
        BY <1>0, <1>4, <2>1, OrderSame DEF Tick
<1>5. CASE Send
    BY <1>0, <1>5, OrderSame, EnqueueOrder DEF Send, SendCheck, SendOnFreed
<1>6. ASSUME NEW t \in Tasks, Step(t)
      PROVE  Order'
    <2>1. CASE Dequeue(t)
        BY <1>0, <2>1, DequeueOrder
    <2>2. CASE Written(t)
        BY <1>0, <2>2, WrittenOrder
    <2>3. ASSUME NEW st, Now(t, st), st.at # "write", UNCHANGED <<queue, wire>>
          PROVE  Order'
        <3>1. \A u \in Tasks : task'[u].at = "write" => task'[u] = task[u]
            BY <2>3 DEF Now
        <3>2. QED
            BY <1>0, <2>3, <3>1, OrderSame
    <2>4. CASE Loop(t)
        BY <1>0, <2>3, <2>4, TaskMoves DEF Loop, State
    <2>5. CASE Poll(t)
        BY <1>0, <2>3, <2>5, TaskMoves DEF Poll, State
    <2>6. CASE ReadDone(t) \/ Reconnected(t)
        BY <1>0, <2>3, <2>6, TaskMoves DEF ReadDone, Reconnected, State
    <2>7. CASE ReadBroken(t) \/ ReconnectFailed(t)
        BY <1>0, <2>3, <2>7, TaskMoves DEF ReadBroken, ReconnectFailed, State
    <2>8. CASE BeginBackoff(t)
        <3>1. UNCHANGED <<queue, wire>>
            BY <2>8 DEF BeginBackoff
        <3>2. CASE dc.running
            BY <1>0, <2>3, <2>8, <3>1, <3>2, TaskMoves DEF State
        <3>3. CASE ~dc.running
            BY <1>0, <2>3, <2>8, <3>1, <3>3, TaskMoves DEF State
        <3>4. QED
            BY <3>2, <3>3
    <2>9. CASE EndBackoff(t)
        BY <1>0, <2>3, <2>9, TaskMoves DEF EndBackoff, State
    <2>10. CASE Dialled(t)
        BY <1>0, <2>3, <2>10, TaskMoves DEF Dialled, State
    <2>11. CASE Exit(t)
        BY <1>0, <2>3, <2>11, TaskMoves DEF Exit, State
    <2>12. CASE WriteFailed(t)
        BY <1>0, <2>3, <2>12, TaskMoves DEF WriteFailed, State
    <2>13. QED
        BY <1>6, <2>1, <2>2, <2>4, <2>5, <2>6, <2>7, <2>8, <2>9, <2>10, <2>11, <2>12 DEF Step
<1>7. CASE Rest \/ UNCHANGED vars
    BY <1>0, <1>7, OrderSame DEF Rest, vars
<1>8. QED
    BY <1>1, <1>2, <1>3, <1>4, <1>5, <1>6, <1>7 DEF Next

LEMMA InitOrder == Init => OrderInv
<1>1. SUFFICES ASSUME Init PROVE Latest /\ OneAlive /\ Order
    BY InitAccount DEF OrderInv
<1>2. /\ DOMAIN queue = {} /\ \A c \in Conns : wire[c] = <<>> /\ DOMAIN wire[c] = {}
      /\ \A t \in Tasks : task[t].at = "none"
      /\ dc.conn = 0 /\ open = {}
    BY <1>1 DEF Init, NoTask, derp_init
<1>3. QED
    BY <1>2 DEF Order, InOrder, Latest, OneAlive, Alive

\* Packets reach the relay in the order they were accepted, across connections
\* that break and sessions that close, as long as no two receive tasks have been
\* alive at once.
THEOREM PacketsInOrder == Spec => []InOrder
<1>1. OrderInv /\ [Next]_vars => OrderInv'
    BY OrderStep
<1>2. OrderInv => InOrder
    BY DEF OrderInv, Order, InOrder
<1>3. QED
    BY <1>1, <1>2, InitOrder, PTL DEF Spec

=============================================================================
