----------------------------- MODULE DerpClient -----------------------------
(***************************************************************************)
(* The DERP relay client, component/tailscale/ts_derp.c: one structure     *)
(* (s_derp) shared by the main task, which starts and closes sessions, by  *)
(* the receive task each session creates, and by any task that sends.      *)
(*                                                                         *)
(* A step runs from one blocking call to the next: a TLS read or write, a  *)
(* delay, a stage of a connection attempt.  Delays are countdowns, and     *)
(* Tick waits for whatever is surely over before the next unit of time.    *)
(* A TLS state with its socket is one numbered connection.                 *)
(*                                                                         *)
(* derp_close waits a fixed second for the receive task.  A task that is   *)
(* in a longer call or back-off outlives it, and works on what the         *)
(* structure holds next.  A call on a connection or a queue that has been  *)
(* freed fails here; it may also bring the device down, and then nothing   *)
(* more happens.                                                           *)
(***************************************************************************)
EXTENDS Integers, Sequences, FiniteSets

CONSTANTS
    QueueDepth,     \* DERP_SEND_QUEUE_DEPTH, 8
    BackoffBase,    \* 5 s, the first reconnect delay
    BackoffMax,     \* 30 s, the longest
    CloseWait,      \* 1 s, derp_close waits for the task
    RetryDelay,     \* RETRY_DELAY_MS, 10 s between two sessions
    SlowServer,     \* may a read, a write or an attempt to connect last?
    MaxSessions,    \* bound: calls of start_derp
    MaxConns,       \* bound: connections opened
    MaxSends        \* bound: packets accepted by derp_send_packet

ASSUME DerpAssumption ==
    /\ QueueDepth \in Nat \ {0}
    /\ BackoffBase \in Nat \ {0} /\ BackoffMax \in Nat
    /\ BackoffBase <= BackoffMax
    /\ CloseWait \in Nat \ {0} /\ RetryDelay \in Nat \ {0}
    /\ SlowServer \in BOOLEAN
    /\ MaxSessions \in Nat
    /\ MaxConns \in Nat /\ MaxSends \in Nat

VARIABLES
    dc,         \* the derp_client_t
    queue,      \* contents of the FreeRTOS queue dc.queue names
    main,       \* the main task: where it is, and its delay
    task,       \* task[t]: the receive task that session t created
    open,       \* connections open at this end
    sender,     \* the sending task: before or after the test of "ready"
    sessions,   \* calls of start_derp
    conns,      \* connections opened so far
    accepted,   \* requests queued so far, which also numbers them
    wire,       \* wire[c]: requests written on connection c, in order
    lost,       \* requests freed without having been written
    overlapped  \* history: two receive tasks have been alive at once

vars == <<dc, queue, main, task, open, sender, sessions, conns, accepted, wire, lost, overlapped>>

Tasks == 1 .. MaxSessions
Conns == 1 .. MaxConns
Requests == 1 .. MaxSends

\* Failures in a row are told apart up to the one with the longest delay.
Failures == 0 .. 4
OneMore(n) == IF n < 4 THEN n + 1 ELSE 4

\* "conn" 0: tls NULL and sock_fd -1.  "handle": task_handle is not NULL.
Clients ==
    [running : BOOLEAN, ready : BOOLEAN, conn : 0 .. MaxConns,
     queue : BOOLEAN, handle : BOOLEAN, failures : Failures]

\* derp_init
derp_init ==
    [running |-> FALSE, ready |-> FALSE, conn |-> 0,
     queue |-> FALSE, handle |-> FALSE, failures |-> 0]

Delays == 0 .. CloseWait + RetryDelay

\* "conn" is the connection a read or a write under way began on, "req" the
\* request it carries.
TaskStates ==
    [at : {"none", "loop", "drain", "write", "read", "reconnect", "delay",
           "dial", "handshake", "done", "gone"},
     left : 0 .. BackoffMax, conn : 0 .. MaxConns, req : 0 .. MaxSends]

NoTask == [at |-> "none", left |-> 0, conn |-> 0, req |-> 0]

Init ==
    /\ dc = derp_init
    /\ queue = <<>>
    /\ main = [at |-> "down", left |-> 0]
    /\ task = [t \in Tasks |-> NoTask]
    /\ open = {} /\ sender = "idle"
    /\ sessions = 0 /\ conns = 0 /\ accepted = 0
    /\ wire = [c \in Conns |-> <<>>]
    /\ lost = {} /\ overlapped = FALSE

Alive(t) == task[t].at \notin {"none", "gone"}

\* The work of a connection attempt and of closing one, whoever does it.  An
\* attempt looks for its connection in the structure before each of its calls.
Opened == conns + 1
Connected == dc.conn \in open
\* One that fails at TCP leaves the TLS state alone; one that fails at TLS clears
\* it, and a connection that another task had put there is out of reach.
Undialled ==
    \/ UNCHANGED <<dc, open>>
    \/ dc' = [dc EXCEPT !.conn = 0] /\ open' = open \ {dc.conn}
\* Mutant: the handle is reset the way the socket is.
derp_close_connection_MinusOne(c) == [c EXCEPT !.conn = -1, !.ready = FALSE]
derp_close_connection(c) == [c EXCEPT !.conn = 0, !.ready = FALSE]

-----------------------------------------------------------------------------
(* The main task: start_derp and derp_close *)

Unstarted == UNCHANGED <<queue, task, sender, accepted, wire, lost, overlapped>>

StartInit ==
    /\ main.at = "down" /\ main.left = 0
    /\ sessions < MaxSessions
    /\ sessions' = sessions + 1
    /\ dc' = derp_init
    /\ main' = [main EXCEPT !.at = "dial"]
    /\ Unstarted /\ UNCHANGED <<open, conns>>

\* TCP and TLS are up: the structure names the connection.
StartTls ==
    /\ main.at = "dial" /\ conns < MaxConns
    /\ conns' = Opened
    /\ open' = open \cup {Opened}
    /\ dc' = [dc EXCEPT !.conn = Opened]
    /\ main' = [main EXCEPT !.at = "handshake"]
    /\ Unstarted /\ UNCHANGED sessions

\* The DERP handshake ends; derp_start creates the queue and the task (no task
\* is running as far as the structure says: derp_init has just cleared it).
StartOk ==
    /\ main.at = "handshake" /\ Connected
    /\ main' = [main EXCEPT !.at = "up"]
    /\ dc' = [dc EXCEPT !.ready = TRUE, !.running = TRUE, !.queue = TRUE, !.handle = TRUE]
    /\ task' = [task EXCEPT ![sessions].at = "loop"]
    /\ overlapped' = (overlapped \/ \E t \in Tasks : Alive(t))
    /\ UNCHANGED <<queue, open, sender, sessions, conns, accepted, wire, lost>>

\* Either stage fails; the main task goes on without a relay.
StartFail ==
    /\ \/ main.at = "dial" /\ Undialled
       \/ /\ main.at = "handshake"
          /\ dc' = derp_close_connection(dc)
          /\ open' = open \ {dc.conn}
    /\ main' = [main EXCEPT !.at = "up"]
    /\ Unstarted /\ UNCHANGED <<sessions, conns>>

\* derp_stop, then the wait if a task was ever created.
CloseBegin ==
    /\ main.at = "up"
    /\ dc' = [dc EXCEPT !.running = FALSE]
    /\ main' = [main EXCEPT !.at = "closing", !.left = IF dc.handle THEN CloseWait ELSE 0]
    /\ Unstarted /\ UNCHANGED <<open, sessions, conns>>

\* The rest of derp_close: queue and connection are freed, whoever uses them.
CloseEnd ==
    /\ main.at = "closing" /\ main.left = 0
    /\ dc' = [derp_close_connection(dc) EXCEPT !.handle = FALSE, !.queue = FALSE]
    /\ lost' = lost \cup {queue[i] : i \in DOMAIN queue}
    /\ queue' = <<>>
    /\ open' = open \ {dc.conn}
    /\ main' = [main EXCEPT !.at = "down", !.left = RetryDelay]
    /\ UNCHANGED <<task, sender, sessions, conns, accepted, wire, overlapped>>

-----------------------------------------------------------------------------
(* The receive task *)

Goto(t, pc) == task' = [task EXCEPT ![t].at = pc, ![t].conn = 0, ![t].req = 0]
Untouched == UNCHANGED <<main, sender, sessions, overlapped>>

\* Top of "while (dc->running)".
Loop(t) ==
    /\ task[t].at = "loop"
    /\ Goto(t, IF dc.running THEN "drain" ELSE "done")
    /\ Untouched /\ UNCHANGED <<dc, queue, open, conns, accepted, wire, lost>>

\* derp_drain_send_queue takes the oldest request and starts to write it.
Dequeue(t) ==
    /\ task[t].at = "drain" /\ dc.queue /\ queue # <<>>
    /\ task' = [task EXCEPT ![t].at = "write", ![t].conn = dc.conn, ![t].req = Head(queue)]
    /\ queue' = Tail(queue)
    /\ Untouched /\ UNCHANGED <<dc, open, conns, accepted, wire, lost>>

\* Header and payload are two calls, and each looks for its connection.
Reached(t) == {task[t].conn, dc.conn} \cap open

Written(t) ==
    /\ task[t].at = "write"
    /\ \E c \in Reached(t) : wire' = [wire EXCEPT ![c] = Append(@, task[t].req)]
    /\ Goto(t, "drain")
    /\ Untouched /\ UNCHANGED <<dc, queue, open, conns, accepted, lost>>

\* Mutant: a request that could not be written is put back.
WriteFailed_Requeue(t) ==
    /\ task[t].at = "write"
    /\ Len(queue) < QueueDepth
    /\ queue' = Append(queue, task[t].req)
    /\ Goto(t, "drain")
    /\ Untouched /\ UNCHANGED <<dc, open, conns, accepted, wire, lost>>

\* A write that fails is logged, its request freed, and the drain goes on.
WriteFailed(t) ==
    /\ task[t].at = "write"
    /\ lost' = lost \cup {task[t].req}
    /\ Goto(t, "drain")
    /\ Untouched /\ UNCHANGED <<dc, queue, open, conns, accepted, wire>>

\* The queue is empty: a read with the 500 ms timeout starts.
Poll(t) ==
    /\ task[t].at = "drain" /\ queue = <<>>
    /\ task' = [task EXCEPT ![t].at = "read", ![t].conn = dc.conn]
    /\ Untouched /\ UNCHANGED <<dc, queue, open, conns, accepted, wire, lost>>

\* The read times out, or a whole frame is read and handled.
ReadDone(t) ==
    /\ task[t].at = "read" /\ Reached(t) # {}
    /\ \/ UNCHANGED dc
       \/ dc' = [dc EXCEPT !.failures = 0]
    /\ Goto(t, "loop")
    /\ Untouched /\ UNCHANGED <<queue, open, conns, accepted, wire, lost>>

\* Mutant: a broken connection ends the task.
ReadBroken_GiveUp(t) ==
    /\ task[t].at = "read"
    /\ task[t].conn \in open => conns < MaxConns
    /\ dc' = derp_close_connection(dc)
    /\ open' = open \ {dc.conn}
    /\ Goto(t, "done")
    /\ Untouched /\ UNCHANGED <<queue, conns, accepted, wire, lost>>

\* The connection broke, a frame was cut short, a Pong could not be written, or
\* nothing came for 120 s.  (The last connection of the bound does not break.)
ReadBroken(t) ==
    /\ task[t].at = "read"
    /\ task[t].conn \in open => conns < MaxConns
    /\ dc' = derp_close_connection(dc)
    /\ open' = open \ {dc.conn}
    /\ Goto(t, "reconnect")
    /\ Untouched /\ UNCHANGED <<queue, conns, accepted, wire, lost>>

\* 5, 10, 20, then 30 s.
Backoff(failures) ==
    LET shift == IF failures - 1 > 3 THEN 3 ELSE failures - 1
        wait  == BackoffBase * 2^shift
    IN  IF wait > BackoffMax THEN BackoffMax ELSE wait

\* Top of the reconnect loop.
BeginBackoff(t) ==
    /\ task[t].at = "reconnect"
    /\ IF dc.running
       THEN /\ dc' = [dc EXCEPT !.failures = OneMore(@)]
            /\ task' = [task EXCEPT ![t].at = "delay", ![t].left = Backoff(OneMore(dc.failures))]
       ELSE /\ Goto(t, "done")
            /\ UNCHANGED dc
    /\ Untouched /\ UNCHANGED <<queue, open, conns, accepted, wire, lost>>

EndBackoff(t) ==
    /\ task[t].at = "delay" /\ task[t].left = 0
    /\ Goto(t, IF dc.running THEN "dial" ELSE "done")
    /\ Untouched /\ UNCHANGED <<dc, queue, open, conns, accepted, wire, lost>>

\* derp_do_connect, which never looks at "running".
Dialled(t) ==
    /\ task[t].at = "dial" /\ conns < MaxConns
    /\ conns' = Opened
    /\ open' = open \cup {Opened}
    /\ dc' = [dc EXCEPT !.conn = Opened]
    /\ Goto(t, "handshake")
    /\ Untouched /\ UNCHANGED <<queue, accepted, wire, lost>>

Reconnected(t) ==
    /\ task[t].at = "handshake" /\ Connected
    /\ dc' = [dc EXCEPT !.ready = TRUE, !.failures = 0]
    /\ Goto(t, "loop")
    /\ Untouched /\ UNCHANGED <<queue, open, conns, accepted, wire, lost>>

\* Mutant: an attempt that fails ends the task.
ReconnectFailed_GiveUp(t) ==
    /\ task[t].at = "dial"
    /\ Goto(t, "done")
    /\ Untouched /\ UNCHANGED <<dc, open, queue, conns, accepted, wire, lost>>

\* Either stage fails, as often as the server likes: the loop has no limit.
ReconnectFailed(t) ==
    /\ \/ task[t].at = "dial" /\ Undialled
       \/ /\ task[t].at = "handshake"
          /\ Connected => conns < MaxConns
          /\ dc' = derp_close_connection(dc)
          /\ open' = open \ {dc.conn}
    /\ Goto(t, "reconnect")
    /\ Untouched /\ UNCHANGED <<queue, conns, accepted, wire, lost>>

Exit(t) ==
    /\ task[t].at = "done"
    /\ dc' = [dc EXCEPT !.running = FALSE, !.ready = FALSE]
    /\ Goto(t, "gone")
    /\ Untouched /\ UNCHANGED <<queue, open, conns, accepted, wire, lost>>

-----------------------------------------------------------------------------
(* derp_send_packet, called by the lwIP thread and by the DISCO task *)

SendCheck ==
    /\ sender = "idle" /\ accepted < MaxSends
    /\ dc.ready /\ dc.queue
    /\ sender' = "checked"
    /\ UNCHANGED <<dc, queue, main, task, open, sessions, conns, accepted, wire, lost, overlapped>>

\* Mutant: a full queue drops its oldest request.
SendEnqueue_DropOldest ==
    /\ sender = "checked" /\ dc.queue
    /\ sender' = "idle"
    /\ queue' = Append(IF Len(queue) < QueueDepth THEN queue ELSE Tail(queue), accepted + 1)
    /\ accepted' = accepted + 1
    /\ UNCHANGED <<dc, main, task, open, sessions, conns, wire, lost, overlapped>>

\* The enqueue reads dc.queue again; a full queue refuses.
SendEnqueue ==
    /\ sender = "checked" /\ dc.queue
    /\ sender' = "idle"
    /\ IF Len(queue) < QueueDepth
       THEN /\ queue' = Append(queue, accepted + 1)
            /\ accepted' = accepted + 1
       ELSE UNCHANGED <<queue, accepted>>
    /\ UNCHANGED <<dc, main, task, open, sessions, conns, wire, lost, overlapped>>

\* The queue is gone between the test and the call.
SendOnFreed ==
    /\ sender = "checked" /\ ~dc.queue
    /\ sender' = "idle"
    /\ UNCHANGED <<dc, queue, main, task, open, sessions, conns, accepted, wire, lost, overlapped>>

-----------------------------------------------------------------------------
(* Time *)

\* What is surely over before the next unit of time: the steps between blocking
\* calls.  Writes and connection attempts have no time-out, and a frame may come
\* byte by byte, each within the 500 ms of a read: with a slow server all of them
\* last as long as they like.  A task at the top of its loop may be between two
\* reads for as long as it runs.
Prompt(t) ==
    \/ task[t].at \in {"drain", "reconnect", "done"}
    \/ task[t].at = "loop" /\ ~dc.running
    \/ task[t].at = "delay" /\ task[t].left = 0
    \/ task[t].at \in {"read", "write", "dial", "handshake"} /\ ~SlowServer

Less(n) == IF n = 0 THEN 0 ELSE n - 1

Tick ==
    /\ main.left > 0 \/ \E t \in Tasks : task[t].left > 0
    /\ \A t \in Tasks : ~Prompt(t)
    /\ sender = "idle"
    /\ main' = [main EXCEPT !.left = Less(@)]
    /\ task' = [t \in Tasks |-> [task[t] EXCEPT !.left = Less(@)]]
    /\ UNCHANGED <<dc, queue, open, sender, sessions, conns, accepted, wire, lost, overlapped>>

Step(t) ==
    \/ Loop(t) \/ Dequeue(t) \/ Written(t) \/ WriteFailed(t)
    \/ Poll(t) \/ ReadDone(t) \/ ReadBroken(t)
    \/ BeginBackoff(t) \/ EndBackoff(t)
    \/ Dialled(t) \/ Reconnected(t) \/ ReconnectFailed(t)
    \/ Exit(t)

Send == SendCheck \/ SendEnqueue \/ SendOnFreed

\* The bound on sessions is used up and nothing runs any more.
Rest ==
    /\ sessions = MaxSessions /\ main.at = "down" /\ main.left = 0
    /\ sender = "idle" /\ \A t \in Tasks : ~Alive(t)
    /\ UNCHANGED vars

Next ==
    \/ StartInit \/ StartTls \/ StartOk \/ StartFail \/ CloseBegin \/ CloseEnd
    \/ \E t \in Tasks : Step(t)
    \/ Send
    \/ Tick
    \/ Rest

\* The scheduler runs every task that can run, clocks do not stop, calls return,
\* and a server that is dialled again and again answers in the end.  Nothing
\* makes the main task open or close a session, nor anybody send.
Fairness ==
    /\ \A t \in Tasks : WF_vars(Step(t)) /\ SF_vars(Dialled(t))
    /\ WF_vars(CloseEnd) /\ WF_vars(SendEnqueue \/ SendOnFreed)
    /\ WF_vars(Tick)

Spec == Init /\ [][Next]_vars
FairSpec == Spec /\ Fairness

-----------------------------------------------------------------------------
(* Properties *)

\* Each variable keeps its kind.
TypeOK ==
    /\ dc \in Clients
    /\ queue \in Seq(Requests) /\ Len(queue) <= QueueDepth
    /\ main \in [at : {"down", "dial", "handshake", "up", "closing"},
                 left : Delays]
    /\ task \in [Tasks -> TaskStates]
    /\ open \subseteq Conns
    /\ sender \in {"idle", "checked"}
    /\ sessions \in 0 .. MaxSessions
    /\ conns \in 0 .. MaxConns
    /\ accepted \in 0 .. MaxSends
    /\ wire \in [Conns -> Seq(Requests)]
    /\ lost \subseteq Requests
    /\ overlapped \in BOOLEAN

\* Where request r is: waiting, being written, on the wire of a connection, or
\* freed.
Places(r) ==
    {<<"queue", 0, i>> : i \in {j \in DOMAIN queue : queue[j] = r}}
    \cup {<<"task", t, 0>> : t \in {u \in Tasks : task[u].req = r}}
    \cup (UNION {{<<"wire", c, i>> : i \in {j \in DOMAIN wire[c] : wire[c][j] = r}} : c \in Conns})
    \cup (IF r \in lost THEN {<<"lost", 0, 0>>} ELSE {})

\* A request that derp_send_packet accepted is in exactly one place, whatever
\* connections break and sessions close meanwhile: it is never written twice
\* and never leaks (the requests and packets are malloc'ed).
Accounted == \A r \in 1 .. accepted : Cardinality(Places(r)) = 1

\* As long as no two receive tasks have worked side by side (OneRecvTask), packets
\* reach the relay in the order they were accepted, within a connection, across
\* reconnections and across sessions: WireGuard behind it numbers its packets.
InOrder ==
    ~overlapped =>
        /\ \A c \in Conns, d \in Conns :
            \A i \in DOMAIN wire[c], j \in DOMAIN wire[d] :
                (c < d \/ (c = d /\ i < j)) => wire[c][i] < wire[d][j]
        /\ \A c \in Conns : \A i \in DOMAIN wire[c], j \in DOMAIN queue : wire[c][i] < queue[j]

\* "All TLS I/O is done exclusively in the recv task" (ts_derp.h:7), so there
\* is never more than one: the task of a closed session is gone before the next
\* session starts its own on the same structure.
OneRecvTask == Cardinality({t \in Tasks : Alive(t)}) <= 1

\* The requests accepted and neither written nor freed yet.
Pending == {r \in 1 .. accepted : \A p \in Places(r) : p[1] \in {"queue", "task"}}

\* Every accepted request is written or freed sooner or later, unless two receive
\* tasks get in each other's way: one that leaves stops the other.  (Sends being
\* bounded, a time comes when none is pending.)
Settled == (Pending # {}) ~> (Pending = {} \/ overlapped)

\* A relay connection that breaks while the session lasts comes back, however
\* often the server refuses before it answers (ts_derp.c:585, reconnect), if the
\* session has the structure to itself.
RelayComesBack ==
    (main.at = "up" /\ dc.handle /\ ~dc.ready /\ ~overlapped) ~> (dc.ready \/ main.at # "up")
=============================================================================
