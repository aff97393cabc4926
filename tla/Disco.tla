------------------------------- MODULE Disco --------------------------------
(***************************************************************************)
(* The DISCO task and what other tasks do to it:                           *)
(* component/tailscale/ts_disco.c 79-116, 484-739.  There is one structure *)
(* disco_state_t for all sessions; a task works on whatever it holds.      *)
(*                                                                         *)
(* Time is counted in ticks, and a task that can run does so before the    *)
(* next one.  What pings and pongs do to the peers is in PeerPaths.        *)
(***************************************************************************)
EXTENDS Integers, Sequences

CONSTANTS
    MaxSessions,    \* bound: sessions since the power came on
    RecvTimeout,    \* SO_RCVTIMEO of the socket, 2 s
    QueueDepth,     \* of send_queue, 4
    MaxItems        \* bound: packets the hook hands over in a session

None == 0
Sessions == 1 .. MaxSessions

\* A socket and a queue go by the session whose task made them.
VARIABLES
    ds,         \* disco_state_t
    task,       \* the task of each session
    socks,      \* sockets that are open
    queues,     \* the queues: how long each packet has waited, oldest first
    items,      \* history: packets handed over in the session
    reply       \* the socket a STUN answer is on its way to, or None

discoVars == <<ds, task, socks, queues, items, reply>>

Idle == [at |-> "none", left |-> 0]
Fresh == [running |-> FALSE, sock |-> None, queue |-> None, stun |-> None, self |-> None]

Init ==
    /\ ds = Fresh
    /\ task = [s \in Sessions |-> Idle]
    /\ socks = {} /\ queues = [s \in Sessions |-> <<>>] /\ items = 0
    /\ reply = None

-----------------------------------------------------------------------------
(* Calls of the main task and of the output hook *)

\* disco_init: a queue of the session before is lost, not deleted.
disco_init_KeepsSelf == [Fresh EXCEPT !.self = ds.self]
disco_init == Fresh

\* disco_init and disco_start, up to its delay.
StartTask(s) ==
    /\ ds' = [disco_init EXCEPT !.running = TRUE]
    /\ task' = [task EXCEPT ![s] = [Idle EXCEPT !.at = "create"]]
    /\ items' = 0
    /\ UNCHANGED <<socks, queues, reply>>

\* disco_send_stun, once, after that delay.
SendStun ==
    /\ IF ds.sock = None THEN UNCHANGED <<ds, reply>>
       ELSE ds' = [ds EXCEPT !.stun = ds.sock] /\ reply' = ds.sock
    /\ UNCHANGED <<task, socks, queues, items>>

Stopped == [ds EXCEPT !.running = FALSE]
disco_stop == ds' = Stopped /\ UNCHANGED <<task, socks, queues, items, reply>>

\* disco_queue_direct_send, from the output hook: if the queue is full the packet
\* is gone, and the hook does not look.
QueueDirect ==
    /\ ds.queue # None /\ items < MaxItems
    /\ items' = items + 1
    /\ queues' = IF Len(queues[ds.queue]) < QueueDepth
                 THEN [queues EXCEPT ![ds.queue] = Append(@, 0)]
                 ELSE queues
    /\ UNCHANGED <<ds, task, socks, reply>>

-----------------------------------------------------------------------------
(* disco_task_fn *)

Goes(s, where) == task' = [task EXCEPT ![s] = [at |-> where, left |-> 0]]

\* The queue, then the socket; without one the task ends, and the queue stays.
Create(s) ==
    /\ task[s].at = "create"
    /\ \/ /\ ds' = [ds EXCEPT !.queue = s, !.sock = s]
          /\ socks' = socks \union {s} /\ Goes(s, "top")
       \/ /\ ds' = [ds EXCEPT !.queue = s, !.sock = None, !.running = FALSE]
          /\ Goes(s, "none") /\ UNCHANGED socks
    /\ UNCHANGED <<queues, items, reply>>

\* disco_drain_direct_queue
Drained_One(q) == IF q = <<>> THEN q ELSE Tail(q)
Drained(q) == <<>>

\* The top of the loop, up to recvfrom.
Loop(s) ==
    /\ task[s].at = "top" /\ ds.running
    /\ queues' = [queues EXCEPT ![ds.queue] = Drained(@)]
    /\ task' = [task EXCEPT ![s] = [at |-> "recv", left |-> RecvTimeout]]
    /\ UNCHANGED <<ds, socks, items, reply>>

\* A packet comes: the answer to the STUN request ...
StunAnswer(s) ==
    /\ task[s].at = "recv" /\ reply # None /\ reply = ds.sock
    /\ reply' = None
    /\ ds' = IF ds.stun = ds.sock
             THEN [ds EXCEPT !.self = ds.sock, !.stun = None] ELSE ds
    /\ Goes(s, "top") /\ UNCHANGED <<socks, queues, items>>

\* ... or any other, or none for the whole time-out.
Wakes(s) ==
    /\ task[s].at = "recv"
    /\ Goes(s, "top") /\ UNCHANGED <<ds, socks, queues, items, reply>>

Leave(s) ==
    /\ task[s].at = "top" /\ ~ds.running
    /\ socks' = socks \ {ds.sock}
    /\ ds' = [ds EXCEPT !.sock = None]
    /\ Goes(s, "none") /\ UNCHANGED <<queues, items, reply>>

\* The answer is lost, or the socket it was for is.
StunLost == reply # None /\ reply' = None /\ UNCHANGED <<ds, task, socks, queues, items>>

TaskNext == \E s \in Sessions : Create(s) \/ Loop(s) \/ StunAnswer(s) \/ Wakes(s) \/ Leave(s)

-----------------------------------------------------------------------------
(* Time *)

\* Nobody has anything to do before the next tick.
Waiting(s) == task[s].at = "none" \/ (task[s].at = "recv" /\ task[s].left > 0)
AllWaiting == \A s \in Sessions : Waiting(s)

Older(q) == [i \in DOMAIN q |-> q[i] + 1]
TimePasses ==
    /\ task' = [s \in Sessions |->
                   IF task[s].at = "recv" THEN [task[s] EXCEPT !.left = @ - 1] ELSE task[s]]
    /\ queues' = IF ds.running /\ ds.queue # None
                 THEN [queues EXCEPT ![ds.queue] = Older(@)] ELSE queues
    /\ UNCHANGED <<ds, socks, items, reply>>

-----------------------------------------------------------------------------
(* Properties *)

\* A packet for a direct path leaves within one receive time-out of the task, which
\* is less than the 5 s after which a handshake is tried again.
DirectDelay ==
    ds.running /\ ds.queue # None =>
        \A i \in DOMAIN queues[ds.queue] : queues[ds.queue][i] <= RecvTimeout

\* disco_stop does not wait for the task; once it is gone, nothing of the session is
\* left but its queue.
Alive == {s \in Sessions : task[s].at # "none"}
AllStopped == Alive = {} /\ socks = {} /\ ds.sock = None
=============================================================================
