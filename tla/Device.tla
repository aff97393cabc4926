------------------------------- MODULE Device -------------------------------
(***************************************************************************)
(* One device from power on to power failure: the main task of ts_main.c   *)
(* with the key store, the DISCO task and the WireGuard set-up it starts   *)
(* and stops in each session, and the map task that may set WireGuard up   *)
(* later.  The control connection, the map stream and the relay are in     *)
(* modules of their own; here they succeed or fail.                        *)
(***************************************************************************)
EXTENDS KeyStore, Sequences

CONSTANTS
    MaxSessions, RecvTimeout, QueueDepth, MaxItems, MaxDevices,
    StartDelay,         \* between the start of the task and STUN, 0.5 s
    StunWait,           \* for the answer, 3 s
    RetryDelay,         \* RETRY_DELAY_MS, 10 s
    MaxFailures         \* bound: power failures

ASSUME DeviceAssumption ==
    /\ {MaxSessions, RecvTimeout, QueueDepth, MaxItems, MaxDevices} \subseteq Nat \ {0}
    /\ {StartDelay, StunWait, RetryDelay} \subseteq Nat \ {0}
    /\ StartDelay < RecvTimeout /\ RecvTimeout < StunWait /\ StunWait < RetryDelay
    /\ MaxFailures \in Nat

VARIABLES
    ds, task, socks, queues, items, reply,                  \* Disco
    pm, ctx, devices, port, netifs,                         \* WgSetup
    main,       \* where the main task is
    timer,      \* ticks until it goes on
    session,    \* sessions since the power came on
    polling,    \* s_map_running: the map task is there
    peers,      \* the table: "none", "bare" if the first has no endpoint, "full"
    public,     \* public_ip of peer_manager_t: whose socket it is for
    announced,  \* endpoint of the last map request, besides that of the LAN
    found,      \* history: the last session whose STUN request was answered in time
    bareSetUp,  \* history: WireGuard was set up from a "bare" table
    failures    \* power failures so far

Direct == INSTANCE Disco WITH MaxSessions <- MaxSessions, RecvTimeout <- RecvTimeout,
    QueueDepth <- QueueDepth, MaxItems <- MaxItems, ds <- ds, task <- task,
    socks <- socks, queues <- queues, items <- items, reply <- reply
Wg == INSTANCE WgSetup WITH MaxDevices <- MaxDevices, pm <- pm, ctx <- ctx,
    devices <- devices, port <- port, netifs <- netifs

discoVars == <<ds, task, socks, queues, items, reply>>
setupVars == <<pm, ctx, devices, port, netifs>>
announceVars == <<public, announced, found>>
countVars == <<bareSetUp, failures>>
mainVars == <<main, timer, session, polling, peers, announceVars, countVars>>
vars == <<keyVars, discoVars, setupVars, mainVars>>

None == 0

\* What a boot starts from, the keys and the history apart.
VolatileInit ==
    /\ main = "boot" /\ timer = 0 /\ session = 0
    /\ polling = FALSE /\ peers = "none"
    /\ public = None /\ announced = None /\ found = None /\ bareSetUp = FALSE

Init == KeyInit /\ Direct!Init /\ Wg!Init /\ VolatileInit /\ failures = 0

\* The main task goes on, at once or after a delay.
Goes(where) == main' = where /\ timer' = 0
After(delay, where) == main' = where /\ timer' = delay
At(where) == main = where /\ timer = 0

-----------------------------------------------------------------------------
(* The main task *)

KeyStep ==
    /\ PowerOn \/ Load \/ Erase \/ ErasedAll \/ WriteWord \/ Ready
    /\ UNCHANGED <<discoVars, setupVars, mainVars>>

\* pm_generate_keys has returned.
Booted ==
    /\ At("boot") /\ boot = "ready" /\ Goes("top")
    /\ UNCHANGED <<keyVars, discoVars, setupVars, session, polling, peers, announceVars, countVars>>

\* The control server is reached or not, or not to the end; a registered device
\* starts its DISCO task.
ConnectFails ==
    /\ At("top") /\ After(RetryDelay, "top")
    /\ Register \/ UNCHANGED keyVars
    /\ UNCHANGED <<discoVars, setupVars, session, polling, peers, announceVars, countVars>>

Connects ==
    /\ At("top") /\ session < MaxSessions
    /\ session' = session + 1
    /\ Register /\ Direct!StartTask(session')
    /\ After(StartDelay, "started")
    /\ UNCHANGED <<setupVars, polling, peers, announceVars, countVars>>

AsksStun ==
    /\ At("started") /\ Direct!SendStun /\ After(StunWait, "stun")
    /\ UNCHANGED <<keyVars, setupVars, session, polling, peers, announceVars, countVars>>

\* The wait ends with the answer or after three seconds.
StunWaited ==
    /\ main = "stun" /\ (ds.self # None \/ timer = 0)
    /\ found' = IF ds.self # None THEN session ELSE found
    /\ public' = IF ds.self # None THEN ds.self ELSE public
    /\ Goes("map")
    /\ UNCHANGED <<keyVars, discoVars, setupVars, session, polling, peers, announced, countVars>>

Tables == {"none", "bare", "full"}

\* pm_setup_wireguard from a table that is not empty.
SetUpFrom(t) ==
    /\ Wg!SetUp(t = "full")
    /\ bareSetUp' = (bareSetUp \/ t = "bare")

\* send_map_request: the endpoints are sent, and a table comes back or not.
MapRequest ==
    /\ At("map") /\ announced' = public
    /\ peers' \in Tables
    /\ Goes("setup")
    /\ UNCHANGED <<keyVars, discoVars, setupVars, session, polling, public, found, countVars>>

MapRequestFails ==
    /\ At("map") /\ announced' = public
    /\ Direct!disco_stop /\ After(RetryDelay, "top")
    /\ UNCHANGED <<keyVars, setupVars, session, polling, peers, public, found, countVars>>

\* With the relay up each peer has an address; then the map task starts.
SetsUp ==
    /\ At("setup")
    /\ \E t \in {peers, IF peers = "bare" THEN "full" ELSE peers} :
        /\ peers' = t
        /\ IF t = "none" THEN UNCHANGED <<setupVars, bareSetUp>> ELSE SetUpFrom(t)
    /\ polling' = TRUE /\ Goes("monitor")
    /\ UNCHANGED <<keyVars, discoVars, session, announceVars, failures>>

\* The map stream is closed: the DISCO task is told to stop, and WireGuard goes.
StopsDisco ==
    /\ At("monitor") /\ ~polling
    /\ Direct!disco_stop /\ Goes("stopped")
    /\ UNCHANGED <<keyVars, setupVars, session, polling, peers, announceVars, countVars>>

TearsDown ==
    /\ At("stopped") /\ Wg!TearDown /\ After(RetryDelay, "top")
    /\ UNCHANGED <<keyVars, discoVars, session, polling, peers, announceVars, countVars>>

MainNext ==
    \/ KeyStep \/ Booted \/ ConnectFails \/ Connects \/ AsksStun \/ StunWaited
    \/ MapRequest \/ MapRequestFails \/ SetsUp \/ StopsDisco \/ TearsDown

-----------------------------------------------------------------------------
(* The map task, the DISCO task, the output hook *)

\* An update: WireGuard is set up if it is not up yet.
MapUpdate ==
    /\ polling
    /\ \E t \in Tables \ {"none"} : peers' = t
    /\ IF pm.up THEN UNCHANGED <<setupVars, bareSetUp>> ELSE SetUpFrom(peers')
    /\ UNCHANGED <<keyVars, discoVars, main, timer, session, polling, announceVars, failures>>

MapEnds ==
    /\ polling /\ polling' = FALSE
    /\ UNCHANGED <<keyVars, discoVars, setupVars, main, timer, session, peers, announceVars, countVars>>

DiscoStep ==
    /\ Direct!TaskNext \/ Direct!StunLost
    /\ UNCHANGED <<keyVars, setupVars, mainVars>>

\* The hook is there while WireGuard is.
HookSends ==
    /\ pm.up /\ Direct!QueueDirect
    /\ UNCHANGED <<keyVars, setupVars, mainVars>>

-----------------------------------------------------------------------------
(* Time and power *)

\* A tick, when neither a task nor the main task has anything to do at once.
Tick ==
    /\ Direct!AllWaiting
    /\ timer > 0 \/ (main = "monitor" /\ polling)
    /\ timer' = IF timer > 0 THEN timer - 1 ELSE 0
    /\ Direct!TimePasses
    /\ UNCHANGED <<keyVars, setupVars, main, session, polling, peers, announceVars, countVars>>

PowerFails ==
    /\ failures < MaxFailures /\ failures' = failures + 1
    /\ KeysLost
    /\ ds' = Direct!Fresh /\ task' = [s \in Direct!Sessions |-> Direct!Idle]
    /\ socks' = {} /\ queues' = [s \in Direct!Sessions |-> <<>>] /\ items' = 0 /\ reply' = None
    /\ pm' = [ctx |-> FALSE, up |-> FALSE]
    /\ ctx' = [initialized |-> FALSE, device |-> None]
    /\ devices' = {} /\ port' = None /\ netifs' = <<"wifi">>
    /\ main' = "boot" /\ timer' = 0 /\ session' = 0 /\ polling' = FALSE /\ peers' = "none"
    /\ public' = None /\ announced' = None /\ found' = None /\ bareSetUp' = FALSE

Reset ==
    /\ main \notin {"boot"} /\ FactoryReset
    /\ UNCHANGED <<discoVars, setupVars, mainVars>>

Next ==
    \/ MainNext \/ MapUpdate \/ MapEnds \/ DiscoStep \/ HookSends
    \/ Tick \/ PowerFails \/ Reset

Spec == Init /\ [][Next]_vars

-----------------------------------------------------------------------------
(* Properties *)

\* A packet for a direct path leaves within one time-out of the recvfrom it waits for.
DirectDelay == Direct!DirectDelay

\* Whoever hands a packet to WireGuard because it is up finds a live device.
UpMeansLive == Wg!UpMeansLive

\* When the main task tries again, nothing of the session before is left: no task,
\* socket, device, timer, port or interface.  Sessions come and go for months.
NothingLeftBehind == At("top") => Direct!AllStopped /\ (Wg!AllReleased \/ bareSetUp)

\* peer_manager.c:662 "Peer endpoint (may be empty -- DISCO fills it later)": so
\* none is left after a session whose first peer had no endpoint, either.
BareTableReleased == At("top") => Wg!AllReleased

\* The public endpoint in a map request is the one that the last STUN answer in
\* time was for: this session's if it had one, and never that of another session
\* then.  A session without an answer announces what an earlier one found, whose
\* socket is closed, or nothing: ts_main.c:754 "STUN timeout - continuing with LAN
\* endpoint only" does not clear it.
Announcing == main \in {"setup", "monitor", "stopped"}
AnnouncedIsLastFound == Announcing => announced = found
=============================================================================
