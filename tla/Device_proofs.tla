---------------------------- MODULE Device_proofs ----------------------------
(***************************************************************************)
(* Two things about the whole device.  It keeps its keys the way KeyStore  *)
(* says: whatever the main task, the map task and the DISCO task do, a     *)
(* step of the device is a step of the key store or leaves it alone.  And  *)
(* where the main task is says what else can be alive, which is why no     *)
(* session leaves anything behind.                                         *)
(***************************************************************************)
EXTENDS Device, SequenceTheorems, TLAPS

-----------------------------------------------------------------------------
(* The key store by itself.  The device keeps its identity because keys    *)
(* are only replaced when the sector holds no valid record, and the server *)
(* is only told of keys that are in the sector: between the two, the boot  *)
(* goes through the steps of the write without telling anybody.            *)

LEMMA RecordType == ASSUME NEW k \in Identities PROVE Record(k) \in [Words -> Fields]
  BY DEF Record, Fields

LEMMA NothingType == Nothing \in [Words -> Fields]
  BY DEF Nothing, Fields

LEMMA InitKeyType == KeyInit => KeyTypeOK
<1> SUFFICES ASSUME KeyInit PROVE KeyTypeOK
  OBVIOUS
<1>1. [Nothing EXCEPT ![1] = Garbage] \in [Words -> Fields]
  BY NothingType, Garbage \in Fields DEF Fields
<1>2. sector \in [Words -> Fields] /\ ram \in [Words -> Fields]
  BY <1>1, NothingType DEF KeyInit
<1>3. written \in 0 .. RecordLen
  BY DEF KeyInit, RecordLen
<1> QED
  BY <1>2, <1>3 DEF KeyInit, KeyTypeOK

\* Every state has its type, whatever the flash holds after a power failure.
THEOREM KeyTypeCorrect == KeySpec => []KeyTypeOK
<1>1. KeyInit => KeyTypeOK
  BY InitKeyType
<1>2. KeyTypeOK /\ [KeyNext]_keyVars => KeyTypeOK'
  <2> SUFFICES ASSUME KeyTypeOK, [KeyNext]_keyVars PROVE KeyTypeOK'
    OBVIOUS
  <2>1. CASE PowerOn
    BY <2>1 DEF PowerOn, KeyTypeOK
  <2>2. CASE Load
    BY <2>2, RecordType DEF Load, KeyTypeOK
  <2>3. CASE Erase
    <3>1. sector' \in [Words -> Fields]
      BY <2>3 DEF Erase, KeyTypeOK, Fields
    <3> QED
      BY <2>3, <3>1 DEF Erase, KeyTypeOK
  <2>4. CASE ErasedAll
    BY <2>4, NothingType DEF ErasedAll, KeyTypeOK, RecordLen
  <2>5. CASE WriteWord
    <3>1. written + 1 \in Words
      BY <2>5 DEF WriteWord, KeyTypeOK, Words, RecordLen
    <3>2. ram[written + 1] \in Fields /\ Garbage \in Fields
      BY <3>1 DEF KeyTypeOK, Fields
    <3>3. sector' \in [Words -> Fields]
      BY <2>5, <3>1, <3>2 DEF WriteWord, KeyTypeOK
    <3> QED
      BY <2>5, <3>3 DEF WriteWord, KeyTypeOK, RecordLen
  <2>6. CASE Ready
    BY <2>6 DEF Ready, KeyTypeOK
  <2>7. CASE Register
    BY <2>7 DEF Register, KeyTypeOK
  <2>8. CASE FactoryReset
    BY <2>8, NothingType DEF FactoryReset, KeyTypeOK
  <2>9. CASE KeysLost
    <3>1. written' \in 0 .. RecordLen
      BY <2>9 DEF KeysLost, RecordLen
    <3> QED
      BY <2>9, <3>1, NothingType DEF KeysLost, KeyTypeOK
  <2>10. CASE UNCHANGED keyVars
    BY <2>10 DEF keyVars, KeyTypeOK
  <2> QED
    BY <2>1, <2>2, <2>3, <2>4, <2>5, <2>6, <2>7, <2>8, <2>9, <2>10 DEF KeyNext
<1> QED
  BY <1>1, <1>2, PTL DEF KeySpec

-----------------------------------------------------------------------------
\* While keys are being written nobody has been told of any.
Writing == {"erase", "erasing", "write"}
NoneWhileWriting == boot \in Writing => registered = {}

\* The keys being written are one triple ...
OneTriple == boot \in Writing => \E k \in Identities : ram = Record(k)

\* ... and what the sector holds of them is a prefix, on erased fields.
PrefixWritten ==
    boot = "write" => \A w \in Words : sector[w] = IF w <= written THEN ram[w] ELSE Erased

\* Keys in use are the keys in the sector, unless it was wiped.
UsedIsStored ==
    boot = "ready" /\ ~wiped => ram = sector /\ \E k \in Identities : ram = Record(k)

KeyInv ==
    /\ KeyTypeOK
    /\ IdentityKept /\ NoneWhileWriting /\ OneTriple /\ PrefixWritten /\ UsedIsStored

LEMMA InitKeyInv == KeyInit => KeyInv
BY InitKeyType DEF KeyInit, KeyInv, IdentityKept, NoneWhileWriting, OneTriple, PrefixWritten,
     UsedIsStored, Writing

LEMMA StepKeyInv == KeyTypeOK' /\ KeyInv /\ [KeyNext]_keyVars => KeyInv'
<1> SUFFICES ASSUME KeyTypeOK', KeyInv, [KeyNext]_keyVars PROVE KeyInv'
  OBVIOUS
<1> USE DEF KeyInv
<1>1. CASE PowerOn
  BY <1>1 DEF PowerOn, IdentityKept, NoneWhileWriting, OneTriple, PrefixWritten,
     UsedIsStored, Writing
<1>2. CASE Load
  <2>1. CASE Valid(sector)
    <3>1. ram' = sector' /\ \E k \in Identities : ram' = Record(k)
      BY <1>2, <2>1 DEF Load, Valid
    <3> QED
      BY <1>2, <2>1, <3>1 DEF Load, IdentityKept, NoneWhileWriting, OneTriple,
         PrefixWritten, UsedIsStored, Writing
  <2>2. CASE ~Valid(sector)
    <3>1. registered = {}
      BY <2>2 DEF Valid, IdentityKept
    <3>2. boot' = "erase" /\ registered' = {} /\ \E k \in Identities : ram' = Record(k)
      BY <1>2, <2>2, <3>1 DEF Load
    <3> QED
      BY <3>2 DEF IdentityKept, NoneWhileWriting, OneTriple, PrefixWritten, UsedIsStored,
         Writing
  <2> QED
    BY <2>1, <2>2
<1>3. CASE Erase
  <2>1. boot' = "erasing" /\ registered' = {} /\ ram' = ram
    BY <1>3 DEF Erase, NoneWhileWriting, Writing
  <2>2. \E k \in Identities : ram = Record(k)
    BY <1>3 DEF Erase, OneTriple, Writing
  <2> QED
    BY <2>1, <2>2 DEF IdentityKept, NoneWhileWriting, OneTriple, PrefixWritten,
       UsedIsStored, Writing
<1>4. CASE ErasedAll
  <2>1. boot' = "write" /\ registered' = {} /\ ram' = ram /\ written' = 0 /\ sector' = Nothing
    BY <1>4 DEF ErasedAll, NoneWhileWriting, Writing
  <2>2. \E k \in Identities : ram = Record(k)
    BY <1>4 DEF ErasedAll, OneTriple, Writing
  <2>3. PrefixWritten'
    BY <2>1 DEF PrefixWritten, Nothing, Words, RecordLen
  <2> QED
    BY <2>1, <2>2, <2>3 DEF IdentityKept, NoneWhileWriting, OneTriple, UsedIsStored, Writing
<1>5. CASE WriteWord
  <2>1. boot' = "write" /\ registered' = {} /\ ram' = ram /\ written' = written + 1
    BY <1>5 DEF WriteWord, NoneWhileWriting, Writing
  <2>2. \E k \in Identities : ram = Record(k)
    BY <1>5 DEF WriteWord, OneTriple, Writing
  <2>3. PrefixWritten'
    BY <1>5, <2>1 DEF WriteWord, PrefixWritten, KeyTypeOK, Words, RecordLen
  <2> QED
    BY <2>1, <2>2, <2>3 DEF IdentityKept, NoneWhileWriting, OneTriple, UsedIsStored, Writing
<1>6. CASE Ready
  <2>1. boot' = "ready" /\ registered' = {} /\ ram' = ram /\ sector' = sector
    BY <1>6 DEF Ready, Saved, NoneWhileWriting, Writing
  <2>2. \A w \in Words : sector[w] = ram[w]
    BY <1>6 DEF Ready, Saved, PrefixWritten, Words, RecordLen
  <2>3. ram = sector
    BY <2>2 DEF KeyTypeOK
  <2>4. \E k \in Identities : ram = Record(k)
    BY <1>6 DEF Ready, Saved, OneTriple, Writing
  <2> QED
    BY <2>1, <2>3, <2>4 DEF IdentityKept, NoneWhileWriting, OneTriple, PrefixWritten,
       UsedIsStored, Writing
<1>7. CASE Register
  <2>1. boot' = "ready" /\ UNCHANGED <<sector, ram, wiped>>
    BY <1>7 DEF Register
  <2>2. IdentityKept'
    BY <1>7 DEF Register, IdentityKept, UsedIsStored
  <2> QED
    BY <1>7, <2>1, <2>2 DEF Register, NoneWhileWriting, OneTriple, PrefixWritten, UsedIsStored,
       Writing
<1>8. CASE FactoryReset
  BY <1>8 DEF FactoryReset, IdentityKept, NoneWhileWriting, OneTriple, PrefixWritten,
     UsedIsStored, Writing
<1>9. CASE KeysLost
  BY <1>9 DEF KeysLost, IdentityKept, NoneWhileWriting, OneTriple, PrefixWritten,
     UsedIsStored, Writing
<1>10. CASE UNCHANGED keyVars
  BY <1>10 DEF keyVars, IdentityKept, NoneWhileWriting, OneTriple, PrefixWritten,
     UsedIsStored
<1> QED
  BY <1>1, <1>2, <1>3, <1>4, <1>5, <1>6, <1>7, <1>8, <1>9, <1>10 DEF KeyNext

\* Whatever step of a boot the power fails at, and however often, the keys the
\* control server knows are the ones in the flash.
THEOREM IdentitySurvives == KeySpec => []IdentityKept
<1>1. KeyInv => IdentityKept
  BY DEF KeyInv
<1> QED
  BY <1>1, InitKeyInv, StepKeyInv, KeyTypeCorrect, PTL DEF KeySpec

-----------------------------------------------------------------------------
(* The key store in the device *)

LEMMA MainKeeps == MainNext => KeyNext \/ UNCHANGED keyVars
<1> SUFFICES ASSUME MainNext PROVE KeyNext \/ UNCHANGED keyVars
  OBVIOUS
<1>1. CASE KeyStep
  BY <1>1 DEF KeyStep, KeyNext
<1>2. CASE Booted
  BY <1>2 DEF Booted
<1>3. CASE ConnectFails
  BY <1>3 DEF ConnectFails, KeyNext
<1>4. CASE Connects
  BY <1>4 DEF Connects, KeyNext
<1>5. CASE AsksStun
  BY <1>5 DEF AsksStun
<1>6. CASE StunWaited
  BY <1>6 DEF StunWaited
<1>7. CASE MapRequest
  BY <1>7 DEF MapRequest
<1>8. CASE MapRequestFails
  BY <1>8 DEF MapRequestFails
<1>9. CASE SetsUp
  BY <1>9 DEF SetsUp
<1>10. CASE StopsDisco
  BY <1>10 DEF StopsDisco
<1>11. CASE TearsDown
  BY <1>11 DEF TearsDown
<1> QED
  BY <1>1, <1>2, <1>3, <1>4, <1>5, <1>6, <1>7, <1>8, <1>9, <1>10, <1>11 DEF MainNext

LEMMA DeviceKeeps == [Next]_vars => [KeyNext]_keyVars
<1> SUFFICES ASSUME [Next]_vars PROVE KeyNext \/ UNCHANGED keyVars
  OBVIOUS
<1>1. CASE MainNext
  BY <1>1, MainKeeps
<1>2. CASE MapUpdate
  BY <1>2 DEF MapUpdate
<1>3. CASE MapEnds
  BY <1>3 DEF MapEnds
<1>4. CASE DiscoStep
  BY <1>4 DEF DiscoStep
<1>5. CASE HookSends
  BY <1>5 DEF HookSends
<1>6. CASE Tick
  BY <1>6 DEF Tick
<1>7. CASE PowerFails
  BY <1>7 DEF PowerFails, KeyNext
<1>8. CASE Reset
  BY <1>8 DEF Reset, KeyNext
<1>9. CASE UNCHANGED vars
  BY <1>9 DEF vars
<1> QED
  BY <1>1, <1>2, <1>3, <1>4, <1>5, <1>6, <1>7, <1>8, <1>9 DEF Next

\* The device of ts_main.c implements the key store alone, for any number of
\* sessions, sockets, devices and power failures.
THEOREM DeviceImplementsKeyStore == Spec => KeySpec
<1>1. Init => KeyInit
  BY DEF Init
<1>2. [Next]_vars => [KeyNext]_keyVars
  BY DeviceKeeps
<1> QED
  BY <1>1, <1>2, PTL DEF Spec, KeySpec

\* At every moment of a device's life, power failures included, the keys the control
\* server knows it by are whole in its flash.
THEOREM DeviceKeepsIdentity == Spec => []IdentityKept
BY DeviceImplementsKeyStore, IdentitySurvives, PTL
-----------------------------------------------------------------------------
(* What a session leaves behind.  Each of the three parts has an invariant *)
(* of its own, and the main task ties them together: where it is says      *)
(* which of them can be alive.                                             *)

Places == {"boot", "top", "started", "stun", "map", "setup", "monitor", "stopped"}

DiscoStates == [running : BOOLEAN, sock : 0 .. MaxSessions, queue : 0 .. MaxSessions,
                stun : 0 .. MaxSessions, self : 0 .. MaxSessions]
Tasks == [at : {"none", "create", "top", "recv"}, left : 0 .. RecvTimeout]
Managers == [ctx : BOOLEAN, up : BOOLEAN]
Contexts == [initialized : BOOLEAN, device : 0 .. MaxDevices]

\* Each variable keeps its kind.
DeviceTypeOK ==
    /\ main \in Places /\ timer \in 0 .. RetryDelay /\ session \in 0 .. MaxSessions
    /\ polling \in BOOLEAN /\ peers \in Tables /\ found \in 0 .. MaxSessions /\ bareSetUp \in BOOLEAN
    /\ ds \in DiscoStates
    /\ task \in [1 .. MaxSessions -> Tasks]
    /\ socks \subseteq 1 .. MaxSessions /\ queues \in [1 .. MaxSessions -> Seq(Nat)]
    /\ items \in Nat /\ reply \in 0 .. MaxSessions
    /\ pm \in Managers
    /\ ctx \in Contexts
    /\ port \in 0 .. MaxDevices

\* The tasks of all sessions but the present one are gone, with their sockets.
TaskInv ==
    /\ \A s \in 1 .. MaxSessions :
         /\ task[s].at # "none" => s = session /\ main # "boot"
         /\ task[s].at = "create" =>
              /\ main = "started" /\ timer = StartDelay
              /\ ds.queue = None /\ ds.sock = None /\ queues[s] = <<>> /\ socks = {}
         /\ task[s].at \in {"top", "recv"} => ds.queue = s /\ ds.sock = s /\ socks = {s}
         /\ s > session => queues[s] = <<>>
    /\ (\A s \in 1 .. MaxSessions : task[s].at = "none") =>
         ~ds.running /\ socks = {} /\ ds.sock = None
    /\ main \in {"boot", "top", "stopped"} => ~ds.running
    /\ ds.queue <= session

\* A task that was told to stop is gone before the main task tries again.
StopInv ==
    main = "top" => \A s \in 1 .. MaxSessions : task[s].at # "none" =>
        /\ timer >= RetryDelay - RecvTimeout
        /\ task[s].at = "recv" => timer >= RetryDelay - RecvTimeout + task[s].left

\* A packet has waited no longer than the task has been in recvfrom.
QueueInv ==
    \A s \in 1 .. MaxSessions : task[s].at \in {"top", "recv"} /\ ds.running =>
        \A i \in DOMAIN queues[s] :
            /\ queues[s][i] <= RecvTimeout
            /\ task[s].at = "recv" => queues[s][i] <= RecvTimeout - task[s].left

\* WireGuard: all there, all gone, or the context lost with the port still taken.
WgLive ==
    /\ pm.ctx /\ ctx.initialized /\ ctx.device # None
    /\ devices = {ctx.device} /\ port = ctx.device /\ netifs = <<"wg", "wifi">>
WgGone ==
    ~pm.up /\ ~pm.ctx /\ ~ctx.initialized /\ devices = {} /\ port = None /\ netifs = <<"wifi">>
WgLost == ~pm.up /\ ~ctx.initialized /\ port # None

SetupInv ==
    /\ WgLive \/ WgGone \/ (WgLost /\ bareSetUp)
    /\ WgLive => (pm.up \/ bareSetUp) /\ main \in {"monitor", "stopped"}
    /\ polling => main = "monitor"

\* The endpoint STUN found is that of the socket of this session, and the one kept
\* for the map requests is the last that was found.
AnnounceInv ==
    /\ ds.self # None => ds.self = session
    /\ public = found
    /\ Announcing => announced = public

DeviceInv == DeviceTypeOK /\ TaskInv /\ StopInv /\ QueueInv /\ SetupInv /\ AnnounceInv
-----------------------------------------------------------------------------
(* Types *)

ActionCases == \/ KeyStep \/ Reset \/ Booted \/ ConnectFails \/ Connects \/ AsksStun
               \/ StunWaited \/ MapRequest \/ MapRequestFails \/ SetsUp \/ StopsDisco \/ TearsDown
               \/ MapUpdate \/ MapEnds \/ DiscoStep \/ HookSends \/ Tick \/ PowerFails
               \/ UNCHANGED vars

LEMMA NextCases == [Next]_vars => ActionCases
BY DEF Next, MainNext, ActionCases

LEMMA Positive ==
    /\ MaxSessions \in Nat /\ MaxSessions > 0 /\ RecvTimeout \in Nat /\ RecvTimeout > 0
    /\ QueueDepth \in Nat /\ MaxItems \in Nat /\ MaxDevices \in Nat
    /\ StartDelay \in Nat /\ StartDelay > 0 /\ StunWait \in Nat /\ RetryDelay \in Nat
    /\ StartDelay < RetryDelay /\ StunWait < RetryDelay /\ RecvTimeout < RetryDelay
<1>1. /\ MaxSessions \in Nat \ {0} /\ RecvTimeout \in Nat \ {0} /\ QueueDepth \in Nat \ {0}
      /\ MaxItems \in Nat \ {0} /\ MaxDevices \in Nat \ {0}
      /\ StartDelay \in Nat \ {0} /\ StunWait \in Nat \ {0} /\ RetryDelay \in Nat \ {0}
  BY DeviceAssumption
<1> QED
  BY <1>1, DeviceAssumption

\* Updates of the DISCO structure and of its tasks.
LEMMA DiscoUpdates ==
    ASSUME NEW d \in DiscoStates, NEW x \in 0 .. MaxSessions, NEW b \in BOOLEAN
    PROVE  /\ [d EXCEPT !.running = b] \in DiscoStates
           /\ [d EXCEPT !.sock = x] \in DiscoStates
           /\ [d EXCEPT !.stun = x] \in DiscoStates
           /\ [d EXCEPT !.queue = x, !.sock = x] \in DiscoStates
           /\ [d EXCEPT !.queue = x, !.sock = 0, !.running = FALSE] \in DiscoStates
           /\ [d EXCEPT !.self = x, !.stun = 0] \in DiscoStates
<1>1. 0 \in 0 .. MaxSessions
  BY Positive
<1>2. /\ [d EXCEPT !.running = b] \in DiscoStates
      /\ [d EXCEPT !.sock = x] \in DiscoStates
      /\ [d EXCEPT !.stun = x] \in DiscoStates
  BY DEF DiscoStates
<1>3. [d EXCEPT !.queue = x, !.sock = x] \in DiscoStates
  BY DEF DiscoStates
<1>4. [d EXCEPT !.queue = x, !.sock = 0, !.running = FALSE] \in DiscoStates
  BY <1>1 DEF DiscoStates
<1>5. [d EXCEPT !.self = x, !.stun = 0] \in DiscoStates
  BY <1>1 DEF DiscoStates
<1> QED
  BY <1>2, <1>3, <1>4, <1>5

LEMMA DiscoFresh == Direct!Fresh \in DiscoStates /\ Direct!Idle \in Tasks
BY Positive DEF Direct!Fresh, Direct!Idle, Direct!None, DiscoStates, Tasks

\* The number of an allocated device is one of the bounded range.
LEMMA SetUpTypes ==
    ASSUME DeviceTypeOK, NEW b \in BOOLEAN, Wg!SetUp(b)
    PROVE  /\ pm' \in Managers
           /\ ctx' \in Contexts
           /\ port' \in 0 .. MaxDevices
<1>1. MaxDevices \in Nat
  BY Positive
<1>2. CASE Wg!PortTaken
  BY <1>1, <1>2 DEF Wg!PortTaken, Wg!None, DeviceTypeOK, Contexts
<1>3. CASE ~Wg!PortTaken
  <2>1. PICK d \in 1 .. MaxDevices : Wg!CreateDevice(d)
    BY <1>3 DEF Wg!SetUp, Wg!Devices
  <2>2. pm' = [ctx |-> TRUE, up |-> b]
    BY <1>3 DEF Wg!SetUp
  <2> QED
    BY <2>1, <2>2 DEF Wg!CreateDevice, Managers, Contexts
<1> QED
  BY <1>2, <1>3

LEMMA TearDownTypes ==
    ASSUME DeviceTypeOK, Wg!TearDown
    PROVE  /\ pm' \in Managers
           /\ ctx' \in Contexts
           /\ port' \in 0 .. MaxDevices
<1>1. 0 \in 0 .. MaxDevices
  BY Positive
<1>2. pm' \in Managers
  BY DEF Wg!TearDown, Managers
<1>3. ctx' \in Contexts
  <2>1. ctx' = ctx \/ ctx' = [initialized |-> FALSE, device |-> 0]
    BY DEF Wg!TearDown, Wg!None
  <2>2. [initialized |-> FALSE, device |-> 0] \in Contexts
    BY <1>1 DEF Contexts
  <2>3. ctx \in Contexts
    BY DEF DeviceTypeOK
  <2> QED
    BY <2>1, <2>2, <2>3, Zenon
<1>4. port' \in 0 .. MaxDevices
  BY <1>1 DEF Wg!TearDown, Wg!None, DeviceTypeOK
<1> QED
  BY <1>2, <1>3, <1>4

LEMMA DiscoTypes ==
    ASSUME DeviceTypeOK, Direct!TaskNext \/ Direct!StunLost
    PROVE  /\ ds' \in DiscoStates
           /\ task' \in [1 .. MaxSessions -> Tasks]
           /\ socks' \subseteq 1 .. MaxSessions /\ queues' \in [1 .. MaxSessions -> Seq(Nat)]
           /\ items' \in Nat /\ reply' \in 0 .. MaxSessions
<1> USE DEF DeviceTypeOK
<1>1. MaxSessions \in Nat /\ RecvTimeout \in Nat
  BY Positive
<1>2. CASE Direct!StunLost
  BY <1>1, <1>2 DEF Direct!StunLost, Direct!None
<1>3. ASSUME NEW s \in 1 .. MaxSessions, NEW where \in {"none", "create", "top", "recv"},
             Direct!Goes(s, where)
      PROVE  task' \in [1 .. MaxSessions -> Tasks]
  BY <1>1, <1>3 DEF Direct!Goes, Tasks
<1>4. ASSUME NEW s \in 1 .. MaxSessions, Direct!Create(s)
      PROVE  /\ ds' \in DiscoStates
             /\ socks' \subseteq 1 .. MaxSessions /\ UNCHANGED <<queues, items, reply>>
             /\ Direct!Goes(s, "top") \/ Direct!Goes(s, "none")
  <2>1. s \in 0 .. MaxSessions
    BY <1>1
  <2>2. /\ \/ ds' = [ds EXCEPT !.queue = s, !.sock = s]
           \/ ds' = [ds EXCEPT !.queue = s, !.sock = 0, !.running = FALSE]
        /\ UNCHANGED <<queues, items, reply>>
        /\ Direct!Goes(s, "top") \/ Direct!Goes(s, "none")
        /\ socks' = socks \union {s} \/ socks' = socks
    BY <1>4 DEF Direct!Create, Direct!None
  <2>3. ds' \in DiscoStates
    BY <2>1, <2>2, DiscoUpdates
  <2> QED
    BY <2>2, <2>3
<1>5. ASSUME NEW s \in 1 .. MaxSessions, Direct!Loop(s)
      PROVE  /\ UNCHANGED <<ds, socks, items, reply>>
             /\ task' = [task EXCEPT ![s] = [at |-> "recv", left |-> RecvTimeout]]
             /\ queues' = [queues EXCEPT ![ds.queue] = <<>>]
  BY <1>5 DEF Direct!Loop, Direct!Drained
<1>6. ASSUME NEW s \in 1 .. MaxSessions, Direct!StunAnswer(s)
      PROVE  /\ ds' \in DiscoStates
             /\ reply' = 0 /\ UNCHANGED <<socks, queues, items>> /\ Direct!Goes(s, "top")
  <2>1. /\ ds' = [ds EXCEPT !.self = ds.sock, !.stun = 0] \/ ds' = ds
        /\ reply' = 0 /\ UNCHANGED <<socks, queues, items>> /\ Direct!Goes(s, "top")
    BY <1>6 DEF Direct!StunAnswer, Direct!None
  <2>2. ds.sock \in 0 .. MaxSessions
    BY DEF DiscoStates
  <2>3. ds' \in DiscoStates
    <3>1. [ds EXCEPT !.self = ds.sock, !.stun = 0] \in DiscoStates
      BY <2>2, DiscoUpdates
    <3> QED
      BY <2>1, <3>1
  <2> QED
    BY <2>1, <2>3
<1>7. ASSUME NEW s \in 1 .. MaxSessions, Direct!Wakes(s)
      PROVE  UNCHANGED <<ds, socks, queues, items, reply>> /\ Direct!Goes(s, "top")
  BY <1>7 DEF Direct!Wakes
<1>8. ASSUME NEW s \in 1 .. MaxSessions, Direct!Leave(s)
      PROVE  /\ ds' \in DiscoStates
             /\ socks' \subseteq 1 .. MaxSessions /\ UNCHANGED <<queues, items, reply>>
             /\ Direct!Goes(s, "none")
  <2>1. /\ ds' = [ds EXCEPT !.sock = 0] /\ socks' \subseteq socks
        /\ UNCHANGED <<queues, items, reply>> /\ Direct!Goes(s, "none")
    BY <1>8 DEF Direct!Leave, Direct!None
  <2>2. 0 \in 0 .. MaxSessions
    BY <1>1
  <2>3. ds' \in DiscoStates
    BY <2>1, <2>2, DiscoUpdates
  <2> QED
    BY <2>1, <2>3
<1>9. CASE Direct!TaskNext
  <2>1. PICK s \in 1 .. MaxSessions :
          Direct!Create(s) \/ Direct!Loop(s) \/ Direct!StunAnswer(s) \/ Direct!Wakes(s) \/ Direct!Leave(s)
    BY <1>9 DEF Direct!TaskNext, Direct!Sessions
  <2>2. CASE Direct!Create(s)
    BY <1>3, <1>4, <2>2
  <2>3. CASE Direct!Loop(s)
    <3>1. [at |-> "recv", left |-> RecvTimeout] \in Tasks
      BY <1>1 DEF Tasks
    <3>2. task' \in [1 .. MaxSessions -> Tasks]
      BY <1>5, <2>3, <3>1
    <3>3. queues' \in [1 .. MaxSessions -> Seq(Nat)]
      <4>1. \A q \in Seq(Nat) : [queues EXCEPT ![ds.queue] = q] \in [1 .. MaxSessions -> Seq(Nat)]
        OBVIOUS
      <4>2. <<>> \in Seq(Nat)
        OBVIOUS
      <4>3. [queues EXCEPT ![ds.queue] = <<>>] \in [1 .. MaxSessions -> Seq(Nat)]
        BY <4>1, <4>2, Zenon
      <4> QED
        BY <1>5, <2>3, <4>3, Zenon
    <3> QED
      BY <1>5, <2>3, <3>2, <3>3
  <2>4. CASE Direct!StunAnswer(s)
    <3>1. task' \in [1 .. MaxSessions -> Tasks] /\ 0 \in 0 .. MaxSessions
      BY <1>1, <1>3, <1>6, <2>4
    <3> QED
      BY <1>6, <2>4, <3>1
  <2>5. CASE Direct!Wakes(s)
    BY <1>3, <1>7, <2>5
  <2>6. CASE Direct!Leave(s)
    BY <1>3, <1>8, <2>6
  <2> QED
    BY <2>1, <2>2, <2>3, <2>4, <2>5, <2>6
<1> QED
  BY <1>2, <1>9

LEMMA DeviceTypeStep == DeviceTypeOK /\ [Next]_vars => DeviceTypeOK'
<1> SUFFICES ASSUME DeviceTypeOK, ActionCases PROVE DeviceTypeOK'
  BY NextCases
<1>0. /\ 0 \in 0 .. RetryDelay /\ StartDelay \in 0 .. RetryDelay /\ StunWait \in 0 .. RetryDelay
      /\ RetryDelay \in 0 .. RetryDelay /\ 0 \in 0 .. MaxSessions /\ 0 \in 0 .. MaxDevices
  BY Positive
<1> USE DEF DeviceTypeOK, Places, At, Goes, After, discoVars, setupVars, announceVars, countVars, mainVars
<1>1. CASE KeyStep \/ Reset \/ UNCHANGED vars
  BY <1>1 DEF KeyStep, Reset, vars
<1>2. CASE Booted \/ ConnectFails
  BY <1>0, <1>2 DEF Booted, ConnectFails, keyVars
<1>3. CASE Connects
  <2>1. session' \in 0 .. MaxSessions /\ session' \in 1 .. MaxSessions
    BY <1>3, Positive DEF Connects
  <2>2. task' \in [1 .. MaxSessions -> Tasks]
    <3>1. task' = [task EXCEPT ![session'] = [Direct!Idle EXCEPT !.at = "create"]]
      BY <1>3 DEF Connects, Direct!StartTask
    <3>2. [Direct!Idle EXCEPT !.at = "create"] \in Tasks
      BY DiscoFresh DEF Tasks
    <3> QED
      BY <3>1, <3>2
  <2>3. ds' \in DiscoStates
    <3>1. ds' = [Direct!Fresh EXCEPT !.running = TRUE]
      BY <1>3 DEF Connects, Direct!StartTask, Direct!disco_init
    <3> QED
      BY <1>0, <3>1, DiscoFresh, DiscoUpdates
  <2> QED
    BY <1>0, <1>3, <2>1, <2>2, <2>3 DEF Connects, Direct!StartTask
<1>4. CASE AsksStun
  <2>1. /\ \/ ds' = [ds EXCEPT !.stun = ds.sock] /\ reply' = ds.sock
           \/ UNCHANGED <<ds, reply>>
        /\ UNCHANGED <<task, socks, queues, items>>
    BY <1>4 DEF AsksStun, Direct!SendStun
  <2>2. ds.sock \in 0 .. MaxSessions
    BY DEF DiscoStates
  <2>3. ds' \in DiscoStates /\ reply' \in 0 .. MaxSessions
    BY <2>1, <2>2, DiscoUpdates
  <2> QED
    BY <1>0, <1>4, <2>1, <2>3 DEF AsksStun
<1>5. CASE StunWaited
  BY <1>0, <1>5 DEF StunWaited
<1>6. CASE MapRequest
  BY <1>0, <1>6 DEF MapRequest
<1>7. CASE MapRequestFails
  <2>1. ds' \in DiscoStates /\ UNCHANGED <<task, socks, queues, items, reply>>
    BY <1>0, <1>7, DiscoUpdates DEF MapRequestFails, Direct!disco_stop, Direct!Stopped
  <2> QED
    BY <1>0, <1>7, <2>1 DEF MapRequestFails
<1>8. CASE SetsUp
  <2>1. PICK t \in {peers, IF peers = "bare" THEN "full" ELSE peers} :
          /\ peers' = t
          /\ IF t = "none" THEN UNCHANGED <<setupVars, bareSetUp>> ELSE SetUpFrom(t)
    BY <1>8 DEF SetsUp
  <2>2. /\ pm' \in Managers /\ bareSetUp' \in BOOLEAN
        /\ ctx' \in Contexts /\ port' \in 0 .. MaxDevices
    BY <2>1, SetUpTypes DEF SetUpFrom
  <2>3. peers' \in Tables
    BY <2>1 DEF Tables
  <2> QED
    BY <1>0, <1>8, <2>2, <2>3 DEF SetsUp
<1>9. CASE StopsDisco
  <2>1. ds' \in DiscoStates /\ UNCHANGED <<task, socks, queues, items, reply>>
    BY <1>0, <1>9, DiscoUpdates DEF StopsDisco, Direct!disco_stop, Direct!Stopped
  <2> QED
    BY <1>0, <1>9, <2>1 DEF StopsDisco
<1>10. CASE TearsDown
  <2>1. pm' \in Managers /\ ctx' \in Contexts /\ port' \in 0 .. MaxDevices
    BY <1>10, TearDownTypes DEF TearsDown
  <2> QED
    BY <1>0, <1>10, <2>1 DEF TearsDown
<1>11. CASE MapUpdate
  <2>1. /\ pm' \in Managers /\ bareSetUp' \in BOOLEAN
        /\ ctx' \in Contexts /\ port' \in 0 .. MaxDevices
    BY <1>11, SetUpTypes DEF MapUpdate, SetUpFrom
  <2> QED
    BY <1>11, <2>1 DEF MapUpdate, Tables
<1>12. CASE MapEnds
  BY <1>12 DEF MapEnds
<1>13. CASE DiscoStep
  BY <1>13, DiscoTypes DEF DiscoStep
<1>14. CASE HookSends
  <2>1. queues' \in [1 .. MaxSessions -> Seq(Nat)]
    <3>1. ds.queue \in 1 .. MaxSessions
      BY <1>14, Positive DEF HookSends, Direct!QueueDirect, Direct!None, DiscoStates
    <3>2. Append(queues[ds.queue], 0) \in Seq(Nat)
      BY <3>1
    <3> QED
      BY <1>14, <3>1, <3>2 DEF HookSends, Direct!QueueDirect
  <2>2. items' \in Nat
    BY <1>14 DEF HookSends, Direct!QueueDirect
  <2> QED
    BY <1>14, <2>1, <2>2 DEF HookSends, Direct!QueueDirect
<1>15. CASE Tick
  <2>1. timer' \in 0 .. RetryDelay
    BY <1>15, Positive DEF Tick
  <2>2. task' \in [1 .. MaxSessions -> Tasks]
    <3>1. ASSUME NEW s \in 1 .. MaxSessions, task[s].at = "recv"
          PROVE  [task[s] EXCEPT !.left = @ - 1] \in
                    Tasks
      <4>1. task[s].left > 0
        BY <1>15, <3>1 DEF Tick, Direct!AllWaiting, Direct!Waiting, Direct!Sessions
      <4>2. task[s].left - 1 \in 0 .. RecvTimeout
        BY <4>1, Positive DEF Tasks
      <4> QED
        BY <3>1, <4>2 DEF Tasks
    <3> QED
      BY <1>15, <3>1 DEF Tick, Direct!TimePasses, Direct!Sessions
  <2>3. queues' \in [1 .. MaxSessions -> Seq(Nat)]
    <3>1. ASSUME NEW q \in Seq(Nat) PROVE Direct!Older(q) \in Seq(Nat)
      <4>1. DOMAIN q = 1 .. Len(q) /\ Len(q) \in Nat /\ \A i \in 1 .. Len(q) : q[i] + 1 \in Nat
        OBVIOUS
      <4>2. Direct!Older(q) = [i \in 1 .. Len(q) |-> q[i] + 1]
        BY <4>1 DEF Direct!Older
      <4>3. [i \in 1 .. Len(q) |-> q[i] + 1] \in [1 .. Len(q) -> Nat]
        BY <4>1
      <4> QED
        BY <4>1, <4>2, <4>3
    <3>2. CASE ds.running /\ ds.queue # None
      <4>1. ds.queue \in 1 .. MaxSessions
        BY <3>2, Positive DEF None, DiscoStates
      <4> QED
        BY <1>15, <3>1, <3>2, <4>1 DEF Tick, Direct!TimePasses, Direct!None, None
    <3>3. CASE ~(ds.running /\ ds.queue # None)
      BY <1>15, <3>3 DEF Tick, Direct!TimePasses, Direct!None, None
    <3> QED
      BY <3>2, <3>3
  <2> QED
    BY <1>15, <2>1, <2>2, <2>3 DEF Tick, Direct!TimePasses
<1>16. CASE PowerFails
  <2>1. task' \in [1 .. MaxSessions -> Tasks]
    BY <1>16, DiscoFresh DEF PowerFails, Direct!Sessions
  <2>2. queues' \in [1 .. MaxSessions -> Seq(Nat)]
    BY <1>16 DEF PowerFails, Direct!Sessions
  <2> QED
    BY <1>0, <1>16, <2>1, <2>2, DiscoFresh DEF PowerFails, None, Tables, Managers, Contexts
<1> QED
  BY <1>1, <1>2, <1>3, <1>4, <1>5, <1>6, <1>7, <1>8, <1>9, <1>10, <1>11, <1>12, <1>13, <1>14,
     <1>15, <1>16 DEF ActionCases
-----------------------------------------------------------------------------
(* WireGuard *)

LEMMA PairOfLists == ASSUME NEW x, NEW y PROVE <<x>> \o <<y>> = <<x, y>>
<1> DEFINE S == {x, y}
           s == <<x>> \o <<y>>
           t == <<x, y>>
<1>1. s \in Seq(S) /\ t \in Seq(S)
  OBVIOUS
<1>2. Len(s) = 2 /\ Len(t) = 2
  OBVIOUS
<1>3. s[1] = t[1] /\ s[2] = t[2]
  OBVIOUS
<1>4. \A i \in 1 .. Len(s) : s[i] = t[i]
  BY <1>2, <1>3
<1> HIDE DEF s, t, S
<1>5. s = t
  BY <1>1, <1>2, <1>4, SeqEqual
<1> QED
  BY <1>5 DEF s, t

LEMMA SecondOfPair == ASSUME NEW x, NEW y PROVE SubSeq(<<x, y>>, 2, 2) = <<y>>
<1> DEFINE S == {x, y}
           s == SubSeq(<<x, y>>, 2, 2)
           t == <<y>>
<1>1. t \in Seq(S)
  OBVIOUS
<1>2. Len(t) = 1 /\ t[1] = y
  OBVIOUS
<1>3. s \in Seq(S) /\ Len(s) = 1 /\ s[1] = y
  <2> DEFINE l == <<x, y>>
  <2>1. l[2] = y
    OBVIOUS
  <2> HIDE DEF l
  <2>2. \A i \in 2 .. 2 : l[i] \in S
    BY <2>1
  <2>3. SubSeq(l, 2, 2) \in Seq(S) /\ Len(SubSeq(l, 2, 2)) = 1 /\ SubSeq(l, 2, 2)[1] = y
    BY <2>1, <2>2, SubSeqProperties
  <2> QED
    BY <2>3 DEF l
<1>4. \A i \in 1 .. Len(s) : s[i] = t[i]
  BY <1>2, <1>3
<1> HIDE DEF s, t, S
<1>5. s = t
  BY <1>1, <1>2, <1>3, <1>4, SeqEqual
<1> QED
  BY <1>5 DEF s, t

\* The interface goes to the front of lwIP's list and is taken out again.
LEMMA Interfaces ==
    /\ Wg!Cleared(<<"wifi">>) = <<"wifi">>
    /\ Wg!RemoveFirst(<<"wg", "wifi">>, "wg") = <<"wifi">>
<1>1. ~Wg!Contains(<<"wifi">>, "wg")
  BY DEF Wg!Contains
<1>2. Wg!Cleared(<<"wifi">>) = <<"wifi">>
  BY <1>1 DEF Wg!Cleared
<1> DEFINE l == <<"wg", "wifi">>
<1>3. Len(l) = 2 /\ l[1] = "wg" /\ l[2] = "wifi"
  OBVIOUS
<1>4. {i \in 1 .. Len(l) : l[i] = "wg"} = {1}
  BY <1>3
<1>5. Wg!SelectInSeq(l, LAMBDA v : v = "wg") = 1
  BY <1>4 DEF Wg!SelectInSeq, Wg!Min
<1>6. Wg!RemoveFirst(l, "wg") = Wg!RemoveAt(l, 1)
  BY <1>3, <1>5 DEF Wg!RemoveFirst
<1>7. Wg!RemoveAt(l, 1) = <<"wifi">>
  <2>1. SubSeq(l, 1, 1 - 1) = <<>> /\ SubSeq(l, 1 + 1, Len(l)) = <<"wifi">>
    BY <1>3, SecondOfPair
  <2>2. <<>> \o <<"wifi">> = <<"wifi">>
    OBVIOUS
  <2> QED
    BY <2>1, <2>2 DEF Wg!RemoveAt
<1> QED
  BY <1>2, <1>6, <1>7

\* Setting up: from nothing to a live device; over one, or where one was lost, the
\* port is taken.
LEMMA SetUpStep ==
    ASSUME DeviceTypeOK, SetupInv, NEW t \in {"bare", "full"}, SetUpFrom(t), ~pm.up,
           main' = "monitor", main \in {"setup", "monitor"}
    PROVE  /\ WgLive' \/ (WgLost' /\ bareSetUp')
           /\ WgLive' => (pm'.up \/ bareSetUp')
<1>1. bareSetUp' = (bareSetUp \/ t = "bare") /\ bareSetUp \in BOOLEAN
  BY DEF SetUpFrom, DeviceTypeOK
<1>2. CASE Wg!PortTaken
  <2>1. bareSetUp
    BY <1>2 DEF Wg!PortTaken, Wg!None, None, SetupInv, WgGone
  <2>2. WgLost'
    BY <1>2 DEF Wg!PortTaken, Wg!None, None, WgLost
  <2> QED
    BY <1>1, <2>1, <2>2 DEF WgLive, WgLost
<1>3. CASE ~Wg!PortTaken
  <2>1. PICK d \in 1 .. MaxDevices : Wg!CreateDevice(d)
    BY <1>3 DEF SetUpFrom, Wg!SetUp, Wg!Devices
  <2>2. pm' = [ctx |-> TRUE, up |-> (t = "full")]
    BY <1>3 DEF SetUpFrom, Wg!SetUp
  <2>3. WgGone
    BY <2>1 DEF Wg!CreateDevice, Wg!None, SetupInv, WgLive, WgLost, None
  <2>4. netifs' = <<"wg", "wifi">>
    <3>1. netifs = <<"wifi">> /\ netifs' = <<"wg">> \o Wg!Cleared(netifs)
      BY <2>1, <2>3 DEF Wg!CreateDevice, WgGone
    <3>2. netifs' = <<"wg">> \o <<"wifi">>
      BY <3>1, Interfaces
    <3> QED
      BY <3>2, PairOfLists
  <2>5. d # 0 /\ d \in Int
    BY Positive
  <2>6. WgLive'
    BY <2>1, <2>2, <2>3, <2>4, <2>5 DEF Wg!CreateDevice, WgGone, WgLive, None
  <2> QED
    BY <1>1, <2>2, <2>6
<1> QED
  BY <1>2, <1>3

LEMMA TearDownStep ==
    ASSUME SetupInv, Wg!TearDown, UNCHANGED bareSetUp
    PROVE  WgGone' \/ (WgLost' /\ bareSetUp')
<1>1. CASE WgLive
  BY <1>1, Interfaces DEF Wg!TearDown, WgLive, WgGone, Wg!None, None
<1>2. CASE WgGone
  BY <1>2 DEF Wg!TearDown, WgGone
<1>3. CASE WgLost /\ bareSetUp
  BY <1>3 DEF Wg!TearDown, WgLost
<1> QED
  BY <1>1, <1>2, <1>3 DEF SetupInv

LEMMA SetupStep == DeviceTypeOK /\ SetupInv /\ [Next]_vars => SetupInv'
<1> SUFFICES ASSUME DeviceTypeOK, SetupInv, ActionCases PROVE SetupInv'
  BY NextCases
<1> USE DEF At, Goes, After
<1>1. ASSUME UNCHANGED <<setupVars, bareSetUp>>, polling' => main' = "monitor",
             main' \in {"monitor", "stopped"} \/ ~WgLive
      PROVE  SetupInv'
  BY <1>1 DEF setupVars, SetupInv, WgLive, WgGone, WgLost
<1>2. CASE KeyStep \/ Reset \/ UNCHANGED vars
  BY <1>1, <1>2 DEF KeyStep, Reset, vars, mainVars, countVars, SetupInv
<1>3. CASE Booted \/ ConnectFails \/ Connects \/ AsksStun
  BY <1>1, <1>3 DEF Booted, ConnectFails, Connects, AsksStun, countVars, SetupInv
<1>4. CASE StunWaited \/ MapRequest \/ MapRequestFails
  BY <1>1, <1>4 DEF StunWaited, MapRequest, MapRequestFails, countVars, SetupInv
<1>5. CASE SetsUp
  <2>1. PICK t \in {peers, IF peers = "bare" THEN "full" ELSE peers} :
          IF t = "none" THEN UNCHANGED <<setupVars, bareSetUp>> ELSE SetUpFrom(t)
    BY <1>5 DEF SetsUp
  <2>2. main = "setup" /\ main' = "monitor" /\ ~WgLive
    BY <1>5 DEF SetsUp, SetupInv
  <2>3. CASE t = "none"
    BY <1>1, <2>1, <2>2, <2>3
  <2>4. CASE t # "none"
    <3>1. t \in {"bare", "full"}
      BY <2>4 DEF DeviceTypeOK, Tables
    <3>2. ~pm.up
      BY <2>2 DEF SetupInv, WgGone, WgLost
    <3> QED
      BY <2>1, <2>2, <2>4, <3>1, <3>2, SetUpStep DEF SetupInv
  <2> QED
    BY <2>3, <2>4
<1>6. CASE StopsDisco
  BY <1>1, <1>6 DEF StopsDisco, countVars, SetupInv
<1>7. CASE TearsDown
  <2>1. main' = "top" /\ polling' = polling /\ ~polling /\ bareSetUp' = bareSetUp
    BY <1>7 DEF TearsDown, SetupInv, countVars
  <2>2. WgGone' \/ (WgLost' /\ bareSetUp')
    BY <1>7, <2>1, TearDownStep DEF TearsDown
  <2> QED
    BY <2>1, <2>2 DEF SetupInv, WgLive, WgGone, WgLost
<1>8. CASE MapUpdate
  <2>1. main = "monitor" /\ main' = "monitor" /\ polling
    BY <1>8 DEF MapUpdate, SetupInv
  <2>2. CASE pm.up
    BY <1>1, <1>8, <2>1, <2>2 DEF MapUpdate, countVars
  <2>3. CASE ~pm.up
    <3>1. SetUpFrom(peers') /\ peers' \in {"bare", "full"}
      BY <1>8, <2>3 DEF MapUpdate, Tables
    <3> QED
      BY <2>1, <2>3, <3>1, SetUpStep DEF SetupInv
  <2> QED
    BY <2>2, <2>3
<1>9. CASE MapEnds
  BY <1>1, <1>9 DEF MapEnds, countVars, SetupInv
<1>10. CASE DiscoStep \/ HookSends \/ Tick
  BY <1>1, <1>10 DEF DiscoStep, HookSends, Tick, mainVars, countVars, SetupInv
<1>11. CASE PowerFails
  BY <1>11 DEF PowerFails, SetupInv, WgLive, WgGone, WgLost, None
<1> QED
  BY <1>2, <1>3, <1>4, <1>5, <1>6, <1>7, <1>8, <1>9, <1>10, <1>11 DEF ActionCases
-----------------------------------------------------------------------------
(* The DISCO task *)

DiscoInv == TaskInv /\ StopInv /\ QueueInv

\* What an update of the DISCO structure leaves and sets.
LEMMA DiscoFields ==
    ASSUME NEW d \in DiscoStates, NEW x, NEW b
    PROVE  /\ LET e == [d EXCEPT !.running = b]
              IN  e.running = b /\ e.queue = d.queue /\ e.sock = d.sock /\ e.self = d.self
           /\ LET e == [d EXCEPT !.sock = x]
              IN  e.running = d.running /\ e.queue = d.queue /\ e.sock = x /\ e.self = d.self
           /\ LET e == [d EXCEPT !.stun = x]
              IN  e.running = d.running /\ e.queue = d.queue /\ e.sock = d.sock /\ e.self = d.self
           /\ LET e == [d EXCEPT !.queue = x, !.sock = x]
              IN  e.running = d.running /\ e.queue = x /\ e.sock = x /\ e.self = d.self
           /\ LET e == [d EXCEPT !.queue = x, !.sock = 0, !.running = FALSE]
              IN  e.running = FALSE /\ e.queue = x /\ e.sock = 0 /\ e.self = d.self
           /\ LET e == [d EXCEPT !.self = x, !.stun = 0]
              IN  e.running = d.running /\ e.queue = d.queue /\ e.sock = d.sock /\ e.self = x
BY DEF DiscoStates

\* There is one task at most.
LEMMA OneTask ==
    ASSUME TaskInv, NEW s \in 1 .. MaxSessions, task[s].at # "none"
    PROVE  /\ s = session
           /\ \A t \in 1 .. MaxSessions : t # s => task[t].at = "none"
BY DEF TaskInv

TaskFacts == \A s \in 1 .. MaxSessions :
    task[s].at \in {"none", "create", "top", "recv"} /\ task[s].left \in 0 .. RecvTimeout

LEMMA TaskKinds == DeviceTypeOK => TaskFacts
BY DEF DeviceTypeOK, Tasks, TaskFacts

\* The main task goes on, or somebody tells the DISCO task to stop.
LEMMA MainMoves ==
    ASSUME DeviceTypeOK, DiscoInv,
           UNCHANGED <<task, socks, queues, session>>,
           ds'.queue = ds.queue, ds'.sock = ds.sock, ds'.running => ds.running,
           ds'.running \in BOOLEAN,
           \/ UNCHANGED <<main, timer>>
           \/ /\ main' # "boot" /\ ~(main = "started" /\ timer = StartDelay)
              /\ main' \in {"boot", "top", "stopped"} => ~ds'.running
              /\ main' = "top" => timer' = RetryDelay \/ main = "boot"
    PROVE  DiscoInv'
<1>1. TaskFacts /\ RetryDelay \in Nat /\ RecvTimeout \in Nat
  BY TaskKinds, Positive
<1>2. TaskInv'
  BY DEF DiscoInv, TaskInv
<1>3. StopInv'
  <2> SUFFICES ASSUME main' = "top", NEW s \in 1 .. MaxSessions, task[s].at # "none"
               PROVE  /\ timer' >= RetryDelay - RecvTimeout
                      /\ task[s].at = "recv" => timer' >= RetryDelay - RecvTimeout + task[s].left
    BY DEF StopInv
  <2>1. CASE UNCHANGED <<main, timer>>
    BY <2>1 DEF DiscoInv, StopInv
  <2>2. CASE main = "boot"
    BY <2>2 DEF DiscoInv, TaskInv
  <2>3. CASE timer' = RetryDelay
    BY <1>1, <2>3 DEF TaskFacts
  <2> QED
    BY <2>1, <2>2, <2>3
<1>4. QueueInv'
  BY DEF DiscoInv, QueueInv
<1> QED
  BY <1>2, <1>3, <1>4 DEF DiscoInv

\* The task goes on: what its new place asks for.
LEMMA TaskMoves ==
    ASSUME DeviceTypeOK, DiscoInv, UNCHANGED <<main, timer, session>>,
           NEW s \in 1 .. MaxSessions, task[s].at # "none",
           NEW w \in {"none", "top", "recv"}, NEW l \in 0 .. RecvTimeout,
           task' = [task EXCEPT ![s] = [at |-> w, left |-> l]],
           ds'.running => ds.running,
           w # "none" => ds'.queue = s /\ ds'.sock = s /\ socks' = {s},
           w = "none" => ~ds'.running /\ socks' = {} /\ ds'.sock = None,
           ds'.queue <= session,
           \A t \in 1 .. MaxSessions : queues'[t] = queues[t] \/ queues'[t] = <<>>,
           main = "top" => w # "recv",
           w # "none" /\ ds'.running => \A i \in DOMAIN queues'[s] :
                /\ queues'[s][i] <= RecvTimeout
                /\ w = "recv" => queues'[s][i] <= RecvTimeout - l
    PROVE  DiscoInv'
<1>1. s = session /\ \A t \in 1 .. MaxSessions : t # s => task[t].at = "none"
  BY OneTask DEF DiscoInv
<1>2. /\ task'[s].at = w /\ task'[s].left = l
      /\ \A t \in 1 .. MaxSessions : t # s => task'[t].at = "none"
  BY <1>1 DEF DeviceTypeOK
<1>3. main # "boot" /\ (main \in {"boot", "top", "stopped"} => ~ds.running)
  BY DEF DiscoInv, TaskInv
<1>4. TaskInv'
  <2>1. ASSUME NEW t \in 1 .. MaxSessions
        PROVE  /\ task'[t].at # "none" => t = session' /\ main' # "boot"
               /\ task'[t].at = "create" =>
                      /\ main' = "started" /\ timer' = StartDelay
                      /\ ds'.queue = None /\ ds'.sock = None /\ queues'[t] = <<>> /\ socks' = {}
               /\ task'[t].at \in {"top", "recv"} => ds'.queue = t /\ ds'.sock = t /\ socks' = {t}
               /\ t > session' => queues'[t] = <<>>
    BY <1>1, <1>2, <1>3 DEF DiscoInv, TaskInv
  <2>2. (\A t \in 1 .. MaxSessions : task'[t].at = "none") =>
            ~ds'.running /\ socks' = {} /\ ds'.sock = None
    BY <1>2
  <2>3. main' \in {"boot", "top", "stopped"} => ~ds'.running
    BY <1>3
  <2> QED
    BY <2>1, <2>2, <2>3 DEF TaskInv
<1>5. StopInv'
  <2> SUFFICES ASSUME main = "top", NEW t \in 1 .. MaxSessions, task'[t].at # "none"
               PROVE  timer >= RetryDelay - RecvTimeout /\ t = s /\ w # "recv"
    BY <1>2 DEF StopInv
  <2>1. timer >= RetryDelay - RecvTimeout
    BY DEF DiscoInv, StopInv
  <2> QED
    BY <1>2, <2>1
<1>6. QueueInv'
  BY <1>2 DEF QueueInv
<1> QED
  BY <1>4, <1>5, <1>6 DEF DiscoInv

LEMMA TaskStep ==
    ASSUME DeviceTypeOK, DiscoInv, UNCHANGED <<main, timer, session>>, Direct!TaskNext
    PROVE  DiscoInv'
<1>1. PICK s \in 1 .. MaxSessions :
        Direct!Create(s) \/ Direct!Loop(s) \/ Direct!StunAnswer(s) \/ Direct!Wakes(s) \/ Direct!Leave(s)
  BY DEF Direct!TaskNext, Direct!Sessions
<1>2. /\ task[s].at # "none" /\ s = session
      /\ task[s].at = "create" =>
            /\ main = "started" /\ ds.queue = None /\ ds.sock = None /\ queues[s] = <<>> /\ socks = {}
      /\ task[s].at \in {"top", "recv"} => ds.queue = s /\ ds.sock = s /\ socks = {s}
      /\ main = "top" => ~ds.running
      /\ ds.queue <= session
  <2>1. task[s].at # "none"
    BY <1>1 DEF Direct!Create, Direct!Loop, Direct!StunAnswer, Direct!Wakes, Direct!Leave
  <2> QED
    BY <2>1 DEF DiscoInv, TaskInv
<1>3. ds \in DiscoStates /\ 0 \in 0 .. RecvTimeout /\ RecvTimeout \in 0 .. RecvTimeout /\ s \in Int
  BY Positive DEF DeviceTypeOK
<1>4. ASSUME NEW w, Direct!Goes(s, w)
      PROVE  task' = [task EXCEPT ![s] = [at |-> w, left |-> 0]]
  BY <1>4 DEF Direct!Goes
<1>5. CASE Direct!Create(s)
  <2>1. UNCHANGED queues /\ queues[s] = <<>>
    BY <1>2, <1>5 DEF Direct!Create
  <2>2. CASE ds' = [ds EXCEPT !.queue = s, !.sock = s] /\ socks' = socks \union {s} /\ Direct!Goes(s, "top")
    <3>1. ds'.running = ds.running /\ ds'.queue = s /\ ds'.sock = s /\ socks' = {s}
      BY <1>2, <1>3, <1>5, <2>2, DiscoFields DEF Direct!Create
    <3> QED
      BY <1>2, <1>3, <1>4, <1>5, <2>1, <2>2, <3>1, TaskMoves DEF Direct!Create
  <2>3. CASE ds' = [ds EXCEPT !.queue = s, !.sock = Direct!None, !.running = FALSE] /\ Direct!Goes(s, "none") /\ socks' = socks
    <3>1. ds'.running = FALSE /\ ds'.queue = s /\ ds'.sock = None
      BY <1>3, <2>3, DiscoFields DEF Direct!None, None
    <3>2. socks' = {}
      BY <1>2, <1>5, <2>3 DEF Direct!Create
    <3> QED
      BY <1>2, <1>3, <1>4, <2>1, <2>3, <3>1, <3>2, TaskMoves
  <2> QED
    BY <1>5, <2>2, <2>3 DEF Direct!Create
<1>6. CASE Direct!Loop(s)
  <2>1. task' = [task EXCEPT ![s] = [at |-> "recv", left |-> RecvTimeout]]
    BY <1>6 DEF Direct!Loop
  <2>2. ds' = ds /\ ds.running /\ socks' = socks /\ task[s].at = "top"
    BY <1>6 DEF Direct!Loop
  <2>3. queues' = [queues EXCEPT ![s] = <<>>]
    BY <1>2, <1>6 DEF Direct!Loop, Direct!Drained
  <2>4. /\ \A t \in 1 .. MaxSessions : queues'[t] = queues[t] \/ queues'[t] = <<>>
        /\ queues'[s] = <<>>
    BY <2>3 DEF DeviceTypeOK
  <2>5. DOMAIN queues'[s] = {}
    BY <2>4
  <2> QED
    BY <1>2, <1>3, <2>1, <2>2, <2>4, <2>5, TaskMoves
<1>7. CASE Direct!StunAnswer(s) \/ Direct!Wakes(s)
  <2>1. /\ task[s].at = "recv" /\ Direct!Goes(s, "top") /\ UNCHANGED <<socks, queues>>
        /\ ds' = ds \/ ds' = [ds EXCEPT !.self = ds.sock, !.stun = 0]
    BY <1>7 DEF Direct!StunAnswer, Direct!Wakes, Direct!None
  <2>2. ds'.running = ds.running /\ ds'.queue = ds.queue /\ ds'.sock = ds.sock
    <3>1. CASE ds' = [ds EXCEPT !.self = ds.sock, !.stun = 0]
      BY <1>3, <3>1, DiscoFields
    <3> QED
      BY <2>1, <3>1
  <2>3. ds.running => \A i \in DOMAIN queues[s] : queues[s][i] <= RecvTimeout
    BY <2>1 DEF DiscoInv, QueueInv
  <2> QED
    BY <1>2, <1>3, <1>4, <2>1, <2>2, <2>3, TaskMoves
<1>8. CASE Direct!Leave(s)
  <2>1. /\ task[s].at = "top" /\ ~ds.running /\ Direct!Goes(s, "none") /\ UNCHANGED queues
        /\ socks' = socks \ {ds.sock} /\ ds' = [ds EXCEPT !.sock = 0]
    BY <1>8 DEF Direct!Leave, Direct!None
  <2>2. ds'.running = ds.running /\ ds'.queue = ds.queue /\ ds'.sock = 0
    BY <1>3, <2>1, DiscoFields
  <2>3. socks' = {}
    BY <1>2, <2>1
  <2> QED
    BY <1>2, <1>3, <1>4, <2>1, <2>2, <2>3, TaskMoves DEF None
<1> QED
  BY <1>1, <1>5, <1>6, <1>7, <1>8

LEMMA HookStep ==
    ASSUME DeviceTypeOK, DiscoInv, UNCHANGED <<main, timer, session>>, Direct!QueueDirect
    PROVE  DiscoInv'
<1>1. UNCHANGED <<ds, task, socks>> /\ ds.queue \in 1 .. MaxSessions /\ ds.queue <= session
  BY Positive DEF Direct!QueueDirect, Direct!None, DeviceTypeOK, DiscoStates, DiscoInv, TaskInv
<1>2. ASSUME NEW t \in 1 .. MaxSessions
      PROVE  \/ queues'[t] = queues[t]
             \/ t = ds.queue /\ queues'[t] = Append(queues[t], 0)
  BY <1>1 DEF Direct!QueueDirect, DeviceTypeOK
<1>3. TaskInv'
  <2>1. ASSUME NEW t \in 1 .. MaxSessions, t > session \/ task[t].at = "create"
        PROVE  queues'[t] = queues[t]
    BY <1>1, <1>2, <2>1, Positive DEF DiscoInv, TaskInv, None, DeviceTypeOK
  <2> QED
    BY <1>1, <2>1 DEF DiscoInv, TaskInv
<1>4. StopInv'
  BY <1>1 DEF DiscoInv, StopInv
<1>5. QueueInv'
  <2> SUFFICES ASSUME NEW t \in 1 .. MaxSessions, task[t].at \in {"top", "recv"}, ds.running,
                      NEW i \in DOMAIN queues'[t]
               PROVE  /\ queues'[t][i] <= RecvTimeout
                      /\ task[t].at = "recv" => queues'[t][i] <= RecvTimeout - task[t].left
    BY <1>1 DEF QueueInv
  <2>1. task[t].left \in 0 .. RecvTimeout /\ RecvTimeout \in Nat
    BY TaskKinds, Positive DEF TaskFacts
  <2>2. queues[t] \in Seq(Nat)
    BY DEF DeviceTypeOK
  <2>3. CASE queues'[t] = queues[t]
    BY <2>3 DEF DiscoInv, QueueInv
  <2>4. CASE queues'[t] = Append(queues[t], 0)
    <3>1. (i \in DOMAIN queues[t] /\ queues'[t][i] = queues[t][i]) \/ queues'[t][i] = 0
      BY <2>2, <2>4
    <3> QED
      BY <2>1, <3>1 DEF DiscoInv, QueueInv
  <2> QED
    BY <1>2, <2>3, <2>4
<1> QED
  BY <1>3, <1>4, <1>5 DEF DiscoInv

\* A tick finds the task, if there is one, in recvfrom.
LEMMA TickStep ==
    ASSUME DeviceTypeOK, DiscoInv, Tick
    PROVE  DiscoInv'
<1>1. /\ UNCHANGED <<ds, socks, main, session>> /\ Direct!AllWaiting
      /\ timer > 0 => timer' = timer - 1
      /\ main # "monitor" => timer > 0
  BY DEF Tick, Direct!TimePasses
<1>2. TaskFacts /\ RecvTimeout \in Nat /\ timer \in Nat /\ RetryDelay \in Nat
  BY TaskKinds, Positive DEF DeviceTypeOK
<1>3. ASSUME NEW s \in 1 .. MaxSessions
      PROVE  /\ task[s].at \in {"none", "recv"} /\ task'[s].at = task[s].at
             /\ task[s].at = "recv" => task[s].left > 0 /\ task'[s].left = task[s].left - 1
  <2>1. task[s].at = "none" \/ (task[s].at = "recv" /\ task[s].left > 0)
    BY <1>1 DEF Direct!AllWaiting, Direct!Waiting, Direct!Sessions
  <2>2. task'[s] = IF task[s].at = "recv" THEN [task[s] EXCEPT !.left = @ - 1] ELSE task[s]
    BY DEF Tick, Direct!TimePasses, Direct!Sessions
  <2>3. task[s] \in Tasks
    BY DEF DeviceTypeOK
  <2> QED
    BY <2>1, <2>2, <2>3 DEF Tasks
<1>4. ASSUME NEW s \in 1 .. MaxSessions
      PROVE  /\ queues'[s] = queues[s] \/ (s = ds.queue /\ queues'[s] = Direct!Older(queues[s]))
             /\ ds.running /\ s = ds.queue => queues'[s] = Direct!Older(queues[s])
  BY Positive DEF Tick, Direct!TimePasses, Direct!None, DeviceTypeOK
<1>5. TaskInv'
  <2>1. ASSUME NEW s \in 1 .. MaxSessions, s > session
        PROVE  queues'[s] = queues[s]
    BY <1>4, <2>1, Positive DEF DiscoInv, TaskInv, DeviceTypeOK, DiscoStates
  <2> QED
    BY <1>1, <1>3, <2>1 DEF DiscoInv, TaskInv
<1>6. StopInv'
  <2> SUFFICES ASSUME main = "top", NEW s \in 1 .. MaxSessions, task[s].at # "none"
               PROVE  /\ timer' >= RetryDelay - RecvTimeout
                      /\ timer' >= RetryDelay - RecvTimeout + task'[s].left
    BY <1>1, <1>3 DEF StopInv
  <2>1. timer' = timer - 1 /\ task[s].left > 0 /\ task'[s].left = task[s].left - 1
    BY <1>1, <1>3
  <2>2. timer >= RetryDelay - RecvTimeout + task[s].left
    BY <1>3 DEF DiscoInv, StopInv
  <2> QED
    BY <1>2, <2>1, <2>2 DEF TaskFacts
<1>7. QueueInv'
  <2> SUFFICES ASSUME NEW s \in 1 .. MaxSessions, task[s].at = "recv", ds.running,
                      NEW i \in DOMAIN queues'[s]
               PROVE  queues'[s][i] <= RecvTimeout /\ queues'[s][i] <= RecvTimeout - task'[s].left
    BY <1>1, <1>3 DEF QueueInv
  <2>1. s = ds.queue
    BY DEF DiscoInv, TaskInv
  <2>2. i \in DOMAIN queues[s] /\ queues'[s][i] = queues[s][i] + 1
    <3>1. queues'[s] = Direct!Older(queues[s])
      BY <1>4, <2>1
    <3>2. queues'[s] = [j \in DOMAIN queues[s] |-> queues[s][j] + 1]
      BY <3>1 DEF Direct!Older
    <3>3. i \in DOMAIN queues[s]
      BY <3>2
    <3> QED
      BY <3>2, <3>3
  <2>3. queues[s][i] <= RecvTimeout - task[s].left /\ queues[s][i] \in Nat
    <3>1. queues[s] \in Seq(Nat)
      BY DEF DeviceTypeOK
    <3>2. queues[s][i] \in Nat
      BY <2>2, <3>1
    <3> QED
      BY <2>2, <3>2 DEF DiscoInv, QueueInv
  <2>4. task'[s].left = task[s].left - 1 /\ task[s].left > 0 /\ task[s].left \in Nat
    BY <1>2, <1>3 DEF TaskFacts
  <2> QED
    BY <1>2, <2>2, <2>3, <2>4
<1> QED
  BY <1>5, <1>6, <1>7 DEF DiscoInv

\* A new session: by now the task of the last one is gone.
LEMMA ConnectStep ==
    ASSUME DeviceTypeOK, DiscoInv, Connects
    PROVE  DiscoInv'
<1>1. /\ main = "top" /\ timer = 0 /\ session' = session + 1 /\ session < MaxSessions
      /\ main' = "started" /\ timer' = StartDelay
      /\ ds' = [Direct!Fresh EXCEPT !.running = TRUE]
      /\ task' = [task EXCEPT ![session'] = [Direct!Idle EXCEPT !.at = "create"]]
      /\ UNCHANGED <<socks, queues>>
  BY DEF Connects, At, After, Direct!StartTask, Direct!disco_init
<1>2. /\ session \in Nat /\ session' \in 1 .. MaxSessions
      /\ RetryDelay \in Nat /\ RecvTimeout \in Nat /\ RecvTimeout < RetryDelay
  BY <1>1, Positive DEF DeviceTypeOK
<1>3. \A s \in 1 .. MaxSessions : task[s].at = "none"
  BY <1>1, <1>2 DEF DiscoInv, StopInv
<1>4. socks = {}
  BY <1>3 DEF DiscoInv, TaskInv
<1>5. /\ ds'.queue = 0 /\ ds'.sock = 0
      /\ task'[session'].at = "create"
      /\ \A s \in 1 .. MaxSessions : s # session' => task'[s].at = "none"
  <2>1. ds'.queue = 0 /\ ds'.sock = 0
    BY <1>1 DEF Direct!Fresh, Direct!None
  <2>2. task'[session'].at = "create"
    BY <1>1, <1>2 DEF Direct!Idle, DeviceTypeOK
  <2>3. \A s \in 1 .. MaxSessions : s # session' => task'[s].at = "none"
    BY <1>1, <1>3 DEF DeviceTypeOK
  <2> QED
    BY <2>1, <2>2, <2>3
<1>6. TaskInv'
  <2>1. \A s \in 1 .. MaxSessions : s >= session' => queues[s] = <<>>
    BY <1>1, <1>2 DEF DiscoInv, TaskInv
  <2> QED
    BY <1>1, <1>2, <1>4, <1>5, <2>1 DEF TaskInv, None
<1>7. StopInv'
  BY <1>1 DEF StopInv
<1>8. QueueInv'
  BY <1>5 DEF QueueInv
<1> QED
  BY <1>6, <1>7, <1>8 DEF DiscoInv

\* Nothing of it survives a power failure.
LEMMA PowerStep ==
    ASSUME \A s \in 1 .. MaxSessions : task'[s] = Direct!Idle /\ queues'[s] = <<>>,
           ds' = Direct!Fresh, socks' = {}, session' = 0
    PROVE  DiscoInv'
<1>1. \A s \in 1 .. MaxSessions : task'[s].at = "none"
  BY DEF Direct!Idle
<1>2. ds'.queue = 0 /\ ds'.sock = 0 /\ ~ds'.running
  BY DEF Direct!Fresh, Direct!None
<1>3. TaskInv'
  BY <1>1, <1>2 DEF TaskInv, None
<1>4. StopInv' /\ QueueInv'
  BY <1>1 DEF StopInv, QueueInv
<1> QED
  BY <1>3, <1>4 DEF DiscoInv

LEMMA DiscoStepInv ==
    DeviceTypeOK /\ DiscoInv /\ [Next]_vars => DiscoInv'
<1> SUFFICES ASSUME DeviceTypeOK, DiscoInv, ActionCases PROVE DiscoInv'
  BY NextCases
<1> USE DEF At, Goes, After
<1>0. /\ StartDelay > 0 /\ ds \in DiscoStates /\ ds.running \in BOOLEAN
      /\ main \in {"boot", "top", "stopped"} => ~ds.running
      /\ timer \in Nat
  BY Positive DEF DeviceTypeOK, DiscoStates, DiscoInv, TaskInv
<1>1. CASE KeyStep \/ Reset \/ UNCHANGED vars \/ MapUpdate \/ MapEnds
  <2>1. UNCHANGED <<ds, task, socks, queues, session, main, timer>>
    BY <1>1 DEF KeyStep, Reset, vars, MapUpdate, MapEnds, discoVars, mainVars
  <2> QED
    BY <1>0, <2>1, MainMoves
<1>2. CASE Booted \/ ConnectFails \/ StunWaited \/ MapRequest \/ SetsUp \/ TearsDown
  <2>1. /\ UNCHANGED <<ds, task, socks, queues, session>>
        /\ main' # "boot" /\ main # "started"
        /\ main' = "top" => timer' = RetryDelay \/ main = "boot"
        /\ main' \in {"boot", "top", "stopped"} => main \in {"boot", "top", "stopped"}
    BY <1>2 DEF Booted, ConnectFails, StunWaited, MapRequest, SetsUp, TearsDown, discoVars
  <2> QED
    BY <1>0, <2>1, MainMoves
<1>3. CASE AsksStun
  <2>1. /\ UNCHANGED <<task, socks, queues, session>>
        /\ main = "started" /\ timer = 0 /\ main' = "stun"
        /\ ds' = ds \/ ds' = [ds EXCEPT !.stun = ds.sock]
    BY <1>3 DEF AsksStun, Direct!SendStun
  <2>2. ds'.running = ds.running /\ ds'.queue = ds.queue /\ ds'.sock = ds.sock
    <3>1. CASE ds' = [ds EXCEPT !.stun = ds.sock]
      BY <1>0, <3>1, DiscoFields
    <3> QED
      BY <2>1, <3>1
  <2> QED
    BY <1>0, <2>1, <2>2, MainMoves
<1>4. CASE MapRequestFails \/ StopsDisco
  <2>1. /\ UNCHANGED <<task, socks, queues, session>>
        /\ ds' = [ds EXCEPT !.running = FALSE]
        /\ main # "started" /\ main' # "boot"
        /\ main' = "top" => timer' = RetryDelay
    BY <1>4 DEF MapRequestFails, StopsDisco, Direct!disco_stop, Direct!Stopped
  <2>2. ds'.running = FALSE /\ ds'.queue = ds.queue /\ ds'.sock = ds.sock
    BY <1>0, <2>1, DiscoFields
  <2> QED
    BY <1>0, <2>1, <2>2, MainMoves
<1>5. CASE Connects
  BY <1>5, ConnectStep
<1>6. CASE DiscoStep
  <2>1. UNCHANGED <<main, timer, session>> /\ (Direct!TaskNext \/ Direct!StunLost)
    BY <1>6 DEF DiscoStep, mainVars
  <2>2. CASE Direct!StunLost
    <3>1. UNCHANGED <<ds, task, socks, queues>>
      BY <2>2 DEF Direct!StunLost
    <3> QED
      BY <1>0, <2>1, <3>1, MainMoves
  <2> QED
    BY <2>1, <2>2, TaskStep
<1>7. CASE HookSends
  BY <1>7, HookStep DEF HookSends, mainVars
<1>8. CASE Tick
  BY <1>8, TickStep
<1>9. CASE PowerFails
  BY <1>9, PowerStep DEF PowerFails, Direct!Sessions
<1> QED
  BY <1>1, <1>2, <1>3, <1>4, <1>5, <1>6, <1>7, <1>8, <1>9 DEF ActionCases
-----------------------------------------------------------------------------
(* The endpoint that is announced *)

\* The endpoint STUN found belongs to the session, or there is none yet.
LEMMA SelfStep ==
    ASSUME DeviceTypeOK, DiscoInv, [Next]_vars, ds.self # None => ds.self = session
    PROVE  /\ ds'.self # None => ds'.self = session'
           /\ UNCHANGED session \/ main' \in {"boot", "started"}
<1>0. ActionCases /\ ds \in DiscoStates
  BY NextCases DEF DeviceTypeOK
<1> USE DEF At, Goes, After
<1>1. CASE KeyStep \/ Reset \/ UNCHANGED vars \/ MapUpdate \/ MapEnds \/ HookSends \/ Tick
  BY <1>1 DEF KeyStep, Reset, vars, MapUpdate, MapEnds, HookSends, Tick, discoVars, mainVars,
     Direct!QueueDirect, Direct!TimePasses
<1>2. CASE Booted \/ ConnectFails \/ StunWaited \/ MapRequest \/ SetsUp \/ TearsDown
  BY <1>2 DEF Booted, ConnectFails, StunWaited, MapRequest, SetsUp, TearsDown, discoVars
<1>3. CASE AsksStun
  <2>1. UNCHANGED session /\ (ds' = ds \/ ds' = [ds EXCEPT !.stun = ds.sock])
    BY <1>3 DEF AsksStun, Direct!SendStun
  <2>2. ds'.self = ds.self
    <3>1. CASE ds' = [ds EXCEPT !.stun = ds.sock]
      BY <1>0, <3>1, DiscoFields
    <3> QED
      BY <2>1, <3>1
  <2> QED
    BY <2>1, <2>2
<1>4. CASE MapRequestFails \/ StopsDisco
  <2>1. UNCHANGED session /\ ds' = [ds EXCEPT !.running = FALSE]
    BY <1>4 DEF MapRequestFails, StopsDisco, Direct!disco_stop, Direct!Stopped
  <2> QED
    BY <1>0, <2>1, DiscoFields
<1>5. CASE Connects
  <2>1. ds' = [Direct!Fresh EXCEPT !.running = TRUE] /\ main' = "started"
    BY <1>5 DEF Connects, Direct!StartTask, Direct!disco_init
  <2> QED
    BY <2>1 DEF Direct!Fresh, Direct!None, None
<1>6. CASE DiscoStep
  <2>1. UNCHANGED session /\ (Direct!TaskNext \/ Direct!StunLost)
    BY <1>6 DEF DiscoStep, mainVars
  <2>2. CASE Direct!StunLost
    BY <2>1, <2>2 DEF Direct!StunLost
  <2>3. CASE Direct!TaskNext
    <3>1. PICK s \in 1 .. MaxSessions :
            Direct!Create(s) \/ Direct!Loop(s) \/ Direct!StunAnswer(s) \/ Direct!Wakes(s) \/ Direct!Leave(s)
      BY <2>3 DEF Direct!TaskNext, Direct!Sessions
    <3>2. CASE Direct!Create(s)
      <4>1. \/ ds' = [ds EXCEPT !.queue = s, !.sock = s]
            \/ ds' = [ds EXCEPT !.queue = s, !.sock = 0, !.running = FALSE]
        BY <3>2 DEF Direct!Create, Direct!None
      <4>2. CASE ds' = [ds EXCEPT !.queue = s, !.sock = s]
        BY <1>0, <2>1, <4>2, DiscoFields
      <4>3. CASE ds' = [ds EXCEPT !.queue = s, !.sock = 0, !.running = FALSE]
        BY <1>0, <2>1, <4>3, DiscoFields
      <4> QED
        BY <4>1, <4>2, <4>3
    <3>3. CASE Direct!Loop(s) \/ Direct!Wakes(s)
      BY <2>1, <3>3 DEF Direct!Loop, Direct!Wakes
    <3>4. CASE Direct!StunAnswer(s)
      <4>1. task[s].at = "recv" /\ (ds' = ds \/ ds' = [ds EXCEPT !.self = ds.sock, !.stun = 0])
        BY <3>4 DEF Direct!StunAnswer, Direct!None
      <4>2. ds.sock = session
        BY <4>1 DEF DiscoInv, TaskInv
      <4>3. CASE ds' = [ds EXCEPT !.self = ds.sock, !.stun = 0]
        BY <1>0, <2>1, <4>2, <4>3, DiscoFields
      <4> QED
        BY <2>1, <4>1, <4>3
    <3>5. CASE Direct!Leave(s)
      <4>1. ds' = [ds EXCEPT !.sock = 0]
        BY <3>5 DEF Direct!Leave, Direct!None
      <4> QED
        BY <1>0, <2>1, <4>1, DiscoFields
    <3> QED
      BY <3>1, <3>2, <3>3, <3>4, <3>5
  <2> QED
    BY <2>1, <2>2, <2>3
<1>7. CASE PowerFails
  BY <1>7 DEF PowerFails, Direct!Fresh, Direct!None, None
<1> QED
  BY <1>0, <1>1, <1>2, <1>3, <1>4, <1>5, <1>6, <1>7 DEF ActionCases

LEMMA AnnounceStep == DeviceTypeOK /\ DiscoInv /\ AnnounceInv /\ [Next]_vars => AnnounceInv'
<1> SUFFICES ASSUME DeviceTypeOK, DiscoInv, AnnounceInv, [Next]_vars, ActionCases PROVE AnnounceInv'
  BY NextCases
<1>1. /\ ds'.self # None => ds'.self = session'
      /\ UNCHANGED session \/ main' \in {"boot", "started"}
  BY SelfStep DEF AnnounceInv
<1> USE DEF At, Goes, After, Announcing
<1>2. ASSUME UNCHANGED <<public, announced, found>>,
             \/ main' = main
             \/ main' \notin {"map", "setup", "monitor", "stopped"}
             \/ main \in {"setup", "monitor", "stopped"}
      PROVE  AnnounceInv'
  BY <1>1, <1>2 DEF AnnounceInv
<1>3. CASE KeyStep \/ Reset \/ UNCHANGED vars \/ MapUpdate \/ MapEnds \/ DiscoStep \/ HookSends \/ Tick
  BY <1>2, <1>3 DEF KeyStep, Reset, vars, MapUpdate, MapEnds, DiscoStep, HookSends, Tick, mainVars,
     announceVars
<1>4. CASE Booted \/ ConnectFails \/ Connects \/ AsksStun \/ SetsUp \/ StopsDisco \/ TearsDown
  BY <1>2, <1>4 DEF Booted, ConnectFails, Connects, AsksStun, SetsUp, StopsDisco, TearsDown, announceVars
<1>5. CASE StunWaited
  BY <1>1, <1>5 DEF StunWaited, AnnounceInv
<1>6. CASE MapRequest
  BY <1>1, <1>6 DEF MapRequest, AnnounceInv
<1>7. CASE MapRequestFails
  BY <1>1, <1>7 DEF MapRequestFails, AnnounceInv
<1>8. CASE PowerFails
  BY <1>1, <1>8 DEF PowerFails, AnnounceInv
<1> QED
  BY <1>3, <1>4, <1>5, <1>6, <1>7, <1>8 DEF ActionCases
-----------------------------------------------------------------------------
(* The whole device *)

LEMMA DeviceInitInv == Init => DeviceInv
<1> SUFFICES ASSUME Init PROVE DeviceInv
  OBVIOUS
<1> USE DEF Init, Direct!Init, Wg!Init, VolatileInit, Direct!Sessions
<1>1. DeviceTypeOK
  <2>1. task \in [1 .. MaxSessions -> Tasks] /\ ds \in DiscoStates
    BY DiscoFresh
  <2>2. queues \in [1 .. MaxSessions -> Seq(Nat)]
    OBVIOUS
  <2>3. pm \in Managers /\ ctx \in Contexts /\ port \in 0 .. MaxDevices
    BY Positive DEF Managers, Contexts, Wg!None
  <2>4. /\ reply \in 0 .. MaxSessions /\ timer \in 0 .. RetryDelay /\ session \in 0 .. MaxSessions
        /\ found \in 0 .. MaxSessions
    BY Positive DEF Direct!None, None
  <2> QED
    BY <2>1, <2>2, <2>3, <2>4 DEF DeviceTypeOK, Places, Tables
<1>2. \A s \in 1 .. MaxSessions : task[s].at = "none" /\ queues[s] = <<>>
  BY DEF Direct!Idle
<1>3. ds.queue = 0 /\ ds.sock = 0 /\ ~ds.running /\ ds.self = 0
  BY DEF Direct!Fresh, Direct!None
<1>4. TaskInv /\ StopInv /\ QueueInv
  BY <1>2, <1>3 DEF TaskInv, StopInv, QueueInv, None
<1>5. SetupInv
  BY DEF SetupInv, WgLive, WgGone, WgLost, Wg!None, None
<1>6. AnnounceInv
  BY <1>3 DEF AnnounceInv, Announcing, None
<1> QED
  BY <1>1, <1>4, <1>5, <1>6 DEF DeviceInv

\* The invariant of main task, DISCO task, WireGuard and what is announced: where the
\* main task is says what can be alive, for any delays, sessions, devices and failures.
THEOREM DeviceInvariant == Spec => []DeviceInv
<1>1. Init => DeviceInv
  BY DeviceInitInv
<1>2. DeviceInv /\ [Next]_vars => DeviceInv'
  BY DeviceTypeStep, DiscoStepInv, SetupStep, AnnounceStep DEF DeviceInv, DiscoInv
<1> QED
  BY <1>1, <1>2, PTL DEF Spec

\* disco_stop waits for nobody, and yet: when the main task tries again, the DISCO
\* task with its socket is gone, and WireGuard with its device, timer and port, unless
\* it was set up from a table without an endpoint.
THEOREM SessionsLeaveNothing == Spec => []NothingLeftBehind
<1>1. DeviceInv => NothingLeftBehind
  <2> SUFFICES ASSUME DeviceInv, main = "top", timer = 0
               PROVE  Direct!AllStopped /\ (Wg!AllReleased \/ bareSetUp)
    BY DEF NothingLeftBehind, At
  <2>1. \A s \in 1 .. MaxSessions : task[s].at = "none"
    BY Positive DEF DeviceInv, StopInv, DeviceTypeOK
  <2>2. Direct!AllStopped
    BY <2>1 DEF DeviceInv, TaskInv, Direct!AllStopped, Direct!Alive, Direct!Sessions, Direct!None, None
  <2>3. Wg!AllReleased \/ bareSetUp
    BY DEF DeviceInv, SetupInv, WgGone, Wg!AllReleased, Wg!None, None
  <2> QED
    BY <2>2, <2>3
<1> QED
  BY <1>1, DeviceInvariant, PTL

\* Whoever hands a packet to WireGuard because wg_up is set finds a device that holds
\* the port and whose interface lwIP knows, whenever the map task set it up.
THEOREM UpIsLive == Spec => []UpMeansLive
<1>1. DeviceInv => UpMeansLive
  BY DEF DeviceInv, SetupInv, WgLive, WgGone, WgLost, UpMeansLive, Wg!UpMeansLive
<1> QED
  BY <1>1, DeviceInvariant, PTL

\* No packet waits longer in the queue of the DISCO task than one receive time-out.
THEOREM DirectPacketsLeave == Spec => []DirectDelay
<1>1. DeviceInv => DirectDelay
  <2> SUFFICES ASSUME DeviceInv, ds.running, ds.queue # None, NEW i \in DOMAIN queues[ds.queue]
               PROVE  queues[ds.queue][i] <= RecvTimeout
    BY DEF DirectDelay, Direct!DirectDelay, Direct!None, None
  <2>1. PICK s \in 1 .. MaxSessions : task[s].at # "none"
    BY DEF DeviceInv, TaskInv
  <2>2. task[s].at \in {"top", "recv"}
    BY <2>1, TaskKinds DEF DeviceInv, TaskFacts, TaskInv
  <2>3. ds.queue = s
    BY <2>2 DEF DeviceInv, TaskInv
  <2> QED
    BY <2>2, <2>3 DEF DeviceInv, QueueInv
<1> QED
  BY <1>1, DeviceInvariant, PTL

\* The endpoint in a map request is that of the last session whose STUN request was
\* answered in time, which is the present one if its request was.
THEOREM AnnouncedEndpointIsLastFound == Spec => []AnnouncedIsLastFound
<1>1. DeviceInv => AnnouncedIsLastFound
  BY DEF DeviceInv, AnnounceInv, AnnouncedIsLastFound
<1> QED
  BY <1>1, DeviceInvariant, PTL
=============================================================================
