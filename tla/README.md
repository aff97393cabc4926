# Specifications of the AMB82 Tailscale client

The repository is a Realtek Ameba Pro2 SDK with a Tailscale client written on top
of it. The SDK (lwIP, FreeRTOS, mbedTLS, drivers, media) is third-party code; the
program's own logic is about ten thousand lines in `src/component/tailscale/`,
`src/component/wireguard/` and `.../tailscale_main/ts_main.c`. This directory
holds TLA+ specifications of that logic, TLC configurations that check them on
small instances, and TLAPS proofs.

Contents: 1 the system, 2 plan, 3 the modules, 4 the runs, 5 findings,
6 the proofs, 7 what is not modelled.

## 1. The system

| component | state it keeps | operations | runs in |
|---|---|---|---|
| WireGuard tunnel (`wireguard.c`, `wireguardif.c`) | per peer: three keypair slots `curr` `prev` `next` (index, key identity, counters, replay window, birth, last traffic), the pending handshake, greatest timestamp, allowed and known addresses; link flag | packet in, packet out, 400 ms timer, connect, disconnect, add, update and remove peer | lwIP thread; the calls also come from the main, DERP and DISCO tasks |
| DERP relay client (`ts_derp.c`) | one structure: `running`, `ready`, TLS state, send queue (8), failure count | connect, start, send, close; receive task with reconnect | main task, receive task, any sender |
| Peer manager (`peer_manager.c`) | table of 4 peers, each with up to 8 endpoints and their latency, WireGuard index; DERP map | parse a MapResponse, set up and tear down WireGuard, update endpoint, choose the best endpoint | map task, main task, DISCO task |
| Path hooks (`ts_main.c`) | per peer: `direct_valid`, `direct_addr`, `direct_last_rx` | WireGuard output hook, relay receive callback, direct receive callback | lwIP thread, DERP task, DISCO task |
| DISCO and STUN (`ts_disco.c`) | one pending ping, self endpoint, direct send queue (4) | ping, pong, CallMeMaybe, STUN, direct send | DISCO task, DERP task |
| Control client (`ctrl_client.c`, `ts_http2.c`) | Noise nonces, HTTP/2 windows, JSON position | connect, register, MapRequest, read the map stream | main task, map task |
| WireGuard set-up (`ameba_wireguard.c`, `pm_setup_wireguard`) | one static context whose interface is an element of lwIP's list, the UDP port, the device; `wg_ctx`, `wg_up` | set up, tear down | main task, map task |
| Main state machine (`ts_main.c`) | failures in a row, `s_map_running` | session loop, OTA-only mode, map polling task | main task, map task |
| Key store (`ts_key_store.c`) | one flash sector | load, save, erase | main task |

The main task runs one session after another: connect to the control server and
register, find the public address by STUN, send a MapRequest, start the relay,
set up WireGuard, start the map task, and monitor. When the map stream ends it
tears everything down and starts again after 10 s. Packets of WireGuard leave
through an output hook that chooses between a direct path, proven by a recent
packet, and the relay; they come in from the relay's receive task and from the
DISCO task, and both hand them to lwIP.

What is hard here:

- *Interleaving without locks.* Five tasks and the lwIP thread share structures;
  the code relies on flags, delays and one queue.
- *An unreliable network.* WireGuard must keep two ends in step although any
  message may be lost, late, repeated or overtaken.
- *Time.* Key ages, retries, back-off, trust windows and fixed waits that stand
  for "by now the other task has finished".
- *Restarts.* Device state is rebuilt at every reconnect, the identity is in
  flash, and the other end keeps what it knew.

Properties that make each component correct:

- WireGuard: no key and counter used twice; nothing delivered twice; key
  confirmation; one session in one slot; rekeying never cuts a good session.
- Relay: every accepted packet is written once and in order, or freed; one task
  at a time (which does not hold, see 5); the relay comes back.
- Peers and paths: a packet for a peer goes to that peer; the direct path is only
  used while it is known to work; otherwise the relay.
- DISCO: a pong counts for the peer and path that was pinged.
- Control: the map stream's messages are delivered whole, or the session ends.
- Key store: after a crash the old or the new identity is there.
- Main: a session is torn down completely; transient failures are survived.

## 2. Plan

| # | module | models | state |
|---|---|---|---|
| 1 | `ReplayWindow`, `ReplayFilter`, `WindowedOnce` | the replay window, and what it promises | done, refinement proved |
| 2 | `WgPeer`, `WgTunnel` | one device's peer; two devices and a network | done, invariant proved |
| 3 | `DerpClient` | relay client with its tasks, also those that outlive their session | done, proved |
| 4 | `PeerPaths` | peer table, addresses of WireGuard peers, hooks of `ts_main.c` | done, proved |
| 5 | `MapStream` | HTTP/2 frames, JSON reassembly, first response, map task, session loop with its failure counter | done, proved |
| 6 | `ControlRecords`, `FrameChannel` | upgrade, Noise answer, records and frames in their buffers; the channel of frames they promise | done, proved |
| 7 | `KeyStore` | the flash record, and power failures | done, proved; runs as part of 10 |
| 8 | `Disco` | the DISCO task, its socket, the STUN request, the direct queue | done, proved as part of 10 |
| 9 | `WgSetup` | the static WireGuard context and what it takes from lwIP | done, proved as part of 10 |
| 10 | `Device` | one device from power on to power failure: composes 7, 8 and 9 with the main and map tasks | done, proved |

Two abstract specifications are stated and shown to be implemented: `WindowedOnce`
(a filter that remembers everything) by the replay window, and `FrameChannel`
(frames are read whole, in order and once) by the control connection; `MapStream`
takes its frames from such a channel. A third refinement is only proved: `Device`
implements `KeyStore`. Every safety property the passing runs check is now a theorem too.

## 3. The modules

### ReplayWindow, ReplayFilter, WindowedOnce

`ReplayWindow` is `wireguard_check_replay` as an operator on the pair
`replay_counter`, `replay_bitmap`; the bitmap is the set of its bit numbers.
`SeqRange` and `DiffRange` stand for the 64 bits of the counter and the 32 bits of
the difference. `ReplayFilter` is one session that meets nonces in any order and
any number of times; `accepted` is a history of what passed. `WindowedOnce` is its
specification, which keeps every nonce it ever accepted and no bitmap. The filter
implements it with the same `accepted` and with `passes`, the number of packets let
through, without which a nonce accepted twice would look like no step at all.

### WgPeer and WgTunnel

`WgPeer` holds what one device does to its peer structure: the three slots, the
handshake, the timer's decisions. Each C function is an operator from the old
structure to the new one. `WgTunnel` composes two such peers with a network that
keeps every packet for ever, so that a packet may be received late, repeatedly, out
of order or never. One action is one entry into the stack from the lwIP thread,
which serialises them. A session key is the pair of random draws of the initiation
and the response it came from: equal keys exactly when both ends derived the same
bytes. Random indices and ephemeral keys are a counter of draws, so that they never
collide (the code's collision test is incomplete, see 7).
`draws`, `sent`, `now`, `restarts` are bounded by constants named as bounds.

Abstractions: a message that was forged or altered does not open, so only sent
messages are received. Cookies (sent only under load, which `wireguard_is_under_load`
never reports) are left out. Timestamps of initiations are the order of the draws.

### DerpClient

One structure `dc` shared by the main task (`main`), the receive tasks (`task[t]`,
one per session) and a sender. A step runs from one blocking call to the next, and
between the two reads of the structure in `derp_send_packet`. `open` is the set of
connections that exist, `dc.conn` the one the structure names, and `conn` in a task
the one its blocking call began on.

`derp_close` waits a fixed second and frees queue and connection, whether or not the
task has left. A task that is still there finds the structure empty, or as the next
session has filled it, and goes on with that: `Loop`, `Connected` and `Reached` look at
what `dc` holds at that moment. A call on a connection or a queue that has been freed
fails (`WriteFailed`, `ReadBroken`, `SendOnFreed`). On the device it is a use after free,
which may do anything; failing is the mildest of it. `overlapped` is a history: two
receive tasks have been alive at once. Nothing is promised from then on but
`Accounted`.

Time is a countdown with the delays of the code; `Tick` waits for what is surely over
before the next unit of time (`Prompt`): the steps between blocking calls. With
`SlowServer` that does not include reads, writes and attempts to connect, since the
sockets have no connect or send time-out and a read of a whole frame may take the
500 ms of its time-out for every byte. The server may refuse or break a connection at
any time, and as often as it likes. `failures` counts to 4, as nothing is longer
than the delay of the fourth.

### PeerPaths

The address of a WireGuard peer is a real one or the virtual `127.3.INDEX.40`,
which `wg_derp_output_hook` resolves by looking at entry INDEX of the peer table.
`Route(n)` is what would happen to a packet for node `n` now: the decisions of
`wireguardif_peer_output` and of the hook. The table is rewritten entry by entry
by the map task (`ClearEntry`, `FillEntry`, `EndParse`), and every other task's
step can fall between: the hook, the relay's and the direct receive callbacks,
pings, pongs and CallMeMaybe. `wg[n]` is `peer->ip`, `table[i].direct` and `age`
are `direct_valid`, `direct_addr` and the time since `direct_last_rx_tick`.
`gone`, `last` and `synced` are not in the program: which nodes cannot be reached
directly any more, where each was last heard, and which peers have been heard
since the table changed. A node may send from any of its addresses at any time,
which covers its moves. Left out: the latency of endpoints, because nothing but a
log line reads `best_ep_idx`; the direct send queue, whose loss is a loss in the
network; sessions whose relay could not be started (the hooks are not installed
then).

### MapStream

A session with the control server as `ts_http2.c` and the two tasks of `ts_main.c`
see it. `pc` is where the client stands: `start` (the loop of `ts_http2_start`),
`register` (that of `ts_http2_post`), `first` (the main task's `ts_http2_read_json`),
`setup`, `poll` (the map task's), `closing`, and between sessions `connect` or `ota`.
A step is one turn of such a loop: it takes one frame from `wire`, the reliable and
ordered transport, and does all the code does with it. `json` and `expected` are
`json_pos` and `json_expected`, locals of a read, which is why a time-out empties
them. A message is a sequence of pieces with a length prefix; what is kept of JSON is
which piece opens the object and which closes it, for the brace count the code falls
back on. `credit` is the server's window for the connection; a WINDOW_UPDATE reaches
the server at once. `aligned`, `cut` and `returned` are histories.

The server is external: it follows the protocol, never sends a prefix alone in a
frame, never puts two messages in one frame, and ends a stream between two messages.
The code relies on all three; a message always fits the 48 KB buffer. STUN, the
relay, and the peer table are in other modules; here `peers` says that the table is
not empty, which with `wg_up` decides when WireGuard is set up.

### ControlRecords and FrameChannel

The connection under the map stream, from the HTTP upgrade on. Lengths are counted in
units that stand for some kilobytes. The server's frames are cut into Noise records
anywhere (`Cuts`), each record is one WebSocket frame, and `RecvSome` lets TCP bring any
number of units that fit the buffer the next call of `io_recv` reads into. `inbuf` is how
much has come of `wire`, whose messages leave one by one; each carries `end`, its place in
the stream of bytes the server has sent, from which `OnWire` knows how long they are
together. `plain` is what records have
left in the buffer of `ts_http2.c`, and `got` the frames taken from it. A call that finds
nothing and times out changes nothing here. `Room` is the free space the code computes
before it reads: when it is 0 and no message is whole, the code fails for good, which
`FailsForAReason` says never happens. Sealing takes a nonce whether or not TCP then takes
the record; after a failed send `tcp` is broken.

`LongFrame` is a hypothesis on the server: the last piece of a longer frame is never
followed by another frame in the same record. The buffer of `ts_http2.c` holds one
longest frame and 503 bytes, so a server that did this would end the connection. The
other hypotheses on sizes are those of the code: a record of the server is shorter than
`recv_buf`, and each buffer holds what is longest in it.
`FrameChannel` is the specification: its `written` is the list of frames the server has
written, and its `read` is `got`.

### KeyStore

The sector is four fields in the order they are written: machine key with magic, node
key, disco key, CRC. Field `k` belongs to the identity `k`. An interrupted erase leaves
each field as it was, erased or anything else; an interrupted write leaves a prefix;
a field that is not erased cannot be written. `Valid` is the test of magic, version and
CRC. `registered` is a history, what the control server knows: it learns the keys in
memory when the device registers, and forgets them when the store is erased on purpose.
A CRC that fits a damaged record by chance is left out, and so are errors of the flash:
`ts_key_store_save` looks at no result.

### Disco

There is one `disco_state_t` for all sessions, and `disco_init` clears it. `task[s]` is
the task session `s` started; it works on whatever socket and queue the structure holds
when it looks, so that an old task would work on those of the next session. Sockets and
queues go by the session that made them. `disco_stop` only clears `running`. A task in
`recvfrom` wakes after at most `RecvTimeout`; time does not pass while a task can go on.
`queues` is how long each packet has waited.

### WgSetup

`ctx` is the static context `s_wg_ctx`; `netifs` is lwIP's list, in which the interface
of the context is an element, so that clearing the context cuts the list behind it.
`SetUp` is `pm_setup_wireguard`: it makes a device and binds the port (`CreateDevice`),
or finds the port taken and leaves a cleared context (`PortTaken`); it reports success
only if the first peer of the table could be connected. `TearDown` does nothing for a
context that is not initialized. A device stands for its timer, too.

### Device

One device: it extends `KeyStore`, whose actions are steps of its own, and has `Disco`
and `WgSetup` as instances on its variables. `main` is where the main task is, `timer`
how long it sleeps; its sleeps of 0.5, 3 and 10 s and the
time-out of 2 s are 1, 3, 4 and 2 ticks, which keeps their order. The control connection,
the map stream and the relay only succeed or fail here. The map task may set WireGuard
up when an update comes (`MapUpdate`), the output hook fills the direct queue while
WireGuard is up, and the power may fail anywhere: memory is lost, the sector stays as it
is, and the next boot begins. `used`, `registered`, `bareSetUp`, `found` and `failures`
are histories or counts. `Reset` is the call of `ts_key_store_erase` a factory reset makes.

## 4. The runs

| run | question | bounds |
|---|---|---|
| `replay_window` | does the window accept exactly what was never accepted and is inside it | nonces 0 to 8, window of 3: every shift, gap and edge happens |
| `tunnel` | do the sessions of two devices stay apart, confirmed and free of nonce reuse through handshakes, rekeys and ages, with old packets in the network and one of the devices rebuilt | 4 draws: two full handshakes, in one direction, in both, or crossing; 1 payload and any keepalives; 1 clock step, which reaches the reject, rekey, retry and keepalive ages (1, 0, 1, 0); 1 restart |
| `derp_sessions` | is each packet in one place, do packets stay in order, are they written or freed in the end, and does the relay come back, with a server that refuses, breaks and keeps waiting as it likes | two sessions, 3 connections, 3 packets, queue of 2; 1, 6, 1 and 2 units for the delays of 5, 30, 1 and 10 s |
| `paths` | does a packet go to its owner, is the direct path good while it is used and left when it is not | 2 peers, one in two networks, table of 2, 1 endpoint each; windows of 1 and 2 steps for 10 and 15 s; one map update or reconnect |
| `map_session` | are messages returned whole, in order and without a gap, does the server's window come back, does the client get back to polling | 4 messages, one of them in one or two frames, window of 4 pieces, buffer of 3; 2 other frames a session; 3 time-outs for 4, 2 failures for 5, 3 start frames for 10 |
| `control` | does the client read exactly the frames the server wrote, do the nonces agree, is every buffer large enough, does it ever wait for what only it can cause | 2 frames of 1 to 4 units, records of at most 2, buffers of 4 and 4 units, 1 send, 1 ping |
| `device` | does the device keep its identity, do direct packets leave in time, is WireGuard live when it is said to be up, does each session start from nothing, which endpoint is announced | 2 sessions a boot, 2 power failures, 2 identities, 2 devices, 3 direct packets a session, queue of 2 |
| `tunnel_replayed`, `derp_overlap`, `paths_owner`, `map_object`, `device_bare` | see findings | |

The two devices of the tunnel are interchangeable, so its runs use symmetry; none of
them checks liveness. The tunnel is checked without fairness: nothing forces a packet
to arrive. Its clock starts at 1, so that `MaxTime = 2` is one step; with an age of 1 or
0 one step is what makes a session too old to use, to keep or to leave silent.
`tunnel_replayed` needs no clock step.

`derp_sessions` counts time in units of 5 s and rounds the second of `derp_close` up to
one, which keeps what matters in order: the first two back-offs (1 and 2 units) end
before the next session can start (3 units after the stop), and the third (4) does not.
So the run meets a task that is gone in time, one that is not because of its back-off,
and one that is not because a call keeps it. The run assumes weak fairness of each
receive task (the scheduler runs what is ready, and calls return in the end), of the
clock, and of the calls that have begun; and strong fairness of `Dialled`: a server that is dialled again and again answers
in the end. It does not assume that the main task ever opens or closes a session, nor
that anybody sends. The last of the bounded connections does not break and its
handshake does not fail, for which the fairness of `Dialled` would have nothing left.
`derp_overlap` has the seconds of the code, and a server that never keeps a call waiting
(`SlowServer = FALSE`), so that the back-off alone is shown to be enough.

Each run checks the invariants and properties named in its entry of `PROJECT.json`. Types
are checked in `tunnel`, `derp_sessions` and `paths`, where they bound an array or a
queue of the program, and proved for every module.

`paths` assumes weak fairness of the clock and of the map task once it has begun a
response. `RelayAnswersRelay` says itself what it assumes of the node (it keeps
sending over the relay, strong fairness of `RelayReceive`); the others assume nothing
of the network. The addresses of different nodes have different IPs: behind one NAT
`disco_wg_direct_rx` cannot tell two nodes apart. Two peers are enough for every
confusion of indices (an entry taken by another node, an index past the end, an entry
being rewritten), and one more endpoint only lets the list fill up later.

`map_session` assumes weak fairness of the two tasks of the client, time-outs
included, and nothing of the server. A message in two frames is enough for a
time-out inside it, and four messages for what follows: the second is cut, the
third is swallowed with the rest of it, and the fourth is read whole again after the
next time-out. Sessions are not counted: each starts from the same state. Only the
frames that carry no message are bounded (`MaxNoise`); a server that sent PINGs for
ever would keep a read from timing out for ever.

`control` assumes weak fairness of the server sealing what it has written, of TCP
bringing it while the connection is not broken, and of the client's reads, as the map
task asks for the next frame in a loop. It does not assume that the server writes
anything. Two frames of up to four units make every cut: a frame in several records,
several frames in a record, a record that ends one frame and begins the next, and a
record that waits until the buffer of frames has room.

`device` is about safety only and assumes no fairness. A second session is where the
leavings of the first would show, and a second power failure may fall into the boot that
follows the first. Three packets overfill a queue of two.

Deadlock is checked in all runs but `control`, `device` and `device_bare`. A control
connection that has failed rests, and a device rests once it has used up its sessions.
The model of `DerpClient` rests only when its last session is closed and no task is left.

## 5. Findings

Each is a run with the expectation "violation", with the comment it contradicts.

- `tunnel_replayed`: the packet that promotes a responder's session is marked in
  the destroyed slot and may be replayed once (`wireguardif.c:308`).
  `OneReplayPerSession` shows that it is this packet only, and only once more.
- `paths_owner`: an incremental map update (`PeersChanged`) rewrites the table from
  entry 0, and packets for a peer that kept its index go to another node.
  `SyncedReachesOwner` shows that this lasts until the peer is heard again.
- `map_object`: a read that times out between two frames of a message forgets what it
  has joined; the next read starts inside the message, joins the rest of it with the
  messages that follow, and returns none of them until no frame comes for 30 s.
  `WholeMessages` shows that the reader is in step again after that.
- `device_bare`: WireGuard set up from a table whose first peer has no endpoint is
  neither up nor torn down. A second set-up in the same session clears the context while
  its interface is in lwIP's list; the device, its timer and the port stay until the
  next boot, and so does the failure of every later set-up. `NothingLeftBehind` shows
  that nothing is left by any other way.

- `derp_overlap`: a relay that breaks and refuses three times in a row is enough for two
  receive tasks. The task then sleeps for 20 s at once (`ts_derp.c:586`), which outlives
  the second that `derp_close` waits and the 10 s until the next session; `derp_init` and
  `derp_start` use the same structure, so that the old task wakes, finds `running` set, and
  reads, writes and reconnects beside the new one. A slow server has the same effect
  without any failure. What follows is worse than a mix of packets: when the old task
  leaves, it clears `running` and `ready` (`ts_derp.c:607`), the new one stops too, and the
  session goes on without a relay. That is why `RelayComesBack`, `Settled` and `InOrder`
  stop at `overlapped`: none of them holds without that exception.

## 6. The proofs

`ReplayFilter_proofs`: for every window size and every sequence of nonces,
`WindowExact` (the bitmap is the set of accepted nonces inside the window) is
inductive with the type; from it follow `NoFalseRefusal` and the refinement of
`WindowedOnce`. Assumption: the difference between a nonce and the newest one stays
below `DiffRange` (2^32 packets), as `ReplayFilter` states it.

`WgTunnel_proofs`: `TypeOK` and `NonceNeverReused` for every number of draws,
payloads, clock values, restarts and every setting of the ages. `NonceNeverReused`
is not inductive: a keypair that `wireguard_start_session` is about to make could be
one whose packets are already in the network. `IInv` adds where keys come from:

- `PeerDrawn`, `NetDrawn`: every number in a peer structure or a packet has been
  drawn, so a new draw is in none of them. That makes the keys of a responder new.
- `PendingUnused`: the draw of a pending initiation is in no session key of its node
  and in no packet sent under one. That makes the keys of an initiator new, provided
  a response is accepted once: `wireguard_start_session` ends the handshake.
- `KeysApart`: no key is in two slots, so that a send cannot leave a second copy of
  the counter behind.
- `CountersAhead`, `NoncesUnique`: each copy of a key is ahead of the packets sent
  under it, and these have different counters.

All but `TypeOK` and `NetDrawn` are stated for one peer structure against a set of
packets and a number of draws (`NodeInv`), so that a handler that does several things
is followed one call at a time. `Reshape` is the lemma they share: an operator that
only moves or drops slots, or fills one with a new key, keeps `NodeInv`. There is one
lemma for each operator of `WgPeer` that touches a slot, and one for each action.
Assumptions: `TunnelAssumption` and that of the replay window.

`WgSlots_proofs`: `OneSlotPerSession` and `CurrentConfirmed`, on top of `WgTunnel_proofs`.
`SlotsInv` is what is inductive: the local index of each valid slot, and that of the
pending handshake, is a number already drawn, and they are pairwise different; a session
begun by the other end is in `curr` only with a time of last reception. A new draw is
above all of them, and a slot is filled only from the pending handshake, which ends with
it, or from a new draw. The clock starts at 1, so that a time of reception is never the
0 that stands for none. The other five come from what each call leaves of the sessions:

- `LinkUpWithSession`: only the timer and a teardown take a last session away, and both
  take the link down.
- `ResponderConfirmed`: a session that is not the initiator's has a time of reception only
  if a packet of the other end, sealed with its key, is in the network (`ConfInv`).
- `InitiationAnsweredOnce`: an answer goes out only for a timestamp above `greatest`, which
  then is that timestamp; only a restart makes it smaller again (`AnswerInv`).
- `SessionSurvivesRekey`: an action property, handler by handler.
- `OneReplayPerSession`: of the packets of a session one at most is `Hot`, that is,
  delivered twice, or once and still acceptable to the window (`Marked`). What the window
  marks it refuses from then on (`MarkedOnce`); the one packet it forgets is the one that
  promotes `next`, under which nothing was delivered before (`Unheard`). Nothing was
  delivered either under the index of a pending initiation, so a new session starts
  without packets that a fresh window would let in again (`Heard`). Assumption: no session
  is so long that the difference of two nonces wraps 32 bits (`ShortSessions`), as for the
  filter alone.

`Device_proofs` begins with the key store by itself: `KeyTypeOK` and `IdentityKept` for any
set of identities and any number of power failures. `KeyInv` adds that nothing is registered while the record is being
rewritten (a boot rewrites it only when it found none that is valid, and none is valid
only when the server knows none), that the keys in memory are one triple, that what has
been written so far is a prefix of it, and that a device that is ready, and was not
wiped, has its keys in the flash.

Then the whole device: each of its steps is a step of the key store or leaves it alone,
which carries `IdentityKept` over. `DeviceInv` is an invariant of the parts that nothing
in the code couples but the main task: where it is, and how long it will sleep there,
says which DISCO task, socket, queue, device and port can be alive.

- `TaskInv`, `StopInv`: a DISCO task is that of the present session, and one that was told
  to stop wakes before the main task does. This is where `RecvTimeout < RetryDelay` is
  needed: it is what stands for the wait that `disco_stop` does not do.
- `QueueInv`: a packet has waited no longer than the task has been in `recvfrom`.
- `SetupInv`: WireGuard is all there, all gone, or, after a set-up from a bare table, lost
  with the port still taken.

From it follow `NothingLeftBehind`, `UpMeansLive`, `DirectDelay` and `AnnouncedIsLastFound`,
for any delays in that order, any queue and any number of sessions and power failures. The
last one says which endpoint a map request carries, not that it is a good one (see 7).

`PeerPaths_proofs`: `TypeOK`, `SyncedReachesOwner`, `DirectPathEarned` and `NoFlapping` for
any number of nodes, addresses, entries and map responses, with a parse interrupted
anywhere. Two facts carry it: what an entry holds was learned from its own node
(`EntriesInv`), and of several entries with the same node only the first learns anything
(`FirstInv`), because every search of the code runs from index 0. `PathInv` relates the
age of a path to the last packet from its address, `AddressInv` the addresses in the
device to the table. Assumptions: nodes do not share an IP, and `RelayTrust` is at most
`DirectTrust` (10 and 15 s in the code), without which a path could be given up while
packets still come over it.

`DerpClient_proofs`: `TypeOK`, `Accounted` and `InOrder`, for any server, slow or not, any
delays and any number of sessions, connections and packets, tasks that outlive their
sessions included. `AccountInv` is `TypeOK` with `TasksFresh` (a session whose task does not run
yet has an untouched one, and only a task that writes carries a request) and `Accounting`:
the accepted requests are divided among the queue, the tasks, the connections and what
was freed, and none of these holds one twice. `OrderInv` adds `Latest`, that the structure names no
connection or the latest one, and, until an overlap, that one task at most is alive and
`Order`: what was written is before the request in hand, that is before the queue, the
queue ascends, and nothing has been written on a connection later than the one a write
began on. `Latest` is what lets a write that began on a connection end on a newer one.
`InOrder` promises nothing after an overlap, and an overlap does happen (see 5).

`ControlRecords_proofs`: `NoncesInStep`, `FailsForAReason` and the refinement of
`FrameChannel`, for any buffer sizes, frames, cuts into records and failures of sends.
`StreamInv` adds to the nonces that there is no record before the Noise answer and that
the records of `wire` carry consecutive nonces in order (`Downlink`), and that the messages
on their way to the server are consecutive as long as the connection is not broken, and
a prefix of what was sealed after that (`Uplink`). For the rest, the frames the server
has written are one stream of units. `FlowInv` gives each message on its way the place
where its text begins in that stream (`Course`): what was read, what is in the buffer of
`ts_http2.c`, each record and what the server has not yet sealed are pieces of it (`Run`),
one behind the other. So a frame that is complete in the buffer is the next one that was
written, and a plaintext fits behind an unfinished frame because of the cut that
`LongFrame` describes. The places of the messages in the stream of bytes (`Measured`) say
that the first message always fits `recv_buf`.

`MapStream_proofs`: `WholeMessages`, `NothingSkipped` and `CreditBalanced` for any messages,
cuts into frames, noise and time-outs, and a buffer that holds the longest message. `Flow`
is what is inductive for the first two: each frame on its way has the place where it
begins in the stream of messages (`Course`), and what a read has joined lies before the
first of them (`Reads`): a read that began between two messages has the beginning of the
one at that place, and any read lies behind all that was returned. `CreditInv` counts the
pieces on their way frame by frame: every step sends within the credit, takes a frame and
gives back as much as it carries, takes one that carries nothing, or ends the connection
(`CreditStep`).

Only model-checked, since out of the prover's reach: every liveness property, because the
fairness of the specifications rests on ENABLED, and what recursive definitions compute.

## 7. Not modelled

- Cryptography, parsing and formatting of protocol messages, HPACK, TLS, the fetch of the
  server's key, DNS, Wi-Fi, SNTP, the OTA server (named in the documents, absent from the
  tree), and the vendored SDK. In share of lines, nearly all of the repository is SDK.
- Memory exhaustion, results of flash calls, tasks that cannot be created.
- Data races inside a function: the static item of `disco_queue_direct_send`, calls of
  `wireguardif` from several tasks without a lock, a packet in `wireguardif_network_rx`
  while WireGuard is torn down. Each action is one call or one step between two blocking
  calls.
- Several peers in a WireGuard device: the collision test of `generate_unique_index`
  looks at the last peer only, and the rate limit of initiations never limits. The
  tunnel has one peer on each side.
- Liveness of the handshake: two ends that keep crossing their initiations.
- What a use after free does (`DerpClient` lets the call fail). No property says that the
  relay's queue and connection are free of users when `derp_close` frees them: with a slow
  server they are not (`ts_derp.c:650`), and a sender may be between its test of the queue
  and its use (`ts_derp.c:424`).
- Whether an announced endpoint is still good. When STUN does not answer in a session, the
  endpoint found in an earlier one is announced, although its socket is closed
  (`ts_main.c:754` says "continuing with LAN endpoint only"); `AnnouncedIsLastFound` says
  no more than that.
- The way back to the relay after 120 s of `docs/PROJECT_REPORT.md:273`. After a pong the
  WireGuard peer has a real address (`peer_manager.c:854`), and nothing brings it back when
  that dies, unless the peer itself uses the relay: that is the premise of
  `RelayAnswersRelay`. `DeadPathLeft` is about the hook's path, not this address.
- In `ControlRecords`: a record whose plaintext is empty, and a TCP connection that ends
  without a close frame, which the client takes for a time-out.
- The one pending ping that all peers share: `PeerPaths` lets any pong be lost.
- Direct packets longer than the 256 bytes the DISCO task receives into: lost, as any
  packet may be.
- Nodes that share an IP behind one NAT; cookies; the choice of a relay from the DERP map.
