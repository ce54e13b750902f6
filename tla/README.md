# Verification of libfgw

libfgw carries the TCP connections of SOCKS5 clients from an **Inport** to an
**Outport** over a bundle of links that may be slow, silent or broken. This
directory holds TLA+ models of the parts that make the result a correct byte
stream, the TLC runs that check them on small instances, and proofs, checked by
TLAPS, that hold for every size. Paths are relative to the repository root.

## 1. Inventory of the system

| Part | Source | State it keeps | Operations | What makes it correct |
|---|---|---|---|---|
| DataStream | `src/zfgw_datastream.{h,cpp}` | `sessions_` (send number, expected number, `rx_buffer`, handler), dedup ring and map, race counters, epochs | `openSession`, `sendSessionData`, `closeSession`, `onChannelBytes`, `deliverInOrder`, `emitFeedback` | each handler gets the peer's bytes in order and once; buffers stay bounded; closing loses nothing and leaks nothing |
| Racing arbiter | same file; `LinkSelector` in `src/zfgw_channel_manager.cpp` | wins and races per peer channel, `feedback_epoch_`, `applied_epoch_`, `peer_generation_`, primary, probe rotation | count a race, `emitFeedback`, apply ACK, Hello | the newest decision of the living peer rules; a faster link becomes primary |
| Channel | `src/zfgw_channel.{h,cpp}` | `connected_`, `stalled_`, `last_rx_tick`, peer identity | `connect`, `close`, `markConnected`, `markClosed`, `addRecvBytes`, `evaluateStall`, `sendBytes` | a silent link leaves selection in time, a working one never does |
| ChannelManager | `src/zfgw_channel_manager.{h,cpp}` | `channels_`, reconnect timers, heartbeat timer, acceptor, subscribers, its copy of the configuration | `start`, `stop`, `addChannel`, `removeChannel`, accept, `onChannelClosed`, reconnect | a configured link comes back; a removed or stopped one does not |
| Inport | `src/zfgw_inport.{h,cpp}` | `sessions_`, `next_session_id_` | accept, client bytes, session data, close | one session per client; ids never meet |
| Outport | `src/zfgw_outport.{h,cpp}` | relay sessions: SOCKS5 phase, buffers, outbound socket | greeting, request, connect, relay, close | SOCKS5 order; bytes before the connect are not lost; no use after close |
| Transit | `src/zfgw_transit.{h,cpp}` | links, `inbound_by_ingress_`, `outbound_by_outport_`, redial timers | forward by `outport_id` / `ingress_id`, redial | a segment goes to the right side or nowhere |
| Machine | `src/zfgw_vm.{h,cpp}`, `src/zfgw.{h,cpp}` | `running_`, `config_`, the services, `config.zds` | `mlfStart`, `mlfStop`, `mlfSetConfig`, `mlfAddChannel`, `mlfRemoveChannel`, `mlfGetStatus` | start and stop are clean; the stored configuration is the last one accepted |
| Segment codec | `src/zfgw_segment.{h,cpp}` | none | encode, peek, CRC | decode after encode is the identity on the fields of the header kind |
| ZDS packing | `src/zfgw_pack.*`, `src/zfgw_proto.h` | none | generated pack/unpack | generated code, not modelled |

How the parts interact. A client connects to the Inport, which opens a session
in its DataStream. The DataStream cuts the bytes into numbered segments and
gives each to the links that the LinkSelector picks from the ChannelManager's
live channels. At the other end the reactor hands what a link brings to the
DataStream, which drops copies, reorders, and calls the session's handler: on
the Outport a relay that speaks SOCKS5 and connects to the target. The way back
is the same. The ChannelManager's heartbeat keeps links awake, marks silent ones
stalled and drives the arbiter, which tells the peer which link is fastest. A
Transit in the middle forwards segments by their header and keeps no sessions.

Threads. Socket callbacks and the acceptor's factory run on the reactor thread;
timers and RPC handlers run on the machine's sync queue. Each object has a
recursive mutex. What is shared without a lock (`connected_`, the handler's
`owner_`, the list of subscribers after it has been copied) is where the two
threads really interleave.

What is hard here: copies of one segment race over links that fail on their own,
nothing is ever retransmitted, the dedup memory is finite and shared by all
sessions, session keys can come back to life through late segments, numbers and
ticks are 32 bits wide, and timers outlive what they were set for. The list
`hazards` of `PROJECT.json` names each of them at its line with the properties
that watch it.

## 2. Modules

| Module | What it is |
|---|---|
| `DataStream` | two DataStream objects joined by links: sessions, dedup ring, receive window, reordering, FIN exchange, link loss; all stream properties |
| `OrderedPipe` | the abstract promise to a relay: a one-way pipe |
| `MCDataStream` | instances of `DataStream` for TLC, fairness, symmetry |
| `DataStreamProofs` | the proofs about `DataStream` |
| `LinkLiveness`, `LinkLivenessProofs` | one channel's stall detection: reactor callbacks against the heartbeat, with a wrapping clock |
| `ChannelManager`, `ChannelManagerProofs` | the pool of links under RPCs, losses and timers that nothing cancels |
| `LinkSelector`, `LinkSelectorProofs` | which links carry the next segment: primary, rotating probe, modes |
| `RacingArbiter`, `RacingArbiterProofs` | the feedback loop that chooses the primary; composes `LinkSelector` with race counters, epochs, generations, restarts |
| `Inport` | the client side: accept, session table, closes, stop |
| `Outport` | the target side: SOCKS5 phases, connect, relay, stop |
| `Tunnel`, `MCTunnel`, `TunnelProofs` | `Inport` and `Outport` joined by the pipes of their sessions; the end-to-end properties; proofs about them |
| `Transit`, `TransitProofs` | the relay in the middle: two routing tables, redials, deferred removal; proofs about them |
| `Machine`, `MCMachine`, `MachineProofs` | RPCs, bring-up and teardown, the configuration file, crashes; proofs about them |
| `Framing`, `MCFraming` | segments as bytes: headers, checksum, reassembly from reads |

### DataStream

Every operation of a DataStream holds `lock_` from its first line to its last, so
each is one action: `openSession`, `sendSessionData`, `closeSession`, and
`onChannelBytes` split by what it finds (`ReceiveDuplicate`,
`ReceiveOutOfWindow`, `ReceiveSyn`, `ReceiveFin`, `ReceiveData`). The order of the
checks is the code's: duplicate, window, record, then act. `ReceiveFin` includes
the handler's `onSessionClose`, which in both handlers calls `closeSession` at
once and so answers with a FIN. `deliverInOrder` follows the `std::map`: it looks
at the numerically least buffered number only, which is what matters when numbers
wrap.

| Variable | Code |
|---|---|
| `sessions` | `sessions_` of each end (`next_send_seq`, `expected_rx_seq`, `rx_buffer`, whether there is a handler) |
| `dedup` | `dedup_queue_` (`dedup_map_` holds the same keys) |
| `net` | what each end has yet to read from each link: TCP keeps a link in order |
| `live` | the links `liveChannels()` returns |
| `sent`, `handed`, `prior`, `instances`, `eof` | history: what handlers wrote and got, how many handlers a key has had |

Abstractions. A payload is a model value. A key is the pair (ingress, session). The
LinkSelector's choice is any set of the right size (1 for BEST, 2 for WEIGHTED,
all for ALL): weights, primary and probe only choose within it. A link that an end
loses drops what that end had not read. Segments are whole: the framing in
`scratch_` and the CRC are not modelled here, nor is running out of memory in
`ZCE_MBACQUIRE`. One Inport and one Outport; Inport ids are not reused while it
runs, so a key is opened once.

### LinkLiveness

`connected_` is written without a lock, `last_rx_tick` and `stalled_` under
`quality_lock_`. `markConnected` is therefore two steps, and so is the heartbeat's
visit to a channel (it reads `connected_`, then evaluates). `silence` is history.
Time advances one tick at a time modulo `TickMod`.

### ChannelManager

`pool[id]` is the channel under that id in `channels_`, by what became of its
connect: `dialing` (a callback will come), `failed` (`start_connect` returned an
error, none will), `open`, `closed` (lost, still in the map). `timers` and `reaps`
count the one-shot timers that wait; a timer holds a reference to the manager, so
the destructor, which calls `stop()`, runs with the last of them (`Released`).
`asked` is history: the address the operator last asked for a link at. Each operation
takes `lock_` and is one action. Three addresses are told apart: `configured`, the one
of the id in the manager's own copy of the configuration, taken at `start()`; `other`,
one that only `mlfAddChannel` brings, also for a configured id that was removed; and
`empty`, the default `FgwEndpoint` that `onChannelClosed` falls back to. A redial goes to
the first or the last, never to `other`. A channel of a kind that is neither TCP nor UTP
(`UnknownKind`) is refused before it is inserted, by `start()` silently, by the RPC with
an error, and by a redial after the old channel was removed. Assumed of the zce
connector: a connect that was started either opens the socket or closes it (10 s
timeout), with a callback. The back-off is a timer of unspecified length; in the code
it is the constant `reconnect_max`, although README.md:24 speaks of an exponential
one.

### LinkSelector and RacingArbiter

A link is the number of its rank. `select` is the code's index arithmetic;
`probe_rotation_` is kept modulo a multiple of every divisor it is used with.
`RacingArbiter` takes `select` from it and adds, for one direction, the two ends:
the sender (Inport) and the arbiter (Outport). `onChannelBytes` appears as
`onHello`, `onAck`, `RaceWon` and `RaceLost`, the heartbeat as `emitFeedback`. Before it
sends, the heartbeat marks the links it has not heard of (`evaluateStall`), and both the
selection and the feedback leave those out (`liveChannels`); bytes of any kind end a
stall (`Recovers`). Which link is silent is a free choice here, `LinkLiveness` has the
clock. `carried` is history: the links that the last decision was sent over and that were
not lost since. Rates
are compared by cross multiplication, which agrees with the code's doubles for
32-bit counters as small as these. `Restart` is a stop and start of an end, with
(`NewProcess`) or without a new generation; bytes of the old incarnation that are
on the way are still read by the peer before the end of the connection. `Fast` and
`Prompt` describe the network of a run: a link whose copies always come first, and
copies that arrive before the next heartbeat.

### Inport, Outport and Tunnel

`Tunnel` instantiates the two sides over shared pipes `up` and `down`, one pair per
session. The pipes are in order, lose nothing, and bring a FIN after the data: what
`stream_live` shows of DataStream when every segment takes every link. Bytes are
tokens. A greeting and a request are two tokens each, the client's tokens are sent
one at a time and received in runs of any length, so that a read may end inside a
message and a run may hold the handshake and payload together.

| Variable | Code |
|---|---|
| `sess`, `next_id` | `FgwSession` objects, `sessions_` and `next_session_id_` of `InportService`, and the Inport stream's entry for the session |
| `relay` | `FgwRelaySession` objects (`state_`, `rx_buffer_`, `remote_tcp_`) and `sessions_` of `OutportService` |
| `rx` | the Outport stream's entry (`expected_rx_seq`) |
| `half`, `busy` | the reactor is between two steps of one callback |
| `isvc`, `osvc` | progress of `stop()`; the destructor calls it again |
| `todo`, `seen`, `ahead`, `taken` | external: what clients and targets send and get |
| `fed` | history: what a relay was given |

A reactor callback is one action, except where `stop()` on the machine's thread can
fall in the middle: the acceptor's factory (insert, then `openSession`),
`startConnect` (after the request was parsed) and `onRemoteOpen` (the reply, then the
state and the bytes that waited). `close()` under `stop()` is two steps, because the
second waits for the stream's lock. `Parsed` is the loop of `feedRx` with both
parsers; a run is given to the handler that the session had at its start, as
`deliverInOrder` does. The bytes of an address are not told apart. A segment on the
way up brings one token.

### Transit

A link is known by its address, because `links_` is keyed by the channel's pointer
and the deferred removal keeps nothing else; an address is free again when neither
`links_` nor a table holds the channel. `links`, `outbound`, `inbound` are `links_`,
`outbound_by_outport_`, `inbound_by_ingress_`; `dials` counts the dials that are due,
`reaps` the removals that wait. Every operation holds `lock_`. `onLinkBytes` takes one
whole segment: the reassembly is the same loop that `Framing` models. `sent` is
history.

### Machine

RPCs run one after the other on the machine's queue; a crash may come between any
two steps. A bring-up is one step per service in the code's order (`startTransit`, or
`startManager` with the stream, then `startInport`, or `startOutport` and
`startLinkListener`), each with its own error return; `comps` is what has been built so
far, and the error returns lead to `BringupFails`, the teardown, except the one after the
manager's start, which just returns. `MayFail` says which starts can fail: those that
listen on a port. `ChannelManager::start` and `OutportService::start` return 0 on every
path. The reactor is taken to be there, so that a bring-up gets as far as its first
service. A listed channel has an id and a kind that is known or not; `Pooled` are those
that `addChannel` inserts. `mlfSetConfig` is split where a crash matters, between the truncation of
the file and its write (`SaveWritten`). A file is absent, cut short, of another
layout, or a configuration. `up`, `accepted`, `unsaved` and `changed` are history.

### Framing

Bytes are tuples with a number; every header field is one byte, session and number
are one field, so the three header kinds are 5, 6 and 7 bytes long instead of 16, 20
and 24: what matters, that each is a prefix of the next and that a read may end
between them, is kept. The checksum is the tuple of everything it covers, so there
are no collisions. `scratch` is `scratch_[ch].buffer`; a new channel at the same
address inherits it.

## 3. Runs

Bounds are constants in the `.cfg` files: `MaxInport`/`MaxOutport` segments per
direction, `MaxDowns` link losses, `MaxSilence` ticks.

| Run | Instance | Shows |
|---|---|---|
| `stream_safety` | 2 links, 2 copies, window 2, ring of 2 keys, 3 segments, 1 link loss | `TypeOK`, `WindowBounded`, `NothingHeldBack`, `InOrderForward`, `NotPoisoned`, `ImplementsPipe`: window, buffer and dedup table give the relay a prefix of the client's stream, and DataStream implements `OrderedPipe`, although keys are forgotten while copies are on their way |
| `stream_live` | 2 copies over 2 links, one of them blackholed, window 3, 3+2 segments | `AtMostOnce`, `NoLeak`, `CloseAfterData`: with every segment on every link, closing is clean; `Delivery` under weak fairness of the other link |
| `stream_fin_race` | 3 links, 2 copies | **violated** `CloseAfterData`: a FIN overtakes data |
| `link_liveness` | ticks modulo 12, silence below 12 | `TypeOK`, `DetectedInTime`, `StallOnlyIfSilent`, `StaysStalled` |
| `pool_safety` | two configured links, one of unknown kind, an added one, two accepted, 3 RPCs, connects that may fail at once, stop | `TypeOK`, `ClosedIsHandled`, `WantedIsServed`, `ReapsOnlyDead`, `SelfHealing` |
| `selector` | 4 links, every mode | `CopiesOnDistinctLinks`, `EveryLinkProbed` |
| `arbiter_race` | 3 links, link 2 always first, 2 segments, 2 heartbeats, 1 loss, 1 stall | `TypeOK`, `FollowsLastDecision`: a link that got the last decision brings it home, under any order of the copies; `BeatenNowNotChosen`: the win-rate, not the number of wins, decides |
| `arbiter_restart` | 1 link, two process restarts, one loss, one stall | `EpochSound` |
| `tunnel` | one session, four client scripts (a good request with payload, an unsupported one, junk at either phase), two target tokens, stop on both sides | `TargetStream`: bytes reach the target exact, also those that came before the connect; `ClientStream`: the SOCKS5 order of answers; `NoHalfOpen`: no order of closes, errors, late bytes and stops leaves one side open; `Answered`, `EndReachesOther`: a request is answered, an end reaches the other side |
| `transit` | 2 Inports, 1 Outport, 5 addresses | `TableSound`, `RightWay`, `OneAttempt`; `RouteHeals`: the route to an Outport comes back |
| `machine` | six configurations over three roles and an unknown one, with and without a listener, one with a link of unknown kind | `AllOrNothing`: whichever service fails, nothing half is left; `NeverOlder`; `ConfigServed` |
| `framing` | 2 segments per connection, 2 connections, three payloads, one that looks like a header | `CleanFraming`: any cut into reads gives the segments back; `NothingInvented`: with checksums nothing is accepted that nobody sent |

Why the bounds are enough. Three segments with a window of two give: in window and
buffered, out of window and refused, refused and later accepted from the other
copy. Two links with two copies give every order of a copy and its twin; a third
link lets one segment avoid the links of another. A ring of two keys forgets while
a copy is pending. One loss gives a gap that is never filled, and a reconnect. The
pool run has one link of each origin and kind, which never share state but `stop`, and
enough RPCs to remove a link and add it again elsewhere while its timer waits. Two
segments over three links let the first link lose to the fast one and win against the
third, two heartbeats give
a decision on counters that were halved once and an old one that may come after it, and
one stall with one loss leave a decision on a single link;
two restarts let either end restart after the other. Sessions of a tunnel share
nothing but the ids, which only grow, so one session meets every case; six client
tokens are a whole handshake and two pieces of payload, one for the time before the
connect and one for after. Five addresses let two Inports, an Outport and a replaced
channel exist at once and an address be used again while a timer still names it. Two
connections of two segments let half a segment of the first meet a whole one of the
second. The runs that look at safety use `CHECK_DEADLOCK FALSE`: a session layer with nothing
left to send really stops.

Fairness. `Delivery` assumes weak fairness of `onChannelBytes` on the links named
in `FairLinks`: the reactor serves every readable socket. It is not assumed for
the other links, for writing, or for closing. `SelfHealing` assumes that the
reactor fires due timers (weak fairness) and that a peer which is dialed again and
again at its configured address is reached at some time (strong fairness of
`onChannelConnected` there, an assumption on the network, without which no link can be
promised); of other addresses nothing is assumed. `EveryLinkProbed`
assumes that segments keep being sent. `Answered` and `EndReachesOther` assume weak
fairness of each side's own steps (`Progress`): the reactor serves what has arrived,
a connect ends one way or the other because the connector has a timeout, and a
`stop()` that has begun goes on; nothing is assumed of clients, targets and the
operator. `RouteHeals` assumes that removal timers fire (weak fairness) and, like
`SelfHealing`, that an Outport which is dialed again and again is reached (strong
fairness). Without losses (README.md:159-161:
there is no retransmission, a gap stalls the session) delivery is then promised
unless a side closes.

### Where the properties stop holding

The passing runs keep inside assumptions that the code does not enforce. Changing
one constant, or checking one more property, shows what each assumption is worth:

| Change | Then | Line |
|---|---|---|
| `stream_safety` with `AtMostOnce` | fails: a forgotten copy replays a finished session to a new relay | `src/zfgw_datastream.cpp:268` |
| `stream_safety` with 3 links, `DedupRing = 1`, `MaxInport = 1`, `MaxOutport = 2`, no loss, `InOrder` | fails: a forgotten copy replays the session to a second relay, whose answers are numbered from 0 again and reach the client in place of the first relay's | `src/zfgw_datastream.cpp:268` |
| `stream_live` with one link and one copy, `OneHandlerPerSession` | fails: data in flight when a relay closes creates the session again, with a second relay, where `src/zfgw_datastream.h:34` says one instance per session | `src/zfgw_datastream.cpp:313` |
| `stream_safety` with `SeqMod = 4`, `MaxInport = 5`, `DedupRing = 3`, `Fanout = 1`, no loss | `NothingHeldBack` fails: after a wrap the expected segment is stuck behind a smaller number | `src/zfgw_datastream.cpp:355` |
| `link_liveness` with `MaxSilence` at or above `TickMod` | `DetectedInTime` and `StaysStalled` fail: a link silent for a whole turn of the clock counts as heard again | `src/zfgw_channel.h:62` |
| `link_liveness`, between the two steps of `markConnected` | a heartbeat there measures silence from 0, the clock of a fresh channel object, and marks a link that has just opened stalled, until its first bytes or the next heartbeat | `src/zfgw_channel.h:180` |
| `pool_safety`, the channels after `stop()` | a reconnect timer set before the stop still dials | `src/zfgw_channel_manager.cpp:563` |
| `WantedIsServed` over `Added` links as well | fails: a link added by RPC is redialed at the default, empty endpoint | `src/zfgw_channel_manager.cpp:544` |
| `WantedIsServed` over `UnknownKind` as well | fails: a configured link of unknown kind is never pooled, and one that was added again under its id is dropped by its redial | `src/zfgw_channel_manager.cpp:401` |
| `pool_safety`, `ServedAsAsked` | fails: a configured link that was removed and added again at another address is redialed at the one the manager was started with | `src/zfgw_channel_manager.cpp:551` |
| `WantedIsServed` without the state `failed` | fails: a connect refused at once is never tried again | `src/zfgw_channel_manager.cpp:413` |
| `pool_safety` with `SyncFailures = FALSE`, `RemovedStaysAway` | fails: a timer set before the RPC brings a removed link back | `src/zfgw_channel_manager.cpp:572` |
| `arbiter_race`, `FollowsLastDecision` of any link that was never lost instead of one in `carried` | fails: the link was stalled when the decision was sent, and the link that got it is lost | `src/zfgw_channel_manager.cpp:447` |
| `arbiter_race` with 4 segments, 3 heartbeats, no loss and no stall, `BeatenNeverChosen` | fails: idle heartbeats decay the winners' counters to nothing first | `src/zfgw_datastream.cpp:397` |
| `arbiter_restart` with two links | `EpochSound` fails: an ACK of the old process comes late on the other link | `src/zfgw_datastream.cpp:217` |
| `arbiter_restart` with `NewProcess = FALSE` | `EpochSound` fails: the epochs start over, the generation does not | `src/zfgw_datastream.cpp:217` |
| `arbiter_race` with `Prompt = FALSE` | `BeatenNowNotChosen` fails: a loser's copy that comes after the heartbeat is not counted as a race | `src/zfgw_datastream.cpp:268` |
| `tunnel` without the exception `late` of a relay | `NoHalfOpen` fails: a `stop()` between the parsing of the request and `startConnect` leaves a socket that nobody closes; a FIN that meets a relay which `stop()` has half closed leaves an entry behind at the Inport | `src/zfgw_outport.cpp:276` |
| `tunnel` without the exception `late` of a session | `NoHalfOpen` fails: a `stop()` between the insert and `openSession` opens a session that is already closed | `src/zfgw_inport.cpp:138` |
| `tunnel`, a connect that fails later | the client is disconnected without a SOCKS5 reply (`onRemoteClose` only closes) | `src/zfgw_outport.cpp:107` |
| `tunnel`, an Inport that is lost with its links | its relays stay: nothing ties a session to a link | `src/zfgw_outport.cpp:321` |
| `transit`, an Inport with two links, of which the last used closes | there is no way back until the Inport sends again on the other | `src/zfgw_transit.cpp:248` |
| `transit`, `OneAttempt` after `stop()` | fails: a redial timer dials for a stopped Transit | `src/zfgw_transit.cpp:109` |
| `machine` with `"manager"` in `MayFail` | `AllOrNothing` fails: the return after `manager_->start` leaves the manager and its links, with `running_` false | `src/zfgw_vm.cpp:77` |
| `machine`, `ConfigServed` over every listed link | fails: a channel of unknown kind is only logged | `src/zfgw_channel_manager.cpp:217` |
| `machine` without the exception `unsaved` | `NeverOlder` fails: the RPC answers "config updated", the next start runs the one before | `src/zfgw_vm.cpp:233` |
| `machine`, a crash during a save | no configuration is left: the file is truncated first | `src/zfgw.cpp:65` |
| `machine`, a restart after `mlfAddChannel` | the channel is gone: only `mlfSetConfig` saves | `src/zfgw_vm.cpp:250` |
| `framing` with `verify_crc = FALSE` | `NothingInvented` fails: half a segment before a new connection makes segments of payload | `src/zfgw_datastream.cpp:138` |

## 4. Proofs

`DataStreamProofs` proves, for any finite set of links, any keys and payloads, any
window, ring, modulus, fan-out and number of losses:

| Theorem | Statement |
|---|---|
| `TypeCorrect` | `Spec => []TypeOK` |
| `WindowAlways` | `Spec => []WindowBounded` |
| `NothingHeldBackAlways` | `NoWrap => (Spec => []NothingHeldBack)` |
| `InOrderForwardAlways` | `NoWrap => (Spec => []InOrderForward)` |
| `Refinement` | `NoWrap => (Spec => ImplementsPipe)` |
| `NotPoisonedAlways` | `NoWrap => (Spec => []NotPoisoned)` |
| `AtMostOnceAlways` | `Spec => [](RingNotFull => AtMostOnce)` |
| `InOrderAlways` | `NoWrap => (Spec => [](RelayRingNotFull => InOrder))` |
| `CloseAfterDataAlways` | `NoWrap /\ Lossless => (Spec => CloseAfterData)` |
| `NoLeakAlways` | `NoWrap /\ Lossless /\ Links # {} => (Spec => [](RelayRingNotFull => NoLeak))` |

`NoWrap` says that a session sends at most `SeqMod - RecvWindow` segments per
direction; the table above has the instance on which
TLC shows that it cannot be dropped.
It is not needed for the window. `Lossless` says that no link is lost and that the
fan-out is at least the number of links (mode ALL, or dual-send over two links), as in
`stream_live`; `stream_fin_race` is the instance with fewer copies than links.
`RelayRingNotFull` says that the Outport has fewer keys than `kDedupRing`. Of the
constants the proofs assume what `DataStream` states: finitely many links, sizes that
are positive, a window no larger than the modulus, `NoPayload` no payload and
`NoSession` no session.

The argument. `InOrderForward` is not inductive: it says nothing of what is still on
a link or in a buffer. The inductive invariant is the conjunction of `TypeOK`,
`NumbersInv` (the window; a session's send number is the length of what was sent,
its expected number the length of what was handed, and nothing buffered is the
expected segment) and `StreamInv` (every DATA segment on a link or in `rx_buffer`
carries the payload that the client wrote at its number, and what was handed is
the part of the client's stream up to the expected number). The key lemma is about
`deliverInOrder`: without a wrap the least buffered number is never below the
expected one, so the loop takes exactly the contiguous run. A step that delivers
then extends the handed prefix by the payloads at the following numbers. The
refinement uses the same invariant: every action maps to `Write`, `Read`, `Attach`
or a stutter of the pipe.

`NotPoisoned` and `AtMostOnce` are about both directions and about the dedup table,
of which the invariants above say nothing. One lemma, `HandlerStep`, says what any
step can mean to one session at one end: its handler keeps what it has, a handler is
attached, or DATA of the session is read, and what each does to the ring. For
`NotPoisoned` the invariant (`PoisonInv`) adds that no DATA key is recorded before a
session's first handler exists. At the Inport this holds because a relay sends
nothing before its client has, so it rests on `StreamInv`, the order of the other
direction. For `AtMostOnce` the invariant (`OnceAt`) says that a handler that was
given anything was given segment 0, whose key is recorded, and that one that was
given nothing still waits for it. `RingNotFull` (no end has as many keys as
`kDedupRing`) is what the statement means: with a full ring it fails, see the table
above. `NoWrap` is not needed there.

The proof attempt of `NotPoisoned` found its first form wrong: it also spoke of an
entry without a handler, which late data leaves at an Inport whose client has gone.
There the keys of what the closed session had buffered are recorded and nobody kept
the segments, which is harmless because nobody waits for them. TLC shows it with
`Fanout = 1`, `DedupRing = 6`, `MaxInport = 1`, `MaxOutport = 3`. The property now
asks for an attached handler.

The way back is harder than the way there, because a relay that late copies attach
after the first has closed numbers its answers from 0 again. `BackAt` says of the way
back what `StreamInv` says of the way there, and that a relay which was given anything
has the length of the stream as its next number. It holds of a session with one relay,
or while the Outport's ring is not full (`OneStream`): then `OnceAt` shows that
only one relay of a session is given anything, and one that was given nothing writes
nothing (`FirstInv`), so all answers are of one relay. No run lists `InOrder`; on `stream_safety`
with `DedupRing = 20`, `MaxInport = 1` and `MaxOutport = 3` TLC agrees, and with a short
ring it fails (table above).

`CloseAfterData` needs the order on the links. With every segment on every link, each
link is a copy of the whole stream: `OrderInv` says that on a link the segments of a
session with one sender are SYN, then DATA with ascending numbers, then FIN, and
`CompleteInv` that whatever the attached handler still lacks is on every link that has
not brought it, and that before a session's first relay all of it is, SYN included. So
DATA at the head of a link is the expected segment or an older one, and a FIN at the
head of a link says that nothing is lacking. That DATA is read before the SYN, which
would make a handler begin with part of the stream already gone from a link, is
excluded by the same order. One lemma, `PathStep`, says what any step can mean to a
session on its way to one end: nothing is added, or it is opened, written to or closed,
on every link at once.

`NoLeak` is about what can bring a relay back. `LeakInv` says, while no key is
forgotten: the SYN, the FIN, and the DATA that a fresh relay would accept (numbers below
the window) are each recorded at the Outport or still on every link; what a relay has
taken is recorded; and once a FIN is recorded the session has no entry, its client is
gone and its SYN and all such DATA are recorded (`Finished`), so nothing that comes
later is fresh and in the window. When nothing is on the way, the FIN of a client that
has left can only be recorded. `Links # {}` is there because without a link a FIN goes
nowhere.

`LinkLivenessProofs` proves, for any timeout, interval, width of the ticks and start
of the clock:

| Theorem | Statement |
|---|---|
| `TypeCorrect` | `Spec => []TypeOK` |
| `StallOnlyIfSilentAlways` | `Spec => StallOnlyIfSilent` |
| `DetectedInTimeAlways` | `WithinOneTurn => (Spec => []DetectedInTime)` |
| `StaysStalledAlways` | `WithinOneTurn => (Spec => StaysStalled)` |

The unsigned difference of two ticks is never more than the silence (`ClockInv`):
that is all the first property needs, so it holds however long the silence lasts. The
other two need it to be equal to the silence (`ExactInv`), which it is as long as no
silence lasts a whole turn (`WithinOneTurn`, `MaxSilence < TickMod`, 49 days of
32-bit milliseconds); the table above says what happens then. `SeenInv` adds that
a silence older than the last heartbeat has been seen by it.

`ChannelManagerProofs` proves, for any configured, added and accepted links and any
number of RPCs:

| Theorem | Statement |
|---|---|
| `TypeCorrect` | `Spec => []TypeOK` |
| `ClosedIsHandledAlways` | `Spec => []ClosedIsHandled` |
| `ReapsOnlyDeadAlways` | `Spec => []ReapsOnlyDead` |
| `WantedIsServedAlways` | `Spec => []WantedIsServed` |

`ClosedIsHandled` is inductive together with the types. `ReapsOnlyDead` needs that an
accepted id that a timer names has been given out, and that ids are not given out
twice. `WantedIsServed` needs to know that the timers of a configured id all go to its
configured address (`Homed`) and that what is wanted is wanted by a running manager.

`LinkSelectorProofs` proves, for any finite set of links and any modulus of the
rotation:

| Theorem | Statement |
|---|---|
| `CopiesOnDistinctLinksAlways` | `Spec => CopiesOnDistinctLinks` |

It is an argument about index arithmetic: the probe's index, taken modulo one less
than the number of links and moved past the primary, never meets the primary. The
attempt found that two guards of a `CASE` in `Copies` overlapped (no link at all);
it is now an `IF` in the code's order.

`RacingArbiterProofs` proves, for any finite set of links and any bounds:

| Theorem | Statement |
|---|---|
| `TypeCorrect` | `Spec => []TypeOK` |
| `FollowsLastDecisionAlways` | `Spec => []FollowsLastDecision` |
| `EpochSoundAlways` | one link, `NewProcess` `=> (Spec => []EpochSound)` |
| `EpochSoundWithoutRestart` | `Spec => [](restarts = 0 => EpochSound)` |
| `BeatenNowNotChosenAlways` | `Prompt`, `Fast \in Links`, `MaxRestarts = 0` `=> (Spec => BeatenNowNotChosen)` |

`FollowsLastDecision` needs to know where each decision is: `FollowInv` says that
every ACK on the way carries the decision of its epoch, that the primary is the
decision of the applied epoch, and that on every link in `carried` the last epoch is
still on its way unless it was applied (`News`). A stalled link is not given the decision
and a link that breaks may lose it, so neither counts. `EpochSound` over one
link is about the order on it: `EpochInv` describes what a link may hold before, at and after
the Hello of the living process. With two links or with a generation that survives
the restart it is false, as the table above says. `BeatenNowNotChosen` needs `BeatenInv`: with copies
that arrive before the next heartbeat a beaten link has run more races than it has
won and the fast link has won all of its own, also after halving, so the comparison
of rates is strict. Without `Prompt` it is false (table above), and `MaxRestarts = 0`
is needed because a restart forgets the counters but not the copies on the way.

`TransitProofs` proves, for any disjoint sets of Inports and Outports and any
addresses:

| Theorem | Statement |
|---|---|
| `TableSoundAlways` | `Spec => []TableSound` |
| `RightWayAlways` | `Spec => []RightWay` |
| `OneAttemptAlways` | `Spec => []OneAttempt` |

`TableSound` is inductive with the shapes of the tables: a dial takes a free address
and the channel it replaces is in no table but its own, because an entry names the
peer of the link. `RightWay` follows from it step by step. `OneAttempt` also needs
`TimersSound`: while the Transit is up, a removal timer waits for an address exactly
as long as a closed link is listed there. So a timer that keeps only an address
never meets a link it was not set for. From the assumptions it uses that no id is
both an Inport's and an Outport's, which the code needs too (`channel_id` serves as
`outport_id`), and that `None` is none of the values.

`MachineProofs` proves, for any configurations and channels:

| Theorem | Statement |
|---|---|
| `AllOrNothingAlways` | `Spec => []AllOrNothing` |
| `NeverOlderAlways` | `Spec => []NeverOlder` |
| `ConfigServedAlways` | `Spec => []ConfigServed` |

`AllOrNothing` speaks of the time between bring-ups; its invariant (`ServicesInv`) adds
what each step of a bring-up finds (`Built`): the parts that the steps before it have
made and no others, the role that leads there, and `running_` not set. That the
manager's start does not fail is used in the step `startManager`, and only there.
`NeverOlder` needs that what is being
written is the last configuration accepted and the file meanwhile a cut one
(`SavingInv`), `ConfigServed` that what is run, stored or being stored is a
configuration, and from `ServicesInv` that a bring-up finds no manager of an earlier one.

`TunnelProofs` proves, for any session ids, client scripts and answers:

| Theorem | Statement |
|---|---|
| `TargetStreamAlways` | `Spec => []TargetStream` |
| `NoHalfOpenAlways` | `Spec => []NoHalfOpen` |
| `ClientStreamAlways` | `Spec => []ClientStream` |

`TargetStream` says nothing of a relay before it has a socket, so the invariant
follows the bytes from the first segment on (`StreamInv`, per session). `Track`: what
a relay was fed is its buffer, or the greeting and its buffer, or the handshake and
its buffer, or the handshake and what the target has, by phase; a relay in the table
has a live entry in the stream; and what the reactor is in the middle of fits the
phase that `stop()` may have changed meanwhile. `Flow`: numbers on the way up ascend,
a SYN is first, and once anything was taken in number 0 is gone, so that a relay
which late data bring back to life after a close is fed nothing and its empty
handshake cannot meet the old target's bytes. `Early`: of a session whose SYN is not
sent nothing is known anywhere. The two lemmas that carry it are `ParsedFacts` (the
loop of `feedRx` takes the greeting, the request or both off the front of the buffer
and nothing else) and `IntoBuffer` (a run is appended to what was fed and to the
buffer alike). Assumed is that ids are positive and that scripts are sequences.

`NoHalfOpen` speaks of a session only while nothing is on the way, so its invariant
(`EndInv`, on top of `StreamInv`) says what every moment before owes to the other end.
`ClientEnd`: a client is connected exactly while its session is not closed, an open
session whose SYN is sent has its stream entry, and a FIN is the last segment it sends.
`Ending`: a closed client's FIN is on the way or the Outport's entry is gone; an open
client has an entry at the Outport, or its SYN is still on the way, or a FIN comes back;
every DATA segment on the way back, which makes an orphan entry at a closed Inport, is
followed by a FIN as soon as the Outport's entry goes. A step of the Outport leaves a
session in one of four ways (`StillOpen`, `NowEnded`, `StillEnded`, `FinTaken`), one
lemma each. The exceptions `late` are needed at exactly the places the table in section
3 names. The attempt showed that `NoHalfOpen` holds without waiting for the reactor or
for `stop()` to finish, as it was first stated: nothing on the way is enough.

`ClientStream` is about what the client has, which says nothing of what still comes.
The invariant (`TalkInv`) reads the segments on the way back up to the first FIN as the
continuation of what the client has (`Says`), and says how far the relay has come with
that conversation by its phase and its socket (`Speaking`), or that it is mute: closed
or relaying without a socket, which is what a `stop()` between two steps of a callback
leaves. The refusal of a request that came in one run with the greeting is the one
answer of two words in a single segment (`Told`). What the invariant has to exclude is
a second answer to the same request, from `startConnect` after `stop()` has closed the
relay or from a connect that ends late; it is excluded because the word goes out at
most once while the stream's entry lives and because nothing counts behind a FIN, which
closes the client. It holds only while the client's side is live (`Live`); afterwards
the client is given nothing.

Only model-checked: the temporal properties (`Delivery`, `SelfHealing`,
`EveryLinkProbed`, `Answered`, `EndReachesOther`, `RouteHeals`: liveness is beyond
the prover) and the module `Framing` (the loop of `Parse` is a recursion over
data, out of the prover's reach).

## 5. Plan

1. `DataStream`, `OrderedPipe`, proofs of window, order and refinement; `LinkLiveness` (done).
2. `ChannelManager` (done).
3. `LinkSelector` and `RacingArbiter` (done).
4. `Inport`, `Outport` and their composition `Tunnel` (done).
5. `Transit` and its proofs (done).
6. `Machine` and its proofs (done).
7. `Framing` (done).
8. An Inport that restarts: ids start over while the Outport's dedup memory and
   sessions do not.
9. Several Inports at one Outport: links that lead elsewhere, one `peer_generation_`
   for all.
10. Memory exhaustion between the record of a dedup key and the copy of its payload.
11. Proofs of the pool, the link clock, the probe's index, the order of epochs, the
   dedup table (done).
12. Proofs of `TargetStream`, `NoHalfOpen` and `ClientStream` of the tunnel (done).
13. Proofs of `InOrder`, and of `NoLeak` and `CloseAfterData` for a fan-out over all
   links without losses (done).

## 6. Not modelled

Generated ZDS packing; mlfGetStatus and the session snapshots, which only read; the
Transit's heartbeat, which keeps no state; byte counters; the lifetime of objects
that two threads share through raw pointers (a use after free has no outcome to
model); the UTP transport (a stub in this tree); logging; name
resolution and the zce library itself, which appears only through how the code
uses it (a link in order, a recursive mutex, a timer that fires once or
repeatedly, callbacks on one reactor thread).
