# Verification of quic-p2p

TLA+ models of the parts of quic-p2p that carry its own logic, the TLC runs
that check them on small instances, and TLAPS proofs of what matters most for
every size. Paths below are relative to the repository root.

1. [The system](#the-system)
2. [Inventory](#inventory)
3. [Modules](#modules)
4. [The adapter: XquicIce](#the-adapter-xquicice)
5. [The context: IceContext](#the-context-icecontext)
6. [The signalling server: Signaling](#the-signalling-server-signaling)
7. [The exchange: IceSession](#the-exchange-icesession)
8. [The lines: SignalCodec](#the-lines-signalcodec)
9. [The media: MoqPublisher](#the-media-moqpublisher)
10. [Proofs](#proofs)
11. [What the runs found](#what-the-runs-found)
12. [What is not modelled](#what-is-not-modelled)
13. [Plan](#plan)
14. [Running it](#running-it)

## The system

Two programs, a *client* (QUIC client, MoQ subscriber) and a *peer* (QUIC
server, MoQ publisher), meet through a signalling server, punch a hole with
ICE (libjuice) and run QUIC (xquic) over the path they get.

```
   client/main.c                                        peer/main.c
   QUIC client, MoQ subscriber                          QUIC server, MoQ publisher
        |  on_ice_connected                                  |  on_ice_connected, post_main_logic
   common/run.c  -- select loop, juice callbacks        common/run.c
        |       \                                       /    |
        |        common/signal.c  <--- TCP lines --->  signal.c
        |                     \                  /           |
        |                     signaling server (Go)          |
        |                     room.go, transport.go, websocket.go
        |                                                    |
   common/xquic_ice.c  <=========== ICE path ===========>  xquic_ice.c
```

A process has two threads that matter. libjuice's thread calls the callbacks of
`run.c` (state, candidate, gathering done, packet received). The main thread
joins a room, then runs `p2p_run_peer`: a `select()` on the signalling socket
and the wakeup pipe, with the engine's timer as timeout. A packet crosses from
the first thread to the second through the packet list and the pipe of
`xquic_ice.c`. In the signalling server, every connection has a handler
goroutine and a writer goroutine, with a buffered channel between the handler of
one client and the writer of its partner; rooms are shared by all of them.

## Inventory

State, operations, interactions, what is hard, and what makes each part correct.
The same list, with its status, is in `PROJECT.json`; its `hazards` give the line
where each difficulty bites.

**ICE/QUIC adapter** (`src/common/xquic_ice.c`, `.h`).
State: packet list (head, tail, length, at most 256), mutex, wakeup pipe, engine,
`next_wakeup_us`. Operations: `ctx_init`, `set_wakeup_fds`, `ctx_cleanup`,
`on_recv`, `clear_wakeup`, `drain_and_feed`, `write_socket`. Called by two
threads. Hard: the list and the pipe are not updated together; the list is full;
the pipe is full. Correct when the list is consistent, packets are fed in order
and once, none is forgotten, and the main thread never sleeps on one.

**Run loop** (`src/common/run.c`).
State: `ice_ctx`, the line buffer, the descriptors `select()` reported.
Operations: the four juice callbacks, `process_signal_input`, the loop, the
teardown. Hard: three reasons to wake up that exclude each other in part; a
context published by one thread and used by the other; callbacks during
teardown. Correct when packets, timers and messages are all served, the context
is used only while it lives, and the offer/answer exchange completes.

**Signalling client and codec** (`src/common/signal.c`).
No state but the socket; `p2p_signal_send` is called by both threads. Operations:
connect, send (escape into a 16384-byte buffer), parse message, parse role. Hard:
escaping and unescaping, buffer limits, lines cut at `recv()` boundaries. Correct
when what is parsed is what was sent.

**Client** (`src/client/main.c`) and **peer** (`src/peer/main.c`).
State: role, MoQ session, subscription, tracks, frame pacing. Operations: join and
role loop, QUIC and MoQ callbacks, `peer_send_frames_if_due`. Hard: the
hand-over from the role loop to `p2p_run_peer`, later connections, pacing. Correct
when the session accepted last gets its frames, at their distance, a key frame
first, under the identifiers its client used last.

**Rooms** (`signaling/internal/room/room.go` in `src/sample_libjuice`).
State: map of rooms under `m.mu`; two slots and a time of last use per room under
`r.mu`; a channel per peer. Operations: `GetOrCreate`, `AddPeer`, `Add`,
`RemovePeer`, `Remove`, `Forward`, `Empty`, `ShouldExpire`, `DeleteRoom`,
`RunIdleCleanup`. Hard: `AddPeer` and `RemovePeer` hold the two locks one after
the other, deletion is by identifier, channels are closed while others may send.
Correct when no one sends on a closed channel, no slot is lost, and messages go to
the partner only.

**TCP and WebSocket transports** (`signaling/internal/transport`).
State: connection counter, per connection the handler's position, its writer, an
expiry timer (TCP), the channel `done` (WebSocket). Operations: accept or upgrade,
first line, join, role, relay, leave. Hard: every early return must undo what was
done; handler and writer end in an order that differs between the two transports.
Correct when the role comes first, relayed lines keep their order, the counters
are exact, and every handler of a client that hung up returns.

**Server process and configuration** (`signaling/cmd/server/main.go`,
`internal/config`). Starts both transports and the idle cleanup over one room
manager.

**Sample peers without QUIC** (`src/sample_libjuice/{client,peer,common}`): an
older copy of the same code. **libjuice, xquic**: submodules, not in the tree.
**Build, deployment, documents**: no logic of the program.

## Modules

| module | models | lines of code it stands for |
|---|---|---|
| `PacketChannel` | what the packet path promises: a bounded FIFO that gives up its oldest packet | comments of `xquic_ice.h` |
| `XquicIce` | adapter and select loop, two threads | `xquic_ice.c` 70-83, 140-225; `run.c` 78-85, 204-262 |
| `XquicIce_proofs` | theorems about `XquicIce` | |
| `IceContext` | life of `ice_ctx` across the two threads, from the first callback to `juice_destroy` | `run.c` 39-90, 147-273; `xquic_ice.c` 70-115; `client/main.c` 331-410; `peer/main.c` 464-499 |
| `IceContext_proofs` | theorems about `IceContext` | |
| `RoomManager` | rooms, slots, channels: one operator per critical section | `room.go` |
| `PeerHandler` (extends `RoomManager`) | the steps that TCP and WebSocket handlers share, and the writer goroutine | `transport.go`, `room.go` 158-173 |
| `TcpServer` (extends `PeerHandler`) | accept loop, first line, expiry timer | `transport.go` |
| `WsServer` (extends `PeerHandler`) | `ServeHTTP`: check, upgrade, wait for `done` | `websocket.go` |
| `Signaling` (extends `TcpServer`, `WsServer`) | the server: both transports and the idle cleanup over one room manager; the properties | `main.go` 44-92 |
| `RoomRelay` | what the server promises its clients: seats with roles, and a bounded FIFO queue per client | |
| `Signaling_proofs` | theorems about `Signaling` | |
| `IceSession` | the runs of the programs in one room: join, role, offer, answer, candidates, from two threads each | `client/main.c` 102-175, `peer/main.c` 90-141, `run.c` 64-76, 101-188, 236-241, 259-273; `signal.c` 60-96; `room.go` 58-94 |
| `IceSession_proofs` | theorems about `IceSession` | |
| `SignalCodec` | a line: escaping, framing, both parsers, the cuts of `recv()` | `signal.c` 60-160; `run.c` 101-137, 252-262; `client/main.c` 140-174, `peer/main.c` 122-177 |
| `SignalCodec_proofs` | theorems about `SignalCodec` | |
| `MoqPublisher` | QUIC connections, MoQ subscriptions and frames | `peer/main.c` 188-200, 243-300, 337-437; `client/main.c` 265-317; `run.c` 230-262 |
| `MoqPublisher_proofs` | theorems about `MoqPublisher` | |
| `MC_XquicIce`, `MC_IceContext`, `MC_Signaling`, `MC_IceSession`, `MC_SignalCodec`, `MC_MoqPublisher` | the instances TLC checks | |

How they fit together: `Signaling` shows what the relay does with lines (it
implements `RoomRelay`: in order, each once, to the partner, or dropped), and the
relay of `IceSession` is just that. `SignalCodec` shows that a line comes out of the
stream as it went in, or not at all, and the lines of `IceSession` are whole.
`IceSession` ends where both agents have what ICE needs, `IceContext` begins where
ICE reports that it is connected, `XquicIce` where the engine exists, and
`MoqPublisher` where QUIC has a connection; its `SendFrames` is the
`post_main_logic` of the loop in `XquicIce`.

One finding runs through all of them. Client and peer create the wakeup pipe in the
blocking mode, and then the main thread sleeps for ever in `xquic_ice_clear_wakeup`
(run `wakeup_blocks`). `XquicIce` and `IceContext` cover both modes of the pipe,
and say which property holds in which; in `IceSession` the sleep is the step
`Sleep`, in `MoqPublisher` it is one of the things `LoopStops` stands for, and their
liveness properties end where the main thread does.

A definition commented as *Mutant* is not part of any specification. It is the
definition that follows it with a plausible bug; putting it in that definition's
place makes the property named in `PROJECT.json` fail, which shows that the
property depends on that code.

## The adapter: XquicIce

The model starts when the context has its engine and ends when the loop breaks.
Setting the context up and tearing it down is `IceContext`.

| model | code |
|---|---|
| `queue.items`, `.tail`, `.len` | the packets reachable from `queue_head`, `queue_tail`, `queue_len` |
| `pipe` | unread bytes of the wakeup pipe |
| `jpc` | libjuice's thread between unlocking the mutex and `write()` |
| `mpc`, `ready`, `fed` | position in the loop, result of `select()` (`{}` is `nready == 0`), `n > 0` |
| `due` | the engine's timer (`next_wakeup_us`) expired and was not yet served |
| `sigs`, `eof` | signalling input in 256-byte chunks, end of the connection |
| `arrived`, `taken` | packets handed to `on_recv`; history of those taken off the list |

*Steps.* A critical section of `queue_mutex` is one step, because the list is
touched nowhere else. `OnRecvWake`, the `write()` after the unlock, is a step of
its own and waits while the pipe is full: the write end is blocking. Each
`read()` of `xquic_ice_clear_wakeup` is a step. Each round of the drain loop is
one, so packets may arrive between two rounds. `Link` follows the pointers: with a
stale tail the new packet is linked behind a packet that is not on the list, and
is lost.

*Environment.* A packet, a chunk of input, the end of the connection and the
expiry of a timer may come at any moment or never. `on_recv` may reject any packet
(length, no memory). `select()` may fail.

*NonBlockingRead.* The mode of the pipe is the caller's: `xquic_ice.h` takes two
descriptors. The constant covers both; the callers of this repository create the
pipe blocking (see *What the runs found*). The safety properties are proved for
both.

*Fairness.* `WF(MainThread)` and `WF(OnRecvWake)`: both threads are scheduled and a
`write()` with room completes. Nothing is assumed of packets, input or timers. The
weak fairness of `MainThread` is on its disjunction: the thread does *something*;
which branch it takes follows from its state.

### Run `xquic_ice`

| property | what it says | what breaks it |
|---|---|---|
| `TypeOK` | types; the pipe never exceeds its capacity | `queue_len` decremented twice |
| `QueueConsistent` | length, tail and list agree, at most `queue_max`; without a mutex the list stays empty | `queue_tail` not reset |
| `InOrder` | the engine sees packets in order of arrival, none twice | linking at the head |
| `NoLostWakeup` | the main thread never goes to `select()` or `recv()` with a packet waiting and no byte written or about to be | a drain that stops early |
| `IsPacketChannel` | the adapter implements `PacketChannel` | emptying a full list |
| `PacketServed` | every packet on the list leaves it, even if signalling input never ends | serving the socket instead of the pipe |
| `TimerServed` | an expired timer is served once signalling input and packets go quiet | no main logic after a timeout |
| `WriteReturns` | libjuice's thread comes back from its `write()` to the pipe, however full it was, or the loop stops | serving the socket instead of the pipe |

`TimerServed` needs the quiet: a loop that is woken by the signalling socket only
runs no engine logic (`run.c` 236-244), and packets that the engine cannot process
do not count for the main logic after a drain (`xquic_ice.c` 217-223), so either kind
of input, at a high enough rate, starves the engine's timers. In the model packets
run out (`MaxPackets`) and signalling input need not; the property asks both to go
quiet, as it would have to without the bound.

The run has a read end that does not block. In the mode in which the callers create
the pipe, `PacketServed` fails (run `wakeup_blocks`).

*Bounds.* List of 2 (the code's 256), pipe of 2 bytes (65536), reads of 2 bytes
(64), 4 packets, 1 chunk of input at a time. The list fills up and displaces twice,
the pipe fills up and blocks the writer, a read empties part or all of it. Larger
values of any of them repeat the same cases, and the safety properties are proved
for every value. 42 396 states. Deadlock is not checked: the loop may stop.

## The context: IceContext

`ice_ctx` is allocated by libjuice's thread when ICE connects, while the loop of
the main thread may already look at it, and freed by the main thread when the loop
ends. No lock is involved. The list is a number of packets and the pipe is empty or
not; `XquicIce` has the detail.

| model | code |
|---|---|
| `ctx` | `run_user.ice_ctx`: NULL, allocated, freed (the pointer keeps its value) |
| `rfd` | `wakeup_read_fd`: `"stdin"` is the 0 that `calloc` leaves, `"none"` is -1; a pipe goes by its mode, `"blocking"` or `"nonblocking"` |
| `engine`, `mutex` | `ctx->engine`, `ctx->queue_mutex` are not NULL |
| `jpc` | where libjuice's thread is in `on_state_changed` or `on_recv` |
| `engines` | engines created and not destroyed |
| `mpc`, `watched`, `ready` | the main thread, `read_fds` before and after `select()` |

*Steps.* Every assignment that the other thread can tell apart is a step:
`AllocContext`, `InitContext`, `OpenPipe`, `CreateEngine` (a local variable knows the
engine), `PublishEngine`; each call that can fail has its failing action. The main
thread reads the context twice per iteration, when it builds `read_fds` and again
after `select()`, and the context may have changed in between. Assignments become
visible in program order: the code has no barrier, and the assignments that matter
are separated by calls to functions in other files and in libraries. The peer
assigns `post_main_logic` after the engine is visible (`peer/main.c` 508-509); the
main thread checks the pointer for NULL, and the model leaves it out.
`xquic_ice_clear_wakeup` is two actions: `ClearByte`, a `read()` that returns
something, and `ClearReturns`, the one that finds nothing, which comes back only if
the pipe does not block. `PipeModes` are the modes the caller may choose from; client
and peer choose `"blocking"`.
`juice_destroy` waits for the callback in progress. What a thread does with a freed
context is a choice: it carries on, or the process ends.

*Fairness.* `WF(MainThread)` and `WF(Callback)`: both threads are scheduled and a
callback that has begun goes on. ICE, packets and the server owe nothing.

### Run `ice_context`

| property | what it says | what breaks it |
|---|---|---|
| `TypeOK` | types and the bound of the list | enqueueing into a full list |
| `ServesCompleteContext` | the main thread clears only the pipe's descriptor and drains only with an engine | serving any context that is not NULL |
| `EngineOneThread` | the two threads are never in the engine together | assigning `ctx->engine` right after creating it |
| `OneEngine` | at most one engine; a published one exists | `on_ice_connected` at every report |
| `PacketReachesDrain` | a packet on the list brings the main thread to drain it, even if signalling input never ends, or to the `read()` of a blocking pipe | building `read_fds` once |

`PacketReachesDrain` names two exceptions. On a blocking pipe the main thread sleeps
in `xquic_ice_clear_wakeup` with the packet on the list; this is what happens in
client and peer. On the other kind, packets that arrive as fast as the loop
reads would keep it reading.

*Bounds.* Two reports (CONNECTED and COMPLETED, all that a connection gives), two
packets at once, and both modes of the pipe. The client, whose `on_ice_connected` has
every failure that the peer's has and one more. 17 050 states. Deadlock is not
checked: the program ends.

## The signalling server: Signaling

| model | code |
|---|---|
| `rooms` | `Manager.rooms`, identifier to room object |
| `slots` | `Room.Peers`; a room object is named by the connection whose handler created it |
| `ch`, `closed` | contents of each `Peer.Ch`; channels that were closed |
| `pc`, `roomOf`, `room`, `found` | the handler's position, `roomID`, the object `AddPeer` returned, the object `RemovePeer` found |
| `writer` | the writer goroutine |
| `timer` | `time.AfterFunc` of a TCP handler: armed; `ShouldExpire` was true and `DeleteRoom` follows |
| `wsDone` | the handlers whose `done` was closed |
| `connCount` | the counter of each server (each counts its own connections) |
| `gone` | connections on which the server saw a read or write fail |
| `sent`, `wire` | lines relayed, history of what was written to each client |

*Steps.* One per section under a lock, so `AddPeer` is `JoinLookup` (under `m.mu`)
and `JoinAdd` or `JoinFull` (under `r.mu`), and `RemovePeer` is `LeaveLookup` and
`LeaveRemove`; anything may happen in between. The timer's check and its deletion
are two steps as well. The WebSocket limit check and the increment are two
(`WsCheck`, `WsUpgrade`); those of the TCP server are one, because its accept loop
is the only goroutine that adds, so that what it checked still holds. The idle
cleanup works on one room at a time; the code holds `m.mu` over the whole pass,
which the model's interleavings include.

*Assumptions.* `connID` is the remote address; two open connections do not share
one. Every connection is used once. Time is abstract: with a timeout
`ShouldExpire` of an empty room may answer either way, without one (`NoTimeout`)
it answers TRUE, as the code does. Roles are the numbers 1 and 2. A line is
`[from, n]`. Histories are forgotten when the connection is closed, to keep the
state space small.

*Fairness.* Handler, writer and timer of each connection are scheduled weakly
fairly (`TcpFairness`, `WsFairness`): goroutines run and timers fire. Clients owe
nothing: to connect, to send and to hang up are in `TcpClient` and `WsClient`,
without fairness.

### Runs `signaling` and `signaling_limit`

| run | property | what it says |
|---|---|---|
| `signaling` | `TypeOK` | types; no channel above its capacity |
| | `SlotsHaveOpenChannels` | whoever sits in a slot has an open channel and one slot, and a handler keeps its slot until its own `RemovePeer`: no send on a closed channel, no second `close`, no nil `r.Peers[slot]`, each of which would panic the server |
| | `NoGhostPeer` | a room in the map never seats a peer whose handler has left |
| | `RoleFirst` | a client reads its role first, once, and it is the role of its slot |
| | `RelayedInOrder` | lines come from clients of the same room identifier, never from oneself, in order, each once |
| | `CountsExact` | the counters count exactly the handlers at work, whichever early return they take |
| | `IsRoomRelay` | the server implements `RoomRelay` |
| `signaling_limit` | `TcpLimitKept` | no more TCP connections at once than the limit |
| | `TcpHandlerReturns` | the handler of a TCP client that hung up returns |

`NoGhostPeer` is the one that is not obvious. `RemovePeer` looks the room up again
by its identifier, while timers and the cleanup may have removed the room and
another client may have created a new one; then it removes nothing, and the peer
stays in its slot for ever. It holds because a room that left the map never comes
back to it: the peer that was missed sits in a room nobody can find. The model has
no action that hides this: `LeaveRemove` does nothing when nothing was found.

`RelayedInOrder` speaks of what was written to each client. `IsRoomRelay` says more:
`RoomRelay` has no transports, goroutines, locks, room map, timers or channels that
can be closed, and every step of the server is one of its steps or one that no client
can notice. `Status` maps a handler's position to "not yet in", "in" or "out";
`slots`, `ch`, `sent` and `wire` are the seats, the queues, the counts and the logs.
What the abstract relay rules out, and the interleavings of the code might have led
to: a line that reaches someone outside the room or the sender itself, one that
displaces a line waiting, one that is dropped although the partner has a seat and
room in its queue, anything read before the role, and a role that is not the seat's.
What it allows is what the code does: `Leave` may leave the seat taken, because the
`RemovePeer` of a handler may find another object under the identifier, or none
(the map does not have such a room any more, `NoGhostPeer`); lines that wait for a client whose
connection is broken are lost.

*Bounds.* `signaling`: 2 TCP and 1 WebSocket connections, 2 identifiers, channels
of one message, at most 2 lines from the WebSocket client and 1 from the others.
Three connections are what it takes to have a full room, or a room that is
deleted and created again while two handlers hold the old one; two identifiers
separate the rooms; a channel of one message is full at once, so that messages
are dropped. TCP connections are interchangeable, and so are the identifiers
(symmetry, in a run without liveness). 2.2 million states. `signaling_limit`: the same connections, a limit
of 1 per server and one identifier, for the limit and for liveness. 99 000
states. Deadlock is not checked: all connections may be done.

## The exchange: IceSession

A *run* is one execution of the client or the peer; whoever is started again is a
new run. `main()` is the same in both programs, and which of them offers is decided
by the slot the server gives them.

| model | code |
|---|---|
| `pc` | the main thread: not started, waiting for the role, in `p2p_run_peer`, in its loop, between taking an offer and sending the answer, asleep in `xquic_ice_clear_wakeup`, ended |
| `role`, `slots` | `cfg.role`; `Room.Peers` |
| `net` | lines in the partner's channel and on the socket, not yet read |
| `juice`, `todo` | libjuice's thread: about to report a candidate, inside `p2p_signal_send`; candidates left |
| `remote` | whose description `juice_set_remote_description` was given last |
| `got`, `lost` | histories: lines handled, lines that nobody handles |

A line is `[kind, from, for]`. `for` is the run whose description the sender was given
last; the text does not hold it, and no action reads it. It is there so that the
properties can tell the answer to one offer from the answer to another.

*Steps.* `OnOffer` takes the offer and `SendAnswer` answers and starts gathering;
libjuice's thread, once it gathers, may be anywhere in between. `Send` includes what
the relay does with the line, because no one looks at the result. A send by
libjuice's thread begins and ends in two steps, so that a run in which both threads
are inside `p2p_signal_send` is a state (`UnlockedSendsApart`). `RecvRole` loses as
many of the lines behind the role as came in the same `recv()`: `main()` leaves
them in its `buf`.

*Environment.* Anybody may be started, fail to join, and end at any moment, without
a word to the partner; the server empties the slot some time later. Candidates are
reported by libjuice's thread; that libjuice reports some of them before
`juice_gather_candidates` returns is one of the interleavings.

*Sleep.* With trickled candidates ICE may connect before the end of gathering, or any
later line, has been handled. Then there is an engine to serve, and with the blocking
pipe of client and peer the main thread goes into `xquic_ice_clear_wakeup` and does
not come back: no signalling line is read any more, while libjuice's thread goes on
sending. `Sleep` is that step. It is possible from the moment when both agents gather
and one of them was told of a candidate of the other (`CanConnect`).

*Fairness.* Both threads of every run, the main thread as long as it is awake.
Nobody has to join, to stay or to fall asleep, and slots need not be emptied. The
sample's loop is the one that never sleeps; a run of the model that never takes
`Sleep` is one of it, or of a caller whose pipe does not block.

### Run `ice_session`

| property | what it says | what breaks it |
|---|---|---|
| `TypeOK` | types; the relay never holds more than it can | a relay without a limit |
| `UnlockedSendsApart` | without the mutex that `p2p_signal_ctx_t` has room for, the two threads of a run send at once only after a second offer | gathering before the answer is sent |
| `CandidatesAfterDescription` | in an undisturbed call a candidate or end of gathering is handled after the description it belongs to | a relay that reorders |
| `AnswerIsForMe` | an answer that is taken answers an offer its sender handled, one's own unless that of an offerer that has ended and whose place one took | answering before the offer |
| `OfferAnswered` | an offer that reaches an answerer's loop gets its own answer, a second one too, whatever became of the first, unless one of the two ends or sleeps or this very answer is dropped | answering only the first |
| `SessionCompletes` | an ordinary call is set up: offer and answer are handled, and each side handles the other's end of gathering or has fallen asleep, connected | losing the line behind the role unnoticed |

An ordinary (`Undisturbed`) call is one in which no line is lost and no third run
has been started. The conditions are what the code needs, and each is needed: a
dropped offer is not sent again, a run that is replaced leaves its lines to its
successor, and one that ends tells no one.

*Bounds.* 3 runs: a call, and somebody who takes the place of either. A relay of 2
lines with 3 lines to send (offer or answer, one candidate, end of gathering), so
that lines are dropped. 307 386 states. The safety properties are proved for all
bounds. Deadlock is not checked: all runs may have ended.

## The lines: SignalCodec

Text is a sequence of symbols; a symbol is a mark (`quote`, `backslash`, `newline`,
`return`), a letter, or a whole word, so that the parsers' `strstr` for a quoted
key is a search for three symbols. The stream holds the server's role line and then
what the partner sends; `recv()` takes any of the `Cuts` off its front.

| model | code |
|---|---|
| `EscapeSymbol`, `Escape`, `Encode` | one turn of the loop of `p2p_signal_send`, the loop, the frame around it |
| `RoleLine` | `json.Marshal` of the role, whose keys come out sorted |
| `Find`, `ValueAt`, `UpToQuote` | the searches of the parsers |
| `CopySymbol`, `Unescape` | one turn of the loop that copies a text, and the loop |
| `TakeBeforeRole` | the role loop of `main()`, each symbol |
| `Take` | `process_signal_input`, each symbol |
| `TakeSymbol`, `TakeChunk` | a symbol and a chunk: what follows the role in the chunk goes nowhere |

`phase` is where the receiver is, `line` its line buffer; `sent`, `handled` and
`discarded` are histories. The loops are recursive functions of the number of turns,
so that the prover can reason about them.

### Run `signal_codec`

| property | what it says | what breaks it |
|---|---|---|
| `TypeOK` | the line and the text stay inside their buffers | one symbol more in `CopySymbol` |
| `LinesSurviveChunks` | the messages understood are the ones sent, whole, in order and without a gap, from some message on; a line whose beginning was discarded is not taken for another message | quotation marks that are not escaped |
| `NothingLostAfterRole` | only what shares a chunk with the role is lost | a line buffer that starts empty with each `recv()` |
| `RoleRead` | the role is found, and is the one that was sent | searching for the last place of a key |

A text with a backslash comes out altered (*What the runs found*), and a room named
`type` hides the role; both exceptions are stated in the properties.

*Bounds.* Two messages out of 18: no text, every text of one special symbol, the
pairs that an escape could be confused with, and texts that hold a key or end like
one, up to the length that fits the text buffer. Cuts of 1, 4 and 26 symbols: one
at a time, inside an escape and inside a key, and the whole role line, which mixed
cuts reach past.
`BufSize` 40 and `SdpMax` 4 keep the proportions of 16384 and 4096: a line never
outgrows its buffer, as the code's do not; `SignalCodecAssumption` and
`RoleLineAssumption` say so. 231 295 states. The properties are proved for texts of
every content and length that the buffers hold, any number of messages and all cuts. Deadlock is not checked: everything may have been sent and read.

## The media: MoqPublisher

| model | code |
|---|---|
| `app` | `ice_ctx->app_ctx`, the only session that gets frames |
| `peer`, `client` | the two ends of each connection |
| `track`, `sub` | `video_track`, `audio_track` that are not NULL; `video_subscribe_id`, `audio_subscribe_id` |
| `seq` | `video_seq`, modulo the key frame interval |
| `wait` | `next_frame_us` as seen from now, 0 once it has passed |
| `asks`, `newest` | SUBSCRIBE messages under way; identifiers the client used last |
| `running` | the loop of the peer's main thread goes round |
| `latest`, `gap`, `hurried` | histories: the connection accepted last, time since a frame was written, whether a subscription brought the next one forward |
| `deltas`, `keysLost` | histories: delta frames written since the last key frame was, key frames in a row that could not be written |
| `sent` | history: whether the last frame of each track was written or its write failed |

*Steps.* xquic calls back from `xqc_engine_packet_process` and the main logic, on the
main thread; each callback is one step, and `peer_send_frames_if_due` another. The
calls that may fail (session, track, subscription) have both outcomes, and so has each
write of a frame: `FramesStep` chooses the tracks whose frames are written. A frame
that cannot be written uses up its number, as in the code, and nobody looks at the
result.

*Environment.* QUIC delivers the SUBSCRIBE messages of a connection in order or ends
the connection; either end may learn of the end first. `Tick` is time, in units of
which `Interval` make 33 ms; the loop may be late by any number of them.

*Fairness.* Time passes, and while the loop runs it calls `post_main_logic` again and
again: after every `select()`, which waits until the engine's timer expires or, if
there is none, a second. That the loop goes on is not assumed: `LoopStops` is its end,
or the sleep in `xquic_ice_clear_wakeup` on the blocking pipe that the peer creates
(run `wakeup_blocks`), which may come at any time; after it the peer takes no step.

### Run `moq_publisher`

| property | what it says | what breaks it |
|---|---|---|
| `TypeOK` | types; the time left never wraps around (the code compares before it subtracts) | subtracting first |
| `FramesGoToLatest` | `app_ctx` is never a freed session, and is the connection accepted last for as long as it is there | closing without clearing `app_ctx` |
| `KeyFrameWithin` | of the video frames written, fewer than an interval of deltas come before the first key frame and between two, and an interval more for each key frame in a row that could not be written | raising the number before it decides the type |
| `SubscriptionsAgree` | when the messages have arrived, the peer uses the identifiers of the client's newest subscriptions | keeping the first |
| `Paced` | frames are an interval apart, except that a subscription may bring one forward | not looking at the time |
| `SubscriberServed` | a subscription is followed by a frame of its track, or one that could not be written, unless frames now go elsewhere or the loop has stopped | sending audio only along with video |

*Bounds.* Two connections, of which the later takes the frames from the earlier; two
catalogs, so that a client subscribes twice or two clients do; a key frame every 2
frames (30), an interval of 2 ticks; any number of failed writes, of which one key
frame in a row (`MaxKeysLost`). 857 590 states. The safety properties are proved for
all bounds. Deadlock is not checked: all connections may have closed.

## Proofs

`XquicIce_proofs` proves, for every queue length, pipe size, read size, number of
packets and mode of the pipe, from `XquicIceAssumption` alone (the sizes are
positive):

| theorem | statement | argument |
|---|---|---|
| `ListIsConsistent` | `Spec => [](TypeOK /\ QueueConsistent)` | `ListOK`, their conjunction, is inductive |
| `WakeupNeverLost` | `Spec => []NoLostWakeup` | `NoLostWakeup` is inductive relative to `ListOK` |
| `PacketsInOrder` | `Spec => []InOrder` | `Ordered`: `taken \o queue.items` increases and stays below `arrived` |
| `AdapterIsPacketChannel` | `Spec => IsPacketChannel` | every step maps to a step of `PacketChannel` or to a stutter, given `ListOK` |

`IceContext_proofs` proves from `IceContext` alone, for client and peer, both modes
of the pipe and every bound:

| theorem | statement |
|---|---|
| `ServesComplete` | `Spec => []ServesCompleteContext` |
| `EngineNotShared` | `Spec => []EngineOneThread` |
| `EngineIsUnique` | `Spec => []OneEngine` |

All three follow from one inductive invariant, `PublishedLast`: before
`PublishEngine` the context has no published engine, and from then on it has its
pipe and exactly one engine. None of the three is inductive alone: the main thread's
step into the engine is safe only because of where libjuice's thread can be.

In the adapter, `TypeOK` and `QueueConsistent` need each other: `queue_len` stays a natural number
only because it counts the list, and `Unlink` and `Link` keep the tail right only
on a list whose tail is right. `UnlinkWellFormed`, `LinkWellFormed` and
`EnqueueWellFormed` say so of the operators; the step lemma `ListOKStep` cites
them. `NoLostWakeup` is inductive because of three steps: the drain ends only on
an empty list (`DrainDone`), `select()` goes on to `clear` whenever the pipe is
not empty, and `OnRecvEnqueue` leaves the thread at `wake`. `InOrder` alone is not
inductive (a new packet might have a number that is already there), hence the
bound by `arrived`; `IncreasingDrop` is the step in which a packet disappears from
the middle of the combined sequence, when the oldest is displaced.

`XquicIce_proofs` and `IceContext_proofs` also have `TypesKept`, `Spec => []TypeOK`.

`Signaling_proofs` proves, for any number of connections of both kinds, rooms,
channel sizes, limits and timeouts, from the named assumptions of the five modules
(finitely many connections, each of one kind; channels of at least one message):

| theorem | statement | argument |
|---|---|---|
| `TypesKept`, `SlotsStayOpen`, `NoGhosts` | `TypeOK`, `SlotsHaveOpenChannels`, `NoGhostPeer` | the inductive `SeatInv` |
| `RoleComesFirst` | `RoleFirst` | `RoleInv`, given `SeatInv` |
| `LinesStayInOrder` | `RelayedInOrder` | `OrderInv`, given `SeatInv` |
| `ServerIsRoomRelay` | `IsRoomRelay` | every step maps to a step of `RoomRelay` or to a stutter, given `SeatInv` and `RoleInv` |
| `CountersAreExact`, `TcpLimitHolds` | `CountsExact`, `TcpLimitKept` | `CountInv`, with the library's facts about cardinality |

None of the three that rest on `SeatInv` is inductive. `SeatInv` says where every
connection sits: in at most one slot (`SeatedOnce`), in the room its handler was
given for as long as the handler is at work (`JoinedSits`), in a room created under
the identifier it asked for (`SameIdentifier`, `UnderItsIdentifier`), with a channel
that nobody has closed. The part that makes `NoGhosts` go through is
`MissedForGood`: a room object that is not in the map has left it for good, because
`GetOrCreate` enters new objects only, so that the handler whose second look-up
finds another room or none leaves behind a room that nobody can find. `RoleInv`
relates the writer goroutine to the handler: it is started only after the role was
written.

`OrderInv` speaks of the *log* of a client, what was written to it followed by what
waits in its channel, because a step of the writer goroutine only moves a line from
one to the other: lines of one sender increase in the log and stay below what the
sender has sent. All steps but `Relay` keep it because they only take lines away
(`Quiet`, `Thins`); `Relay` appends one line to one log, of a client of the same
identifier (`PartnerSharesIdentifier`, where `SeatInv` comes in). The refinement has
one lemma per action of `RoomRelay` and one for the steps that it does not see.
`SeatInv` is what makes `ServiceSpeaks` go through: the room object a handler holds is
the one it sits in; without it a handler could write to a room it has lost.

`CountInv` needs the handlers' positions to be distinguished into those
that are counted and those that are not; the lemmas `Enters`, `Exits` and `Stays`
are the three things a step can do to that set.

`IceSession_proofs` proves, for any number of runs and candidates and any capacity,
from `IceSessionAssumption`:

| theorem | statement | argument |
|---|---|---|
| `TypesKept` | `TypeOK` | inductive |
| `SendsAreApart` | `UnlockedSendsApart` | `LineInv`, `OnceInv` |
| `AnswersFollowOffers` | `AnswerIsForMe` | `LineInv`, `AnswerInv`, `SeatInv` (`PartnerAnswered`) |
| `DescriptionsComeFirst` | `CandidatesAfterDescription` | `CallInv` |

The proofs speak of the *log* of a run, `got \o net`: what it handled and what is
under way. Handling a line leaves the log as it is and sending one appends to one
log, so an invariant of logs has two cases instead of ten (`Effects`). `SessionInv`
is the conjunction of: `SeatInv`, a live run sits in the slot of its role and nobody
writes to a run that has not started; `LineInv`, offers go from offerers to
answerers, and an answer names the offer that its sender handled, which is the
receiver's own or that of an offerer that has ended (an offerer keeps its slot as
long as it is there, which is `PartnerAnswered`); `OnceInv`, no log holds two offers
of one sender; `AnswerInv`, who is about to answer has handled the offer it answers,
and if it gathers already, that of another run as well; `CallInv`, in an undisturbed call whoever has
sent a description is in the log of the other with it, in front of its candidates.
`CandidatesAfterDescription` alone is about handled lines only and could not be
inductive.

`MoqPublisher_proofs` proves, for any number of connections and catalogs and every
interval, from `MoqPublisherAssumption`:

| theorem | statement | argument |
|---|---|---|
| `TypesKept` | `TypeOK` | inductive |
| `AppIsLatest` | `FramesGoToLatest` | inductive, with `TypeOK` |
| `KeyFramesComeRound` | `KeyFrameWithin` | `KeyInv`: `seq` and `keysLost` bound `deltas` |
| `FramesArePaced` | `Paced` | `PaceInv`: `gap + wait >= Interval`, or a subscription came |
| `SubscriptionsMeet` | `SubscriptionsAgree` | `AgreeInv`: applying what is under way to `sub` gives `newest` |

`SignalCodec_proofs` proves, for any alphabet, messages, room, buffer sizes and cuts
that `SymbolsAssumption`, `SignalCodecAssumption` and `RoleLineAssumption` admit:

| theorem | statement |
|---|---|
| `TypeCorrect` | `Spec => []TypeOK` |
| `LinesSurvive` | `Spec => []LinesSurviveChunks` |
| `NothingLost` | `Spec => []NothingLostAfterRole` |
| `RoleFound` | `Spec => []RoleRead` |

There are two arguments in it, and the proof keeps them apart.

*A line.* What a loop computes is proved turn by turn: `SetInduction`, which follows
from the library's `WFMin`, gives induction over a *set* of numbers without a theorem
that takes an operator; `LoopExists` and `LoopIs` derive from it that a recursive
function exists and is what its turns say. `EscapePrefix` says what the escaped text
is after each symbol, `Undone` that unescaping a written text gives `Plain` of it:
after k symbols of the text the parser stands behind what they were escaped to, an
escape is never read in half, and the quotation mark that ends the text is the first
one that is not escaped. `BodyTells` concludes what the parser makes of a whole line:
the keys that the sender wrote stand before any that the text holds, and nothing in
front of the text looks like `"sdp"` (`FindIs`, `HeadHasNoSdp`). The end of a line
whose beginning was discarded may still hold a quoted `type`, if the text ends with
that word; behind it then stands the brace and no value, and `TailIsNotParsed` shows
that this is the only place (`CleanBefore`: within a text a quotation mark has a
backslash in front of it).

*The stream.* `IInv` says that `wire` is the end of the role line and of the lines of
the messages sent (`Frame`, which gives the offset of each), and that the receiver
`Knows` what came before: the messages understood so far, and the part of the current
line that has arrived, or that it is one whose beginning is lost. `ChunkAdvances` is
one symbol of a chunk, `FrameGrows` a message sent, `FrameMoves` what `recv()` takes
off the front. The four properties are conclusions of `IInv`; none is inductive,
because none speaks of a line that has arrived in part.

Every safety property that a passing run checks is a theorem. Only model-checked are
the liveness properties, under fairness, which are beyond the prover: `PacketServed`,
`TimerServed`, `WriteReturns`, `PacketReachesDrain`, `TcpHandlerReturns`, `OfferAnswered`,
`SessionCompletes` and `SubscriberServed`.

## What the runs found

Five runs are expected to fail; each shows that the code does not do what the
repository says of it.

* `wakeup_blocks`: `xquic_ice_clear_wakeup` reads until `read()` returns nothing,
  on a pipe that `client/main.c:339` and `peer/main.c:457` leave in blocking mode.
  The main thread sleeps in the `read()` after the last byte and the packet that
  woke it is never fed. `xquic_ice.h:93` speaks of one byte. With a non-blocking
  read end everything holds (run `xquic_ice`).
* `after_free`: `p2p_run_peer` frees the context (`run.c` 265-268) before
  `juice_destroy` ends the thread that uses it.
* `ws_never_returns`: `ServeHTTP` waits for `done` (`websocket.go:103`), its writer
  for the channel to be closed, and the channel is closed by the `RemovePeer` that
  is deferred to the return of `ServeHTTP`. The slot and the count stay taken.
* `two_answerers`: a room that is still empty is deleted between the two halves of
  `AddPeer`; the next client of the same identifier gets a room of its own and the
  same role `peer2`.
* `expires_at_once`: `idle_timeout: 0` is documented as "no auto-expire"
  (`config.yaml.example:10`); `ShouldExpire` answers true.

Also seen in the model, and not stated as properties: the WebSocket server can
exceed its limit (check and increment are apart), and `max_peers_per_room` has no
effect (a room has two slots).

Of the exchange and its lines, as the models show them:

* Lines in the `recv()` buffer in which the role arrives are discarded; the offer may
  be among them, and it is not sent again.
* A peer that is started again while its client stays gets no offer, and the client
  does not learn that its partner left.
* A client that is started again while the peer stays may be given the answer to its
  predecessor's offer, and sets that description first; the answer to its own offer
  follows (`AnswerIsForMe`, `OfferAnswered`).
* Once ICE has connected, a client or a peer reads no more signalling lines, because of
  the blocking pipe: a client that is started again gets no answer from a peer that
  sleeps (`Sleep`).
* A second offer finds libjuice's thread gathering: answer and candidate may then be
  sent at once, and `ctx.mutex` is NULL in both programs. Lines stay whole only
  because each is one `send()`.
* The sender escapes a backslash, the parser does not undo it. The code sends SDP and
  candidates, which have none.
* In a room named `type` the parser takes the name for the key, and no role is found.

Of the media: after a second connection was accepted and has closed, the first gets
no frames any more, although it is still there; a subscription that is made again
usually begins with a delta frame, because the frame number goes on and requests for
key frames are ignored (`on_request_keyframe`).

## What is not modelled

* Reading the configuration, health endpoints and shutdown of the server:
  straight-line code without interaction.
* `xquic_ice_write_socket` and its callers in client and peer: stateless wrappers of
  `juice_send`. The callbacks that only print or do nothing, and those of TLS.
* Options and their defaults; only that they may prevent a run is (`JoinFails`).
* Allocation failures other than those that drop a packet, leave the mutex NULL or
  refuse a connection.
* The Windows branches.
* A partial `send()`: `p2p_signal_send` reports it and nobody looks; sockets here are
  blocking, and a blocking `send()` returns early only on an error.
* libjuice, xquic, the operating system: submodules and services that are not in the
  tree; environment, as the code uses them. Scripts and documents: no logic of the
  program.

## Plan

Done, in this order: `PacketChannel`, `XquicIce`, its proofs; `RoomManager`,
`PeerHandler`, `TcpServer`, `WsServer`, `Signaling`; `IceContext`, its proofs;
`IceSession`, `SignalCodec`, `MoqPublisher`; the proofs of `Signaling`,
`MoqPublisher` and `IceSession`; `RoomRelay` and the proof that the server implements
it; the proofs of `SignalCodec`.

Next: `SignalCodec` as an implementation of a stream of messages that loses a first
part, and `IceContext` of the order in which the two threads may use the context,
each with the step-by-step proof; action properties of `IceSession` and
`MoqPublisher` that follow from the invariants proved.

Worth having, and not planned: `IceSession` as a composition with `Signaling` instead of with what `Signaling` promises, whose state
space is the product of the two (2.2 million by 0.3 million states).

## Running it

```
tlc -workers 2 -config xquic_ice.cfg MC_XquicIce.tla
tlc -workers 2 -config ice_context.cfg MC_IceContext.tla
tlc -workers 2 -config signaling.cfg MC_Signaling.tla
tlc -workers 2 -config signaling_limit.cfg MC_Signaling.tla
tlc -workers 2 -config ice_session.cfg MC_IceSession.tla
tlc -workers 2 -config signal_codec.cfg MC_SignalCodec.tla
tlc -workers 2 -config moq_publisher.cfg MC_MoqPublisher.tla
tlapm XquicIce_proofs.tla
tlapm IceContext_proofs.tla
tlapm Signaling_proofs.tla
tlapm IceSession_proofs.tla
tlapm MoqPublisher_proofs.tla
tlapm SignalCodec_proofs.tla
```

The configurations whose names start with `v_` are the ones expected to fail.
