# A verification development of fuso

fuso maps a port of a private machine onto a public server. A *client* (on the
private side) keeps one control connection to a *server*. For each *visitor* of
the public port the server sends the client a request on the control connection;
the client connects to the destination and back to the server, and the server
splices the visitor with that new connection.

This directory holds TLA+ modules translated from the Rust source, TLC
configurations that check them, and proofs checked by TLAPS.

## The system

| component (source) | state | operations | hard behaviour | what makes it correct |
|---|---|---|---|---|
| server half of a session (`net/penetrate/server.rs`, `accepter.rs`) | `MQueue` (id counter, id -> sender), one future per visitor and per data connection, reader and heartbeat | accept, select, push, notify, wait, serve an answer, refuse, time out, fail | ids reused under late answers, timeouts that drop futures, a loop without exit in `push` | a visitor gets only its own connection or refusal, and always gets an outcome |
| client half of a session (`net/penetrate/client.rs`) | one future per request, the control connection | receive Map, two joined connects, decorate, send Map, send MapError | partial failure, timers that race answers, a request received twice | every request is answered, or its timer has run |
| reconnect loop (`client/mod.rs`) | retries, current connection | connect, handshake, set-up, serve, start over | failures at every step | a client gets its session back |
| connection tasks (`server/mod.rs`) | one task per connection | accept, handshake, set-up, serve | a dead client's task holds the ports | ports are given back |
| key exchange (`net/penetrate/handshake`) | keys, iv | three messages | no timer | both ends agree on where they are |
| selection of a visitor (`selector.rs`, `mock/`, `core/guard/fallback.rs`) | bytes read ahead | mark, read, backward | several readers of one stream | the destination gets the visitor's bytes unchanged |
| packets (`core/protocol`, `async/ext.rs`) | a packet's offset | send, receive | cloned writers, short writes, dropped futures | packets arrive whole and in order, and what was reported sent was sent |
| forwarding (`async/io.rs`) | one mutex per stream, two copy loops | split, forward, copy | the first direction that ends drops the other | an end of file comes after everything that was written |
| bridge (`net/penetrate/bridge`) | a listener, a control connection, data connections | relay set-up, relay data | a `Select` that drops what has not returned, nested timers, errors of accept | success stands for two bound listeners; everything ends together |
| KCP conversation (`net/kcp/third_party`, `stream.rs`, `KcpUpdate`) | windows, queues, close state, wakers | send, receive, acknowledge, probe, repeat, close | loss, repetition, reordering, wrap-around, a close handshake that may be lost | an ordered stream, closed on both sides |
| KCP sessions (`net/kcp/mod.rs`) | a connector's map and a listener's map of conversation numbers, a counter | connect, accept, receive, close, clean up, forget | numbers chosen and inserted under two locks, numbers used again | a datagram and a close reach the session they are for |
| UDP associations (`mock/socks.rs`, `net/socks`) | where the two loops are, a data connection between them | take a datagram, ask, answer, hang up | no timer on an answer, two writes per request | a visitor gets its own answers; both loops end with it |
| UDP streams (`net/udp`) | map of addresses to virtual sockets, their buffers | send, receive, drop | a removal spawned by a drop races a new socket | an answer reaches the live socket |
| SOCKS5 handshake (`net/socks`, `auth.rs`) | handshake state | methods, authentication, request | malformed lengths, pieces of messages | what RFC 1928 / 1929 say |
| AES / RSA / LZ4 streams (`core/encryption`, `core/compress`) | a frame half read or half written in each layer, two rings of plain bytes | read, write | partial reads and writes in three layers, rings that must agree without a word between them | what is read is what was written, and nothing stays behind in a buffer |
| listeners, addresses, guards, pools, observers, runtimes, builders, programs | - | - | - | glue; see `PROJECT.json` |

Interaction: `Client::run` drives one `PenetrateClient` at a time and respawns
it; `Server::run` spawns a task per connection that becomes one `Penetrate`. The
two halves talk over the control connection and over data connections that the client
opens. All futures of a half send on the control connection through clones of one writer, which can lose
a packet and send another one twice when the connection is full (see Packets). Inside a half all futures are polled by
one task (`poll_accept`, `poll_generate`), so a step of a future is atomic
between two awaits; the interleavings are those of the futures' polls, the
timers and the two machines. What is spliced leaves the session and runs in a task of
its own.

## Modules

| module | role |
|---|---|
| `Tunnel` | one established session: both halves, control and data connections |
| `MCTunnel` | `Tunnel` for TLC |
| `Rendezvous` | what a session promises a visitor, without ids or messages |
| `TunnelProofs` | theorems about `Tunnel` and that it implements `Rendezvous` |
| `Session` | the reconnect loop, the server's tasks, key exchange and set-up |
| `SessionProofs` | types of `Session`, and who may serve |
| `Fallback` | the guard around a visitor's stream: mark, read, backward, write |
| `Selection` | the selector, its adapters and the SOCKS5 handshake, on top of `Fallback` |
| `MCSelection` | `Selection` for TLC: what visitors say |
| `SelectionProofs` | theorems about `Selection` |
| `UdpForward` | SOCKS5 UDP associations: both loops, the shared socket of the client |
| `Forward` | two streams copied into each other, and what their ends are told |
| `Bridge` | `run_bridge`, on top of `Forward` |
| `BridgeProofs` | theorems about `Forward` and `Bridge` |
| `UdpForwardProofs` | theorems about `UdpForward` |
| `Lz4` | one direction of the compressing stream: blocks, leftovers, the two rings |
| `Cipher` | the frames of the RSA and AES streams, on top of `Lz4` |
| `Packets` | what is sent through both: packets of futures that share a writer, or chunks of a copy |
| `PacketsProofs` | theorems about `Packets` |
| `KcpControl` | the control block of KCP as operators over a record; no state |
| `KcpLink` | one conversation: two control blocks, update tasks, streams, a network |
| `Pipe` | what a KCP stream promises, without segments |
| `KcpLinkProofs` | theorems about `KcpControl` and `KcpLink`, and that it implements `Pipe` |
| `MCKcp` | `KcpLink` for TLC: what the programs write |
| `KcpSessions` | many conversations of one connector and one listener |
| `MCKcpSessions` | `KcpSessions` for TLC: streams are interchangeable |
| `KcpSessionsProofs` | theorems about `KcpSessions` |

What composes what: `Selection` extends `Fallback`; `Bridge` extends `Forward`;
`Packets` extends `Cipher`, which extends `Lz4`;
`KcpLink` extends `KcpControl` and implements `Pipe`; `Tunnel` implements `Rendezvous`.
`Session` hands over to `Tunnel` when both sides serve, `Tunnel` to `Selection` while a
visitor is `Selecting`, `Selection` to `UdpForward` for an UDP request. `KcpSessions`
takes from a conversation only that it is open, closing or over; the rest is
`KcpLink`. These hand-overs are in prose: no module composes them.

### Tunnel

A visitor `v` stands for its connection and for the destination in its `Map`; a job `j` for one future
of the client and for the data connection this future opens. The client starts a job for
every `Map` it reads. That is one per visitor, unless a `Map` is lost or sent twice on the way.

| state | code |
|---|---|
| `identify`, `wait_list` | `MQueue` |
| `vst[v]`, `vid[v]` | where the future of `async_penetrate_handle(Pen::Visit)` stands, and `id` in it |
| `chan[v]`, `stream[v]` | the `bounded(1)` channel `accept_tx` / `accept_ax` and what was sent through it |
| `job[j]`, `jid[j]`, `dst[j]`, `target[j]` | the future of `start_async_forward`, the id and the destination of its `Map`, the connect to the destination |
| `dconn[j]` | the data connection: opened, carrying `Map`, taken by a visitor, dropped |
| `s2c`, `c2s` | the control connection: the packets that were encrypted, in their order |
| `skept`, `ckept` | `wbuf` of the RSA encryptors: the last frame is not yet written in full |
| `sess`, `csess` | the two halves; `"hung"` is the endless loop of `push` |
| `asked`, `denied`, `twice` | history: visitors with a `Map`, jobs with a `MapError` encrypted, ids of those encrypted once more |

Each action is one step of one future between two awaits: `Push` is
`mock.call`'s return together with `mqueue.push`, since nothing waits between
them when the locks are free (nobody holds them across an await). The id is an
unsigned 32-bit counter that wraps to 0; `IdMod` is its number of values, and the
overflow test of `push` is the `%` of `PushId`. `MapError.of` is auxiliary:
it names the job that refuses, so that the properties can speak of
it; no action reads it.

A send is modelled poll by poll, as `poll_write` of the RSA encryptor has it. With no frame left over, the packet is
encrypted and its frame written, or kept when the transport has no room (`ServerEncrypts`, `ClientEncrypts`). With one
left over, *whoever* polls a send next writes that frame and is told that its own packet was written
(`ServerFlushes`, `ClientFlushes`). So

* a `Map` or `MapError` whose sender flushes another's frame is never sent, though its sender goes on as if it were;
* a sender whose frame was flushed by another one is polled again and encrypts its packet once more (`twice`);
* a visitor that times out while its frame is kept leaves the frame behind, and the next send writes it;
* a heartbeat flushes and is flushed like any other send.

A `Map` that arrives twice starts two jobs of one id. The first answer removes the entry, the id goes to the
next visitor, and the second answer then reaches that one. `Packets` has the same writer byte by byte.

The futures that end in `Err` are dropped without a word by `poll_accept` and
`poll_generate`, so a visitor that fails after `push` leaves its entry in
`wait_list`. So do `Peer::Finished` and `Peer::Unknown`, for which no `Map` is sent at
all. These entries are never freed while the session lives; they only matter when ids run
out (`HangsOnlyWhenExhausted`), and leaving them there is also what keeps routing
correct: an entry removed by a timeout would free an id whose answer is still to come.

One session is enough: its queue, listeners and control connection are created
and dropped with it, so nothing of one session reaches another.

### Rendezvous

Four actions: `Ask`, `Make` (the client starts a connection for a visitor), `Join` (a visitor with a connection that was made
for it and given to nobody else) and `LetDown` (one visitor, or all that are pending when a session ends). Visitors
in `crossed` may be joined with a connection made for another one. `Tunnel!KeepsPromise` instantiates it with
`phase` from `vst`, `peer` from `stream`, `made` from `dst`, and `crossed` the visitors whose id had a packet encrypted twice.

### Session

A pool of connections; the client uses one at a time, and an old one may outlive
it on the server. `link[c]` tells a connection that is reset from one that is silently
lost: reads of the first fail, reads of the second wait for ever and only a
heartbeat's write fails in the end. `Handshake` and `Setup` messages are in
`c2s[c]`, `s2c[c]`; `Holds(c)` says which task has the listeners. One client asks
for the same ports each time, as the client program does.

### Fallback and Selection

A byte is its position in what the visitor sends, so order and loss can be told;
`Content` gives the bytes the handshake looks at a value. `marked` and `backed` are the
two `Option<Buffer>`, `wire` is what the connection has not been read of. `Selection`
tries the adapters in order (`turn`); `stage`, `need`, `got` are the state, the
buffer and the offset of `Socks5::poll` and of `poll_auth`, and `looping` says that the poll is inside
its inner read loop, which matters after a short read. A read returns any number of
the bytes sent so far, so a message may arrive in any pieces. A byte has
`ByteMod` values where a length is computed. `hello` is what the visitor says, `config`
the adapters and what the client asked for; neither changes. `Selection` refines the step `Selecting` of
`Tunnel` in prose only: its `routed`, `closed`, `finished` and `failed` are the outcomes
`Tunnel` chooses from, and `Splice` is where `Tunnel` hands the stream over.

Only an error of the first two bytes makes `SocksMock` give the visitor to the next
adapter; every other one drops it. Writes of a handshake are taken to be
complete (twelve bytes at most), and an address of IPv4 or IPv6 is well-formed by its length.

### Forward and Bridge

A link is a pair of streams, its two sides `<<l, "near">>` (the client's) and
`<<l, "far">>` (the server's). Buffers are only counted: `sent` by an end, `read` and
`written` by the copy, `got` by the other end. A copy holds at most one buffer
(`read - written`). `phase[l]` is `"on"` while `io::forward` runs. Its `Select` returns with the
first of the two copies, so `CopyEof` and a failed `CopyWrite` turn the link off
with whatever the other copy holds. `Told` is what the transport then does: a stream dropped
with something unread in it is reset, another one ends with an end of file.

`run` is where `run_bridge` stands, `client` and `server` what either has asked
or been told, `listening` the bridge's own listener. `Finish` is the return of
`run_bridge`, which drops the listener and, through `Select`, the control link;
tasks of data connections were spawned and stay. `Task(d)` is one of these, with
`wait_for` of ten seconds around all of it (`Expire`). `lost` are data connections reset
while they wait to be accepted: `peer_addr` then fails, and `?` ends the session.

### UdpForward

| state | code |
|---|---|
| `ctl[a]`, `inbox[a]` | the visitor's TCP connection and the datagrams it sent to the server's socket |
| `srv[a]`, `cur[a]` | the loop of `SocksUdpForward` and the request it is busy with |
| `up[a]`, `down[a]` | the data connection; a `Forward` and its data are two packets |
| `cl[a]`, `sock[a]` | the loop of `SocksUdpForwardMock` and its `VirtualUdpSocket` |
| `sessions`, `buf`, `dropped` | the map of `Datagram`, the buffers behind it, removals spawned and not yet run |
| `asking`, `receiving` | requests at their target, the receiver task of `Datagram` |

All associations of a client share one `Datagram`, which is why two of them are
modelled together. `clash` is history: addresses that had two sockets at once.
A loop that ends in the middle of a packet leaves a torn one (`"torn"`).

### KcpControl and KcpLink

`KcpControl` has one operator per function of the control block (`Send`, `Recv`,
`Input`, `ParseAck`, `ParseData`, `MoveBuf`, `Update`, `Flush`, `Close`, `ForceClose`,
...), over a record with the block's fields. `KcpLink` holds one block per end, the
session around it (`life`: its update task, the thirty seconds as `KLife::Dead`), the
program's reader with its waker and the rest of a message (`reader`, `kbuf`), the stream
handle and its spawned close, and the network.

What is abstracted:
* A unit is one `mss` of data; a segment carries one unit or none, and is a datagram of its own.
* There is no clock. Which unacknowledged segments an update repeats is
  chosen: none, all that are overdue (neither they nor their acknowledgement is under way), or, as a
  fault, any of them too early. So round-trip times, `rto` and fast retransmission,
  which only choose the moment, are covered by the choice; the
  congestion window is left out because `Session::new` turns it off (`nocwnd`).
* `timediff` is that of a release build, where the subtraction wraps.
* `KCP_CLS_WAIT` ends by its ten seconds only when nothing of the handshake is under way
  (a round trip is shorter than ten seconds).
* An update waits while more than `Backlog` datagrams are under way to an end. Without
  this the network grows without a bound; with it, reorderings beyond `Backlog` are lost.
* Losses, repetitions, reorderings and the like come out of a budget of `MaxFaults`.
* Malformed datagrams and the wrong conversation number are not sent; the `updated` flag is dropped.

### KcpSessions

`Choose` and `Insert` are the two locks of `connect`. `sessions` and `manager` are the maps
of connector and listener, `core` and `lcore` the blocks behind them reduced to open,
closing, ended, cleaned. A datagram names the stream it was sent for (`of`), which no
guard reads: it is there to tell when a datagram, a close or a clean-up reaches another
stream's session. `overlapped`, `untidy` and `mixed` are history variables; `untidy` are the streams of which one end
stopped without a word, which the listener refused because it still buried another's session, or whose number was given up
while a CLF was under way with it. `Held` are numbers of streams that stay open, which make
the search go round, and whose datagrams make either end look through its map and forget what is old
(`ConnectorReceivesHeld`, `ListenerReceivesHeld`).

`Ages` and `AgesAccepted` are the end of the thirty seconds at either end. Of a number that both ends gave up by CLS and
CLF (`Orderly`) nothing that a block sent before can still be under way by then, so it has arrived or is lost
(`StillUnderWay`). The exception are CLFs: two dead sessions answer each other's for as long as they are
kept, so that any of those in the network may be as young as the last moment (`late`). Of a number that is not orderly everything stays.

### Lz4, Cipher and Packets

One direction of one connection, from the futures that send to the futures that receive.
A byte is its position in the stream of its layer, so a stretch of bytes is an interval, and
what `compress` and `encrypt` compute is left out: a block or a frame says which positions of the
layer above it carries. That a reader finds a *length* where the writer put one, and never data, is then
something to check, and is what `ReadsAsWritten` says.

| state | code |
|---|---|
| `blocks`, `ebuf`, `woffset`, `compressed`, `ering` | `Lz4Compress::poll_write`: `lz4_ebuf`, its offsets and the encoder's ring |
| `dinit`, `dneed`, `doffset`, `rbuf`, `dring` | `poll_decode_read`: length or data, the leftover, the decoder's ring |
| `kind`, `Preface` | which connection, and what its handshake left in both rings before the first frame |
| `frames`, `pending` | what `RSAEncryptor` and `AESEncryptor` have encrypted, `wbuf` / `aes_ebuf` |
| `cinit`, `rpos`, `cneed`, `cache` | their reading half; RSA and AES count a frame alike |
| `sent`, `got` | the transport, which holds `PipeMax` bytes; a write takes any part of what fits |
| `len`, `st`, `turn` | senders: `SendPacket` futures on a control connection, chunks of `WriteAll` on a data connection |
| `pbody`, `poffset`, `pneed`, `received` | `RecvPacket` |

`kind` chooses between a control connection (RSA, several senders that `wait_for` may drop, packets) and a data
connection (AES, one copy loop, no packets). A call of `poll_write` holds the lock of the write half, so
`turn` is the one sender inside it, and `Compress`, `Write`, `Pend` are the turns of its loop.
A control connection begins behind its handshake: each side sends a length and a public key through the same
`Lz4Compress`, and the client then its iv and key, a frame each, so that the rings stand at `Prefix + KeyDer`, or two
frames further, when the first packet is sent (`Lz4Init(o)`).
`pending` is a frame that nobody is writing. The next call writes it first, whoever it belongs to, and then
reports its *own* buffer as written: `swapped` is the history of that.

What is abstracted: the transport never takes zero bytes of a write (the external streams do not);
what comes out of a block decompressed against the wrong dictionary is not followed further
(`"bad"`, which ends the reading); the decoder's arm for a first block
of length zero is part of its initial state; an AES stream that ends in the middle of a frame looks to the
copy loop like any other end, as in the code; a text that RSA does not take (more than 117 bytes for a key
of 1024 bits) ends the session of its sender (`PollRefused`).

### Rendezvous and Pipe

`Pipe` is a stream: writes in order, reads of a prefix without a gap, an end of stream
only when the writer has shut and all was read, a reset at any time, a
reader that starts again only before anything was written by itself. `KcpLink!KeepsPromise` maps `got` and `sent`
to itself, `over` from `reader`, `shut` from the close state.

## Runs

| run | bounds | what it shows |
|---|---|---|
| `tunnel` (`MCTunnel.cfg`) | 2 visitors, 2 ids, 3 jobs, a buffer of 1 packet and the frame that is kept, which happens once, all faults | `TypeOK`, `RouteCorrect`, `RefusalCorrect`, `DistinctIds`; `FreedByAnswer`; refinement `KeepsPromise` |
| `tunnel_live` (`MCTunnelLive.cfg`) | 2 visitors, 1 id, 3 jobs in order, the same buffer, timeouts and broken sessions | `HangsOnlyWhenExhausted`, `VisitorsResolved`, `SessionsEndTogether` |
| `session_recovers` (`SessionRecovers.cfg`) | 2 connections, 3 faults of any kind at any point, no limit on retries or one | `TypeOK`, `ServesOnlyWhenReady`, `RecoversUnlessStuck` |
| `session_retries` (`SessionRetries.cfg`) | no faults, two retries allowed | violates `GivesUpAfterRetries` |
| `selection_all` (`SelectionAll.cfg`) | adapters socks, socks, direct, or socks alone; 41 visitors, 6 configurations, bytes of 8 values | `TypeOK`, `NothingLost`, `PlainUnchanged`, `PayloadOnly`, `RoutedOnlyWithPassword` |
| `selection_short_reads` (`SelectionShortReads.cfg`) | the program's adapters, valid visitors | violates `ResetOnlyIfClosed` |
| `kcp_data` (`KcpData.cfg`) | 4 units in 3 messages, window 2, 16 sequence numbers starting at 15, one fault | `TypeOK`, `NothingForgotten`, refinement `KeepsPromise`, `Delivers` |
| `kcp_close` (`KcpClose.cfg`) | 1 unit, either end closes, a fault of loss, I/O, death or restart | `KeepsPromise`, `CloseEnds`, `CloseReleases` |
| `kcp_sessions` (`KcpSessions.cfg`) | 2 streams, one free number, 2 datagrams under way | `TypeOK`, `SharedOnlyIfOverlapped`, `NeverMixed`, `ClosesOwn` |
| `udp_forward` (`UdpForward.cfg`) | 2 associations, 2 targets, 2 datagrams, 2 faults | `FoundByAnswer`, `NoEntryLeft`, `AnswersOwn`, `HangupEnds`, `TakesAll` |
| `bridge` (`Bridge.cfg`) | 1 data connection, 1 buffer per direction, failing calls and early resets | `BoundIsListening`, `EofComplete`, `EndsAll` |
| `packets` (`Packets.cfg`) | 2 senders, lengths 1 to 3, a transport of 3 bytes, blocks of 4 bytes and rings of 16, a handshake of 2 bytes; both kinds of connection | `ReadsAsWritten`, `SentOnce`, `RingsAgree`, `Arrives` |

Why these bounds suffice. A crossing needs two visitors and one id that passes
from one to the other; with two ids and two visitors the counter also moves. With a buffer of one packet and one frame
that is kept, a refusal and a heartbeat can be under way together, and any packet can be the one that is kept. `MaxBlocked`
lets that happen once in a behaviour: it takes one kept frame to lose a packet, to double one and to leave one behind,
and a second would only do so to the other visitor as well (two do not fit into the time of a run kept here; the proofs
have no such bound). Three jobs are both visitors' and the second one of a doubled `Map`. In
`tunnel_live` one id makes both visitors contend for it, so that ids run out; `Precedes` has the jobs used in their order,
which is a symmetry that temporal properties allow. In `Session`
two connections are an old one that still holds the
ports and the one that wants them; three faults let a second fault hit the recovery
from the first. `RetryCap` bounds the counter of retries, which is only
compared with constants below it. In `Selection` there is one visitor, since nothing is shared
between two of them before they meet in `Tunnel`; a second SOCKS adapter re-reads what
the first gave back, which a third would do again. Eight values of a byte leave room
for version 5 and for the two lengths that overflow.

In `kcp_data` four units pass a send window of two, so the window fills, opens, and the second
number sent is already past the wrap; messages of two units and reads of one leave a rest
in `kbuf`. One fault suffices to lose, repeat or reorder any one datagram, data
or acknowledgement; what two faults in one behaviour do is not covered. `kcp_close`
keeps the data at one unit and spends its states on the pairs of close states.
In `kcp_sessions` two streams are the least that can share a number, and one free number the
least that makes them; `MaxNet` bounds only what is sent unasked. A third stream is
needed to see one stream answered by a former one's session and then mixed with it; it was run apart
for twelve million states without an end, too long for a run kept here, and is covered by the proof.
In `packets` a transport of three bytes cuts every frame and every length in all ways, two
senders are the least that can write each other's frames, and both rings wrap within them: the frames of a control
connection, behind the handshake, step over the stretch between the two places, those of a data connection fall into it. Two associations with
two targets give two sockets of one address and of different ones. In the bridge the links do not
share anything but `run_bridge`, which one data connection exercises; the proofs cover any number.

`CHECK_DEADLOCK FALSE` is set because these systems may stop: both halves of a
session end, every visitor is served, a client exits, everything written is read.

### What the properties leave open

Several properties hold only short of something the code does. Each exception is named in the
property, so that it says when the promise breaks and that it breaks no other way:

* `Stuck` (`Session`): set-up has no timer, so a peer lost silently during set-up leaves
  one side waiting for ever. `GaveUp`: a limit was set, or the handshake failed, which ends the
  client whatever the limit.
* `LongName` (`Selection`): names of 254 and 255 bytes overflow a byte; see Findings.
* `Tangled` (`KcpSessions`): two `connect`s between their two locks. `Outlived`: a
  stream held open after its session died, whose close finds the next one with its number.
  `untidy`: a number one of whose ends stopped without a word, that was refused by a dead session, or that was given
  up while a CLF was under way with it; see Findings.
* `twice` (`Tunnel`, `Crossed` in the refinement): an id of which a `Map` or `MapError` was encrypted twice. Everything
  that does not depend on which visitor an id is for holds for these too; see `RouteCorrect`.
* `clash` (`UdpForward`): two sockets of one address at a time. `Abandoned`: the client waits,
  without a timer, for an answer that does not come.
* `cut` (`Forward`): a link ended by its ten seconds, by a failed write or by the end of the
  session, not by an end of file. `closed`: nobody is owed what goes to an end that has closed.
* In `CloseEnds`, a peer that died with its window shut is probed for ever; in
  `CloseReleases`, a fault may leave a reader asleep.

### Fairness

`Tunnel!Fairness`: an armed timer fires (`wait_for` around a visitor's future), and a half that is up reads
what was sent to it, a closed peer as an error once that is read. Nothing else is relied on: no send, which may
wait for room for ever, no step of the client's futures, and nothing that the visitor has to do. `Session!Fairness`: the loop and the tasks are run,
a lost connection makes heartbeats fail in the end, a crashed server is
started again.

`KcpLink!Fairness`: programs go on writing and reading, update tasks run, a datagram that is not
lost arrives (the oldest first). Weak fairness of an update is written out as
`<>[]~HasWork \/ []<><<A>>_vars`, with the condition under which a flush changes something, because TLC
takes long over `ENABLED` of it. `WaitExpires` is strongly fair: the ten seconds run on
while CLF and CLS come and go. `UdpForward!FairSpec` and `Bridge!FairSpec`: every task that
can go on is polled, timers fire, a removal that was spawned runs; a target that was reached, and a
server that was asked, answers. `Packets!FairSpec`: the transport goes on, and a task that was woken
polls again. Faults are never fair, nor is a timer that drops a sender.

### Findings

Shown by a run:

* `client/mod.rs:61` compares the retry limit the wrong way round (`session_retries`). The same property
  fails for `client/mod.rs:83`, which ends the client on a failed handshake although
  `maximum_retries` is `None`.
* `net/socks/mod.rs:320` compares the offset with the wrong length: a handshake, or any
  visitor's first two bytes, that arrives in pieces ends in `ConnectionReset`
  (`selection_short_reads`).

Met while modelling, modelled as they are and visible as exceptions of properties (above) or in
the definitions named:

* `net/socks/mod.rs:259` adds lengths in one byte; with a name of 254 the address is parsed
  from nothing and the task panics, with 255 the name is taken from the wrong place
  (`NameLength`, `ParseNothing`).
* `AnswerMethods` does not look at the methods offered (`net/socks/auth.rs:86`, against the comment
  at line 57); `RouteConnect` reports success before the client is asked to connect
  (`net/socks/mod.rs:278`).
* KCP: an update that finds the block closed ends its task without waking the reader
  (`EndClosed`); the queued copy of a CLS is sent as an empty PUSH, which reads as an
  end of file; a CLS is answered at once and what was unread or unsent is lost; `force_close` of a
  session is `close`; two dead sessions answer CLF with CLF; a write of more segments than
  `KCP_WND_RCV` never finishes (left out of the model by an assumption on `Messages`).
* KCP: CLS and CLF are made without a `una` (`net/kcp/third_party/mod.rs:1090`, `:1107`, `:75`), and `input` obeys the
  `una` of every datagram (`:679`). A `una` of 0 acknowledges whatever lies in the upper half of the numbers, so that an
  old conversation that is closed forgets what it still had to send. The CLS ends the sending all the same, so nothing
  else comes of it; it is the hypothesis `Low` of the proofs, and none of the runs gets there.
* KCP sessions: `connect` chooses and inserts under two locks; close and clean-up
  callbacks find a session by its number, whoever has it by then.
* KCP sessions: a number is used again thirty seconds after its session died at the connector, whatever the
  listener holds. When an end stops without a word (an I/O error, a dead link), or the next stream of
  the number is refused by the listener's dead session, one end may keep a session open. The
  stream after that is then answered by it, and the two get each other's datagrams. Where both ends go by CLS and CLF,
  two dead sessions answer each other's CLF for all of the thirty seconds (`net/kcp/mod.rs:322`, `:523`), and one that is
  under way when the number is given up ends the next stream of that number. `NeverMixed` holds for
  the numbers to which neither happens, and for those alone.
* Packets and Tunnel: when a send on a control connection waits for the transport, another sender's next call
  writes the rest of its frame and is told that its own packet was sent; that packet is lost, and the
  first one, polled again, is sent a second time (`core/encryption/rsa`, `wbuf`; the exception of `SentOnce`). For a
  session this means: a visitor whose `Map` is lost waits for its timer; a `Map` sent twice makes two connections to its
  destination, and the second answer to it, as the second copy of a `MapError`, goes to whoever has the id by then, who is
  joined with another's destination, refused, or has its entry removed (`twice`, the exception of `RouteCorrect`,
  `RefusalCorrect`, `DistinctIds`, `FreedByAnswer` and `KeepsPromise`).
* LZ4: the decoder's ring starts again at another place than the encoder's; an offset between
  the two puts the same block at different places, which LZ4 does not allow for rings this small
  (the exception of `RingsAgree`). Frames of a control connection step over it, behind the handshake as well as after
  the ring has started again; those of a data connection, whose length is the copy's, need not.
* UDP: the map of virtual sockets goes by address, so a second socket replaces the
  first and the late removal of one takes the entry of the next; answers that arrive together become one
  datagram; the wait for an answer has no timer; a Close may be taken for the data
  of the request before it.
* Bridge: the ten seconds cover the forwarding as well as the connecting; one data connection reset
  early ends the whole session.

## Proofs

`TunnelProofs` proves, for every set of visitors and jobs, every number of ids, every
buffer size and any number of frames that are kept, from the assumptions of `Tunnel` alone (`NoVisitor` and `NoJob` are
none of theirs, `IdMod` and `ChanCap` are positive, `Faults` are among the three):

| theorem | states |
|---|---|
| `TypeCorrect` | `Spec => []TypeOK` |
| `Invariance` | `Spec => []IndInv` |
| `RoutesAreCorrect` | `Spec => []RouteCorrect` |
| `RefusalsAreCorrect` | `Spec => []RefusalCorrect` |
| `EntriesFreedByAnswer` | `Spec => FreedByAnswer` |
| `TunnelImplementsRendezvous` | `Spec => KeepsPromise` |
| `IdsAreDistinct` | `Spec => []DistinctIds` |
| `PushHangsWhenExhausted` | `Spec => []HangsOnlyWhenExhausted` |

The argument. `RouteCorrect` is not inductive: `ServeClient` looks only at an id.
What makes it true is that the id of every request or answer under way, unless it is in `twice`, is still
reserved in `wait_list` for the visitor it was made for (`ReservedInv`). That in turn needs to know
that a request is under way once (`OnceInv`): as one `Map` in `s2c`, then as one job, then as one
`MapError` in `c2s` or on one data connection; otherwise the
first of two answers would free the id under the second. A `Map` is encrypted a second time only by the visitor that had
encrypted it before, which `asked` and `denied` record, so that `twice` has its id from then on: a lost
packet leaves nothing under way and disturbs neither. `LifeInv` says that whatever carries an id carries that of
its visitor, and ties a job's state to that of its connections. `EntryInv` ties an entry
to the visitor that holds it, which has no answer yet. `IndInv` is their conjunction with the type
invariant and the two properties. The proof has one lemma per action or group of actions that
touch the same variables, with one step per conjunct. The refinement and the
action property follow from `IndInv` step by step. `DistinctIds` follows from it too: two things under way with one id
are of one visitor, and once there. `HangsOnlyWhenExhausted`
needs `ExhaustInv`: a session hangs in the `push` of a visitor that has no id yet, when every id has an owner.
Owners are distinct, so ids map one to one into visitors that were accepted, and there are at least
as many of these as ids, besides the one that hangs.

`SelectionProofs` proves, for every list of adapters, every set of visitors and every
`ByteMod` above 5, from the type assumptions of `Selection`:

| theorem | states |
|---|---|
| `Rereadable` | `Spec => []IInv` |
| `NothingIsLost` | `Spec => []NothingLost` |
| `PlainIsUnchanged` | `Spec => []PlainUnchanged` |
| `Guarded` | `Spec => []TInv` |
| `TypeCorrect` | `Spec => []TypeOK` |
| `RoutesNeedThePassword` | `Spec => []RoutedOnlyWithPassword` |
| `DestinationsGetThePayload` | `Spec => []PayloadOnly` |

`NothingLost` says that marked, backed and unread bytes, in this order, are what the
visitor sent. `backward` puts marked bytes *behind* backed ones, which keeps the order only if one of
the two is empty. `ReadAhead` is what makes it so: at most two bytes were ever given back, and the next
adapter reads these two before it may return.

`TInv` is the type invariant with the size of `read_buf` at each stage and with what a stage
says about the ones before it: a request is read only after the password was asked for and was right, if one is
set (`Granted`). `PInv` follows the bytes. `Part(p)`: a stage begins at position `p` of the dialogue and
reads its part of it and no more; the stage after it begins where it ended, because the length it reads
is the one the visitor put there (`SocksContent`), as long as one byte can hold it. So the
address ends with the dialogue, and what is left on the wire is the payload.

`KcpSessionsProofs` proves, for every set of streams, every modulus and any traffic:

| theorem | states |
|---|---|
| `Invariance` | `Spec => []IndInv` |
| `NumbersAreShared` | `Spec => []SharedOnlyIfOverlapped` |
| `ClosesAreOwn` | `Spec => ClosesOwn` |
| `TypeCorrect` | `Spec => []TypeOK` |
| `OneStreamANumber` | `Spec => [](Base /\ Apart /\ NeverMixed)` |
| `NumbersKeptApart` | `Spec => []NeverMixed` |

`SharedOnlyIfOverlapped` looks at blocks, while `connect` looks at the map; `Claims` links the two: a
stream that has chosen a number, or whose session is in the map or not yet cleaned up, claims it, and two that claim
the same number overlapped. `Found` says that a live session which no overlap touched is the one the map leads to, so that a close or
clean-up found by number reaches it and no other (`Placed` is the other direction).
`ClosesOwn` then follows action by action.

`NeverMixed` needs to know all that bears a number: the entries of both maps, their blocks, and the
datagrams under way. `Apart` says of an orderly number that either a stream has it at the connector, and
then everything else is of that stream (`OneStream`), or nobody has, and then nothing of it is under way and the
listener holds no open session for it (`Quiet`). What makes it inductive is the order of the handshake:
an end that answers CLS or CLF is no longer open, so the last datagram of a stream
meets a session of its own or a dead one (`Fits`). Thirty seconds outlast what is under way, but for CLFs: when the
listener forgets its dead session first, one of these may open a session anew, which ends at once and is of the stream that
the connector still buries; when the connector gives the number up, there is none, or the number is no longer orderly.

`SessionProofs` proves `ServesReady`: `Spec => [](TypeOK /\ ServesOnlyWhenReady)`, for any connections,
limits and faults, and from it `TypeCorrect`. What makes it inductive: no YES is in flight on a connection whose task is
not ready (`YesMeansReady`), and the connection in use is open, so that it is not reclaimed under
the client (`InUseIsOpen`).

`BridgeProofs` proves, for any number of links and any amount of data:

| theorem | states |
|---|---|
| `Types` | `Spec => []TypeOK` |
| `SuccessIsBound` | `Spec => []BoundIsListening` |
| `NothingLost` | `Spec => []EofComplete` |

`EofComplete` speaks of the moment an end reads the end of file, which may be long after the
link went off. `Drained` carries what was true then: all that goes towards an end still open has been
written. It holds at an end of file because `copy` reads nothing only when it has written everything before,
and for links dropped earlier because nothing is sent before a link is on (`Idle`). `PhaseInd` is the one lemma about links
that change phase, used by every action that does.

`UdpForwardProofs` proves, for any associations, targets and datagrams and every choice of faults:

| theorem | states |
|---|---|
| `TypeSafe` | `Spec => []TypeOK` |
| `EntriesLeave` | `Spec => []NoEntryLeft` |
| `AnswersFound` | `Spec => []FoundByAnswer` |
| `AnswersAreOwn` | `Spec => AnswersOwn` |

`AnswersOwn` needs three things at once. `Aligned`: the two loops of an association are at the same
request, so that the socket the client waits on is the one of `cur[a]`. `Lone` and `Found`: without a clash
there is one socket of an address, dropped ones included, and its entry leads to it, so that no late
removal takes the entry of another. `OneAnswer`: its buffer is then empty, or holds the
one answer to its own request. `FromAddress` holds with a clash too: a buffer never holds an
answer from another address, and none outlives its socket and the removal.

`PacketsProofs` proves, for any senders, lengths, capacities and sizes, and for a transport of any room:

| theorem | states |
|---|---|
| `Invariance` | `Spec => []IInv` |
| `ReadersAgree` | `Spec => []ReadsAsWritten` |
| `SendsAccountedFor` | `Spec => []SentOnce` |
| `RingsStayTogether` | `Spec => []RingsAgree` |
| `ControlRingsAgree` | with the numbers of the code, `Spec => [](kind = "control" => ~apart)` |

Blocks lie one behind the other in three spaces at once, the stream, the transport and the ring
(`BlocksInv`), and frames in the stream and in the text (`FramesInv`). Each reader is inside the block,
frame or packet that its own counters say, as far as they say (`DecoderInv`, `OpeningInv`, `PacketInv`); a length
that is complete is then the length of that one, and what follows begins where it ends. `SendersInv` ties a sender to its frame:
one that is sending has a frame that is not finished (`Finished`), unless a call of another wrote its end. `RingsInv` gives the
decoder's ring for the block it is at: it is the encoder's while no offset fell between the two places. For a control
connection every frame is one block of `Prefix + RsaKey` bytes (`ControlInv`), so offsets are multiples of that
number past the handshake, and multiples of it once the ring has started again. With the numbers of the code (blocks of
1024 bytes, a bound of 1044, rings of 3072, RSA keys of 1024 bits, whose public key takes 162 bytes) these are
`166 + 132 * i` and `132 * i`, and neither lies in 2028 .. 2047.

`KcpLinkProofs` proves, for any windows, any number of sequence numbers and any place they start at, any messages,
buffers and backlog, and any faults in any number except where one is named. The constants are only assumed to be what
`WindowsFit` and `LinkAssumption` say (both windows fit twice into the numbers; a message fits into the window of a receiver):

| theorem | states | for |
|---|---|---|
| `TypeCorrect` | `Spec => []TypeOK` | every link, also one whose listener is restarted |
| `UnitsKept` | `Spec => [](FewUnits => NothingForgotten)` | no restart |
| `LinkKeepsPromise` | `Spec /\ []Unwrapped => KeepsPromise` | no restart |
| `ShortLinkKeepsPromise` | `Spec => KeepsPromise` | no restart, and messages of fewer than half of the numbers in all |
| `ShortLinkForgetsNothing` | `Spec => []NothingForgotten` | the same, counted from `Start` |

The operators of the control block come first, one lemma for each function. They say what the function does to the
queues in terms of the sets these draw from: `Blk(t)` is the set of blocks whose queues draw from the sets of
`t`. With plain sets of segments this is the type invariant (`Typed`). With the segments that carry the number they should
(`KeptN`, `EarlyN`, `WireN`), or the acknowledgements that are true (`AckT`), the same lemma says that the function
keeps the numbers, or the truth. One lemma thus serves several invariants, and most of what the proof says of the
code is said there. Type correctness needs `Window` besides: `snd_nxt` is at most `SndWnd` past `snd_una`, and
the numbers in `snd_buf` rise in between, so that no acknowledgement, however late or wrong, makes `snd_buf` longer
than `SndWnd`.

The invariant of a direction (`Flow`) numbers the units: the unit `u` goes out under `Sn(u - 1)`, and the copy of a
CLS, which is sent as data, under the number after the last one. There are numbers `q`, of units that were given a number, and `r`, of units that
passed `move_buf`, such that

* `SendSide`: what waits to be sent is the units from `q + 1` on, and what was sent, or is under way, carries its number;
* `RecvSide`: what waits to be read ends with the unit `r`, and `r` is what the reader was given and what waits;
* `AckSide` and `Told`: the receiver holds what it acknowledges, now and in every datagram under way, however old;
* `Held`: what has a number is at the receiver, or the sender still keeps it.

`Held` is the point of the protocol: `parse_una` and `parse_ack` throw segments away on the word of a datagram, and are
right because `Told` stays true for ever, as the receiver forgets nothing. `Sound` puts `Flow` for both directions beside the
types and `Births` (an end that nobody addressed yet is as new), and is inductive. `NothingForgotten` is read off `SendSide`,
`RecvSide` and `Held`; the refinement adds that the reader was given the units in order (`Ordered`).

The hypotheses are what the protocol rests on, not what the proof could not do:

* `Unwrapped`: neither direction carries half of `SnMod` units. A copy may be of any age here, and a
  copy of a number that has come round is taken for a new segment (in the code after 2^31 segments; a network that forgets
  datagrams earlier makes it true of longer links). `ShortLinkKeepsPromise` has it from the constants: `Counts(W)` says
  that `W[e][j]` is the number of units in the first `j` messages of `e`, and there is such a `W` for any `Messages`.
* `FewUnits`: that, and `Low`: a receiver that closes has not got to the upper half of the numbers, because its
  CLS acknowledges them (see Findings). A link without a close needs only the first part, wherever it starts.
* No restart, where it is said. A listener that starts again has forgotten what it read, so
  `NothingForgotten` is then false, as it should be. `KeepsPromise` with a restart is checked in `kcp_close`, not proved:
  the units of the two lives of a listener would have to be told apart in every invariant above.

But for the restart in `kcp_close`, the runs lie within these hypotheses: `kcp_data` sends 4 units of 16 numbers
and closes nothing, `kcp_close` sends 1 of 8. What TLC shows
there for these bounds is proved for all; `UnitsKept` also covers streams that are closed, which `kcp_data` leaves out.
What `flush` sends and what a reader gets is put together by `FlattenSeq`, a recursive function: its partial results
exist, and that all of them are as they should be follows because there is no first one that is not (`WellFoundedInduction`).

Only model-checked. Liveness, for which the provers have no rules of fairness here: `Delivers`, `CloseEnds`,
`CloseReleases`, `HangupEnds`, `TakesAll`, `EndsAll`, `RecoversUnlessStuck`, `VisitorsResolved`,
`SessionsEndTogether` and `Arrives`. And `KeepsPromise` of `KcpLink` where the listener is restarted.

## Not modelled, and the plan

1. Proofs: that `KcpLink` keeps the promise of `Pipe` across a restart of the listener.
2. The writer of `Tunnel` as a refinement of the one of `Packets`: both are translated from `poll_write`, but no run or
   proof relates them.
3. `Mixing` (combined listeners), `Guards` (timers around a stream).

Hazards met while reading that no model here reaches: `send_packet` spins on a write of nothing
(`core/protocol/mod.rs:126`); a write of the handshake does not advance its offset
(`net/socks/mod.rs:291`); an empty backed buffer reads as an end of stream (`fallback.rs:113`), which takes
adapters in an order the builders do not make; with SOCKS5 on, a visitor whose server would speak first
waits for its timer (`selector.rs:66`); the lock of a KCP session is held while its socket is not ready
(`net/kcp/mod.rs:692`); the bridge's set-up has no timer (`bridge/mod.rs:72`).

Not modelled on purpose: the congestion window and the round-trip estimate of KCP, and its stream mode (switched off
or never used); several segments in one datagram; the layout of the UDP header of SOCKS5, where
`net/socks/mod.rs:398` cuts a payload with a name two bytes too early; what the operating system
does when accept or recv fails, after which `server/mod.rs`, the receive loops of `net/kcp/mod.rs` and the
bridge simply end. What LZ4 and the ciphers compute on bytes, the runtimes, command lines, observers and web
pages stay out: arithmetic on data, pure I/O, or stateless delegation.
