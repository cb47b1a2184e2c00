# TLA+ models of fastlive

fastlive is an RTMP live-streaming origin server written in Go. A publisher
connection pushes audio, video and metadata messages for a stream key. Player
connections of the same key receive them. This directory holds TLA+ models of
the parts of the server where concurrency or protocol state makes mistakes
hard to find by testing. It also holds the TLC configurations that check them.

## The system

| Part | Source | State | Operations |
|---|---|---|---|
| Acceptor | `server/server.go` | listener, three `sync.Pool`s | `Serve` starts one goroutine (`conn.serve`) per socket |
| Handshake | `handshake/handshake_server.go` | C0C1C2 / S0S1S2 buffers | `WithClient` runs `serverHandshke` in a goroutine against a timeout; plain (version 0) and digest variants |
| Chunk decoder | `connection/connection.go` 150-395, `chunk/stream.go` | per-csid `chunk.Stream` in `Connection.messages`, `RemoteChunkSize` | `RecvIntegralMessage` loops over basic header, message header (fmt 0-3, extended timestamp) and body until one message is complete |
| Chunk encoder | `connection.go` 397-473, `chunk/*header.go` | `writeBuf` (`net.Buffers`), header pool | `SendIntegralMessage` splits one message into chunks of `LocalChunkSize`; `Write` appends; `Flush` does one gather-write and returns even-indexed header slices to the pool |
| Command state machine | `server/server_conn.go` | `clientType` (0 undecided, 1 publish, 2 play), connect info | `recvChunkStream` dispatches connect, createStream, publish, play, then enters `publishCycle` or `playCycle`; play/publish timeout |
| Broker | `server/broker.go` | `sessionMap` (`sync.Map`), `sessionTotal` | `createSession` (create, resume or refuse), `softDelSession`, `delSession`, `addSessionPlayer` |
| Session | `server/session.go` | publisher pointer, players `sync.Map`, `offline` channel (capacity 1), cached metadata and sequence headers | `onRecvAVMessage` / `onRecvDataMessage` cache and `fanOut`; `checkOffline` goroutine with a 30 s `time.AfterFunc` |
| Player | `server/player.go` | `packetBuffer` channel (capacity 150), `bufferMutex`, `bufferClosed`, merged-write counters, base timestamps | `buffPackets` (publisher side), `closePacketBuffer`, `doPlaying` (cached headers, then loop: flush if due, dequeue, send) with a receive side-goroutine |
| FLV tag header | `av/flv/tag.go` | none | decode of the first 1 or 5 bytes of audio/video payloads |

How they interact: every connection is its own goroutine. A publisher goroutine
calls `createSession` and then, for every media message, runs the session's
`fanOut`. That takes each player's `bufferMutex` and sends into its channel.
Each player goroutine drains its channel into its connection's `writeBuf` and
flushes. A disconnecting publisher soft-deletes the session. The session's
`checkOffline` goroutine then arms the 30 s timer, and the timer closes the
players and deletes the key. The broker map, the session's publisher pointer
and the players map are shared by all of these goroutines without a common lock.

## Modules

| Module | Models | MC module / configs |
|---|---|---|
| `Fanout` | one session's publisher goroutine, its fan-out, its players' goroutines and the grace timer's close | `MCFanout`: `MCFanout.cfg`, `MCFanoutDeadlock.cfg` |
| `LiveStream` | the abstract specification of a session's live stream: players join, are given the packets after their joining point in order, and leave | instantiated by `Fanout` (refinement) |
| `FlvTag` | the FLV media-tag header decoder (`DecodeHeader`, `decodeVideoHeader`, `decodeAudioHeader`, `IsSequenceHeader`) and the cache slot `onRecvAVMessage` picks, as operators over payload prefixes, with the FLV specification's classification as reference | extended by `Fanout` |
| `Broker` | the registry of one stream key: publisher connections, each session's `checkOffline` goroutine and timer, player admission | `MCBroker`: `MCBroker.cfg`, `MCBrokerOfflineBlock.cfg`, `MCBrokerOrphan.cfg` |
| `PlayerSend` | a player's `sendAvPacket`: chunk stream and type per packet, the timestamp rewrite and `updateBaseTimestamp`, composed with `ChunkEncode`'s `SendIntegralMessage` | `MCChunkEncode`: `MCChunkEncode.cfg`, `MCChunkEncodeSplit.cfg` |
| `ChunkEncode` | `SendIntegralMessage`'s split loop and the chunk header encoding, with a recursive reference chunking | `MCChunkEncode`: `MCChunkEncode.cfg`, `MCChunkEncodeSplit.cfg` |
| `ChunkDecode` | a conforming RTMP client writing interleaved chunk streams, and the server's `RecvIntegralMessage` reading them | `MCChunkDecode`: `MCChunkDecode.cfg`, `MCChunkDecodeExt.cfg` |
| `Handshake` | `WithClient`'s goroutine and timeout, `serverHandshke` (plain and digest paths), `conn.handshake` and `serve`'s Close, against RTMP clients that may stop or leave | instantiated by `Serve` |
| `ConnState` | one connection after the handshake: the command state machine, its replies and timeout, and a player's two goroutines writing one `Connection` | `MCConnState`: `MCConnStateRace.cfg`; instantiated by `Serve` |
| `Serve` | `conn.serve`: the handshake, then, when it succeeded, the command loop, as one connection | `MCServe`: `MCServe.cfg` |

### Fanout

State: the publisher's control point (`pubPc`: receive, lock a player, send
into its channel), the players `fanOut` has still to visit, the packets
published so far, the cache of metadata and sequence headers, and for each
player:

- its channel contents and close flag;
- its control point: sending the cached headers, top of the loop, blocked in
  the dequeue, leaving;
- the entries in `writeBuf` and those already written to the socket;
- whether `mwWaitTime` has elapsed since the last flush;
- whether its receive goroutine waits with an error;
- the history of the packets `buffPackets` put in its channel (`live`),
  used only by the refinement mapping.

A packet is a record of a sequence number and a tag: the message type and
the leading bytes of its payload. The publisher decides what to cache by
`FlvTag`'s decoder, as `onRecvAVMessage` does (`CacheSlot`); a payload whose
header does not decode (`DecodeFails`) ends the publisher's connection. The
properties name a packet by what the FLV specification says it is
(`SpecKind`: metadata, AAC or AVC sequence header, frame). The rest of the
payload is not modelled.

Actions follow the code's blocking points:

- `PubRecv` is one received message with its header decode and cache update
  (`session.go` 30-87), or the decode error that ends `publishCycle`.
- `PubLock` + `BuffSend` are `buffPackets` for one player. The send is
  enabled only while the queue has room or the player is closed: the
  goroutine blocks with the mutex held.
- `Join` is `addSessionPlayer`.
- `SendCached` is `sendAvMetaPacket`.
- `Flush` is the `select default` branch with `flushAvPacket`, which may fail.
- `Dequeue` / `DequeueClosed` are the channel receive.
- `ErrExit` is the `select` on the receive goroutine's error.
- `Leave` is the deferred `delPlayer` → `closePacketBuffer`. It cannot take
  the mutex while the publisher is blocked sending to that player.
- `Expire` is the timer's cleanup.
- `Tick` is the wall clock passing `mwWaitTime`. Only `flushAvPacket` reads
  the clock, at the top of the loop with packets buffered, so `Tick` is
  taken there; time passing elsewhere is observed the same way.

`Fanout` implements `LiveStream` (`FanoutRefinesLiveStream`): the stream is
`published`, a player is out until `Join`, in until its channel is closed or
it leaves the players map, and has been given its `live` history. Every
`BuffSend` into an open channel is a `Deliver` of the next packet after
the player's joining point; `Leave` and the timer's `Expire` are a `Leave`
of the players they close; the player's own steps are stuttering steps.

### FlvTag

No state: operators only. `decodeVideoHeader` takes the frame type and codec
id from the nibbles of the first byte and, for H.264 key and inter frames,
`AvcPacketType` and the composition time (a `FoldLeft` over three bytes);
fewer than five bytes is an error. `decodeAudioHeader` takes the four sound
fields and, for AAC, `AACPacketType` from the second byte, which the code
reads after checking only for one byte: that case is the outcome `"panic"`.
`IsSequenceHeader` is `IsKeyFrame /\ AvcPacketType = 0`, whatever the codec.
`SpecKind` is the reference classification the `fanout` properties use.

### Broker

State:

- `entry`: the session the key maps to, or 0.
- `total`: `sessionTotal`.
- For each session: its publisher, its players, its `offline` channel
  occupancy, and the state of its `checkOffline` goroutine and timer (`wd`).
- For each publisher and player connection: its control point and the session
  it loaded.

Every broker function is split where another goroutine can run between two of
its accesses to shared state:

- `CreateLoad` is the `Load` and the nil test. It is followed by `Adopt` (the
  assignment), or by `Create` (`newSession`, `Store` and the increment).
- `SoftDel` clears the publisher. `Signal` is the channel send, which blocks
  until `OfflineSendable`: a free slot of the `OfflineCap` = 1 buffer, or
  `checkOffline` waiting to receive.
- `Watch` is `<-s.offline` and arming the timer.
- `TimerFire` is the `publisher != nil` test.
- `TimerCleanup` is the players `Range`.
- `TimerDelete` is `delSession`.
- `AddLoad` / `AddStore` are the two halves of `addSessionPlayer`.

Sessions are numbered in creation order up to `MaxSessions`.

### ChunkEncode

State: the messages submitted so far, the loop's control point (`epc`),
`idx`, `nChunks`, `unWrite`, and `out`, the units appended to `writeBuf`. A
unit is a chunk header (a record of the fields of its fmt, the timestamp
field saturated at 0xFFFFFF as `messageHeader.encode` does), an extended
timestamp, or one payload byte named by its message and offset.

- `SubmitMsg(m)` is the entry of `SendIntegralMessage`: length 0 is
  refused, otherwise `unWrite` and `nChunks = len / LocalChunkSize` are set
  up. `Submit` is any caller sending any message; both runs drive the
  encoder through `PlayerSend` instead.
- `Iterate` is one pass of the `for` loop: the exit test (`LoopEnds`), the
  header (fmt 0 first, fmt 3 after), the bytes `[start, end)` (`ChunkEnd`)
  and `unWrite = messageLength - chunkSize`.
- `RefFrom` / `RefChunks` (RECURSIVE) are the chunking of the RTMP
  specification, used only by `MatchesReference`.

### PlayerSend

`PlayerSend` extends `ChunkEncode` with the player's `basicTimestamp`,
`basicAudioTimestamp`, `basicVideoTimestamp` and whether it still plays.
`SendAvPacket` is one dequeued audio or video packet through
`sendAvPacket`: csid 4 or 6 by type (`CsidOf`), a timestamp behind the base
raised to base + 40 (`Rewritten`, uint32 addition as `U32`),
`updateBaseTimestamp` (the base is the larger of the last audio and video
timestamps), then `SubmitMsg`; an empty payload's error ends the player.
`Iterate` is the encoder's loop, as in `ChunkEncode`. TLC's integers are
signed 32-bit, so the uint32 width is the constant `TsModulus`, 2^25 in the
runs: the smallest power of two above 0xFFFFFF. Metadata also passes through
`sendAvPacket`, but its payload is rewritten by the external AMF library, so
it is not an input.

### ChunkDecode

The client is not server code: it is the environment, a conforming RTMP
client. `ClientStart` begins a message on a chunk stream with any header
compression the specification allows against that stream's last header
(`LegalFmts`: fmt 1 keeps the stream id, fmt 2 also length and type, fmt 3
also the delta), writes the extended timestamp when a value needs it, and
applies its own SetChunkSize. `ClientContinue` writes the next fmt-3 chunk
of a message in progress, so chunks of two streams interleave.

The server's state is the read position in the wire, `RemoteChunkSize`
(`rchunk`), the `chunk.Stream` of every csid (`strm`: `FirstChunk`,
`HasRead`, `TimestampDelta`, `IsExtendedTimestamp`, the header fields and the
data read so far), the csid being read, the control point (`hdr`, `body`, or
the stops `error`, `corrupt`, `crashed`) and the messages returned.

- `ServerReadHeader` is one chunk header: `readChunkBasicHeader`,
  `NewStream` for a new csid (above 65559 it fails, the error is ignored and
  the nil stream is dereferenced), the protocol errors of
  `readChunkMessageHeader` (`HeaderError`), the field updates (`Parsed`), and
  the extended-timestamp Peek/Discard with its heuristic.
- `ServerReadBody` is `readChunkMessageBody`: read `min(remaining,
  RemoteChunkSize)` bytes. A complete message is returned, SetChunkSize is
  applied (`RemoteChunkSizeAfter`, the dispatch of `onRecvIntegralMessage`)
  and `Stream.Reset` clears `HasRead`.

`MessagesEventuallyReturned` is a liveness property. Every message the
client has written completely is returned eventually: the decoder never waits
for bytes the client has already written.

### Handshake

`conn.serve` calls `conn.handshake`, which calls `WithClient`. `WithClient`
starts a goroutine that runs `serverHandshke` and sends its result on a
channel of capacity 1. It then selects between that channel and a timer. On
an error, `serve` returns and its deferred `Close` closes the socket.

- The goroutine is `ReadC0C1` (the read, the version check, and building
  S0S1S2 in `BuildS`), `WriteS`, `ReadC2` (not checked) and `SendResult`.
  A read fails once `serve` has closed the socket, or when the client has
  closed it and nothing is left to read (`ReadFails`). After the client has
  closed, the write of S0S1S2 may fail or succeed with the bytes lost.
- `HandshakeResult` is the select taking the result, with `conn.handshake`'s
  `handshakeErr` and `handshakeStatus`. `HandshakeTimeout` is the timer case.
  Both close the socket on an error.
- Data are abstracted to what the digest scheme tells apart. An HMAC is the
  term `<<"hmac", key, data>>`, so two digests are equal only when made with
  the same key over the same data. The offset bytes of C1 that
  `complexHandshakeCalcDigestPos` adds up are represented by the base (772 or
  8) whose position holds the digest. `complexHandshakeParseC1` tries 772
  first, then 8. The server's S1 carries its digest at base 8, and S2 is keyed
  by the HMAC of the client's digest under `hsServerFullKey`. The plain path
  sends S1 as the zero bytes of the fresh array (`PlainS1`), because C2 is
  copied before it is read, and S2 as a copy of C1.
- The client is the environment. It sends one C0C1 of five kinds: `simple`,
  `complex772`, `complex8`, `nodigest` (a non-zero version and no digest) and
  `badversion` (C0 = 6). It checks S0S1S2 as RTMP clients do (`ClientAccepts`:
  a digest client verifies S1's digest and S2's), then answers with C2 or
  closes. It may also leave, or stop, at any point.

### Serve

`conn.serve` runs `conn.handshake` and, when it returns nil,
`recvChunkStream`, on one goroutine. `Serve` instantiates `Handshake` (`HS`)
and `ConnState` (`CS`), whose variables are disjoint, and composes them in
sequence: a step is a handshake step with the connection's variables
unchanged (`HandshakeStep`), or, once `WithClient` returned nil (`Serving`,
`wc = "serving"`), a step of `ConnState` with the handshake's variables
unchanged (`ConnStep`). Each part keeps its own fairness. One client plays
both parts: it sends its first command after C2.

After the handoff nothing of the handshake changes, and no step of the
command loop reads it. The cfg's `VIEW ServeView` therefore drops the
handshake's variables from serving states. The three client kinds that
complete the handshake then share one copy of the command loop's states,
instead of three copies that differ only in what the finished handshake left
behind. This rests on the handoff: `WithClient` returns nil only with the
goroutine's result, sent after C2 was read, and in a serving state no step
of `Handshake` is enabled (checked once with `Serving => ~ENABLED
HandshakeStep` under `MCServe.cfg`).

### ConnState

A client message is one of fifteen kinds (`AllKinds`): `connect`, `connect`
without app or tcUrl, `connect` with a transaction id other than 1,
`createStream`, `publish` and `play` with or without a stream name, media,
media whose tag header does not decode, data, data whose AMF does not
decode (`handleDataMessage`, `DataFails`), a command whose AMF does not
decode (`handleCommandMessage`, `CommandFails`), a control message or ignored
command, and end of file. AMF decoding is abstracted to this choice. The acknowledgement handlers have
empty bodies in the code and are not modelled. A reply
or media message is written as its header buffer and its payload buffer, the
two `Write`s of `SendIntegralMessage` for a one-chunk message.

State: the connection goroutine's phase `pc` (`loop` is `recvChunkStream`,
then `publish`, `play` or `closed`), the command fields (`clientType`,
app/tcUrl set, stream name set, `c.sess` set), the wall clock against
`PlayorPublishTimeout` (`late`), `writeBuf` (`wbuf`), the socket (`wire`),
the header pool (`pool`), and per player goroutine its control point, the
buffers it still has to write, the `writeBuf` it read for its append, and
its Flush's counts.

- `ConnRecv` is one pass of `recvChunkStream` or of `publishCycle`'s loop:
  `onRecvIntegralMessage`'s errors (`Fails`), the handler's field updates
  (`Handled`), its replies with the Flush and byte check (`ConnRespond`,
  `FlushMismatch`), and the switch on `clientType` (`AfterMessage`): the
  timeout test, and `createSession` or `addSessionPlayer`, whose answer is a
  choice (the broker is `Broker`'s subject).
- While playing, `RxRecv` is the receive goroutine reading and handling a
  message, `MainDequeue` and `MainErr` the main loop's dequeue and its
  `select` on the error channel, `WLoad`/`WStore` the read and the store of
  `c.writeBuf = append(c.writeBuf, p)`, and `FlushStart`/`Writev`/`Consume`
  `Flush` with `net.Buffers.WriteTo`'s loop (writev of the buffer as it is,
  then consume of what was written from the buffer as it is then, until it is
  empty). The caller's byte check compares what Flush wrote with what it
  wrote itself (`AfterFlush`).
- The client (`ClientSend`) and the clock (`Tick`) are the environment.

## Runs

| Run | Config | Expect | What it shows |
|---|---|---|---|
| fanout | `MCFanout.cfg` | pass | Each player receives the live packets after its registration in order, without gap or duplicate (`LiveFramesContiguous`). A player that joins after the headers were cached gets them before its first frame (`HeadersBeforeFrames`, spec 8.4), with the cache decided by the FLV decoder on AVC payloads: a sequence header, a key frame, and a payload too short to decode. The fan-out implements `LiveStream` (`FanoutRefinesLiveStream`): a packet goes into a player's channel only while it is registered and not closed, and it is the next one of the stream after the ones it already has. |
| fanout_deadlock | `MCFanoutDeadlock.cfg` | violation | `LeavingPlayerReleased`: the publisher blocks on a full queue holding the player's mutex; the player leaves and waits for that mutex forever. |
| broker | `MCBroker.cfg` | violation | `GraceRemoval` (spec 4.6): a publisher resumes the session before the timer fires and then leaves again; `checkOffline` has taken its one signal and the timer has returned, so the key keeps a session without publisher for ever. |
| broker_offline_block | `MCBrokerOfflineBlock.cfg` | violation | Three publisher connections on one key: after a resume and a second disconnect, one more disconnect blocks for ever in `softDelSession`'s send on the one-slot `offline` channel, which `checkOffline` drains only once (`PublisherGoroutineEnds`, `broker.go` 67). |
| broker_orphan | `MCBrokerOrphan.cfg` | violation | `TimerSparesLiveSession`: a resume right after the timer's nil test; the timer still evicts the players and deletes the key of a live session. |
| chunkencode | `MCChunkEncode.cfg` | pass | A player sends three audio or video packets (lengths 0..5 with chunk size 2, timestamps 0, 40 and 0xFFFFFF). Every payload byte of every message is written once and in order (`PayloadOnceInOrder`), and the timestamps sent never decrease across audio and video (`AvTimestampsMonotonic`, the aim stated at `player.go` 231). |
| chunkencode_split | `MCChunkEncodeSplit.cfg` | violation | `MatchesReference`: a payload of twice the chunk size gets a third, empty fmt-3 chunk, because `unWrite` is not cumulative. |
| chunkdecode | `MCChunkDecode.cfg` | pass | Two media chunk streams interleaved chunk by chunk, every legal header compression, and SetChunkSize changes (1 and 3 against a default of 2) are decoded without a framing error (`FramingKept`), into exactly the messages sent with their bytes, once each, and all of them (`MessagesIntact`). Every message written completely is eventually returned (`MessagesEventuallyReturned`, under the fairness of the server's loop). |
| chunkdecode_ext | `MCChunkDecodeExt.cfg` | violation | `FramingKept`: two fmt-0 messages with different extended timestamps on one csid; the second one's 4 bytes are not discarded, because `FirstChunk` is set only for the stream's first message, and are read as payload. |
| chunkdecode_csid | `MCChunkDecodeCsid.cfg` | violation | `FramingKept`: one chunk on csid 65560, which a 3-byte basic header encodes and spec 3 allows. `NewStream` rejects it, `RecvIntegralMessage` ignores the error and dereferences the nil stream: the goroutine panics, and with it the process. |
| serve | `MCServe.cfg` | pass | A whole connection, handshake then command loop. An RTMP client of any of the five kinds never rejects the server's S0S1S2 (`ConformingClientAccepts`). Whatever the client does and whichever case wins the select, the handshake goroutine ends and `serve` leaves `WithClient` (`HandshakeGoroutineEnds`): the channel has a buffer and `serve` closes the socket. Both are checked over connections that go on to every sequence of three client messages of all fifteen kinds, with the timeout at any point and either broker answer: this run is also what fires every action of `ConnState`, whose one property is the connstate_race run. |
| connstate_race | `MCConnStateRace.cfg` | violation | `WireFramed` (spec 4.4, single writer): a player sends `play` again while the main loop writes a media packet; the receive goroutine's append overwrites the main loop's, and the socket carries a media header followed by a reply header. |

Each property of a passing run has a fault variant in its module, named in
`PROJECT.json` under `mutants` (for example `BuffSendDropFull`, the drop-on-full
policy of the spec, which breaks `LiveFramesContiguous`). TLC finds the property
violated when the variant replaces the code's definition. This shows the
property depends on the behaviour it is about.

### Bounds

- **fanout**: two players (model values, symmetric), queue capacity 1,
  three packets, payloads an AVC sequence header, an AVC key frame and a
  one-byte video payload. This is about 1.3 million states and takes 2 minutes.
  The undecodable payload adds no state: it leaves the publisher where
  `PubStop` does.
  - A capacity of 1 makes the full-queue block happen with the second packet.
  - Three packets let a player join between the header and a frame, and let a
    second frame meet a full queue.
  - The key frame is the payload a wrong `IsSequenceHeader` would cache.
  - Metadata and AAC headers take the same path through the cache as the
    video header (`CacheAfter`, one `SendCachedStep` each), so they add
    states but no behaviour. A non-AVC key frame is left out: it breaks
    `HeadersBeforeFrames` (below).
- **broker**: two publisher connections, one player, two sessions: the
  second connection is the resume.
- **broker_offline_block**: three publisher connections, two players and
  two sessions. With two connections a session gets at most two offline
  sends, one taken by `checkOffline` and one held by the buffer; the third
  connection makes the third send.
- **chunkencode**: chunk size 2, lengths 0..5 and three packets: one, two
  and three chunks, the exact multiples 2 and 4, and the refused empty
  message. Three packets with timestamps 0, 40 and 0xFFFFFF let audio and
  video overtake each other, rewrite a timestamp twice, and push a rewritten
  one past the 3-byte field; about 79,000 states.
- **chunkdecode**: chunk streams 4 and 6 plus the control stream 2, lengths
  1..3, three messages, default chunk size 2 and SetChunkSize 1 or 3. Three
  messages are enough for two interleaved streams with a SetChunkSize between
  or inside them, and for fmt 1, 2 and 3 headers; about 130,000 states.
  Timestamps 0 and 40 keep the timestamp arithmetic out of this run: the
  decoder's timestamp bugs are listed under hazards.
- **serve**: the five handshake client kinds; then all fifteen kinds, three messages, one packet for the
  player, at most one message in flight (`MaxInbox`) and one message to a
  playing connection (`MaxPlayMsgs`); about 920,000 states (2.8 million
  without the view), under two minutes with the liveness check. Three messages
  reach connect, createStream, publish and every failure in between; one
  message to a player is enough for its receive goroutine to write six
  replies while the main loop writes a packet. The client sends only while a
  server goroutine waits to read (`ReaderWaiting`): a message waiting in the
  socket changes no server state, so this removes only orderings of the
  client's own steps. The cfg's `CONSTRAINT WireFramed` stops exploring a
  behaviour once the socket is misframed. The race itself is the
  connstate_race run. Without
  the constraint the corrupted buffers multiply the states beyond reach.
  In the handshake, the client may stop or leave before or after each of its
  steps, and the timer may fire at any point. The handshake has no loop, so
  this covers every ordering. The constraint cuts only serving states, after
  the handshake, so it cannot hide a violation of `HandshakeGoroutineEnds`.
- The violation runs use the smallest sizes that exhibit them.

### Fairness

Goroutines and timers are weakly fair. The Go scheduler runs every runnable
goroutine, and `time.AfterFunc` fires. Clients are not fair: a publisher may
never send again, never disconnect, or never come back, and a player may
never join.

- In `Fanout`, the publisher's lock and send steps, each player's loop
  steps, the wall clock and the grace timer are fair. Receiving a packet,
  stopping, joining and a client's socket error are not.
- In `ChunkEncode` and `ChunkDecode`, the server's loop steps are fair: the
  connection's goroutine reads what has arrived. The client is not fair.
- In `ConnState`, the connection goroutine's read, the receive goroutine's
  read, the main loop's error exit, and every step inside a `Write` or a
  `Flush` are fair. The client, the clock and the packets the main loop
  dequeues are not.
- In `Handshake`, the goroutine's steps, the select taking the result, and
  the timer are fair. `time.After` fires, and the runtime runs the goroutine.
  The client is not fair.
- `Serve` keeps the fairness of `Handshake` for the handshake's steps and
  that of `ConnState` for the command loop's, each conjoined with the other
  part's variables unchanged.
- In `Broker`, a publisher goroutine's internal steps (adopt, create,
  soft-delete, signal) and a session's watchdog and timer steps are fair. A
  player whose queue was closed leaves (fair). `CreateLoad` (a publish
  arriving), `Disconnect` and `AddLoad` are client events and are not fair.

All configs say `CHECK_DEADLOCK FALSE`: the server legitimately becomes idle
when every client is gone or the bound on packets or sessions is reached, and a
handshake ends once its goroutine has exited. The
code's one real deadlock is stated as the liveness property
`LeavingPlayerReleased` and found by the `fanout_deadlock` run.

## Found while modelling, not kept as runs

The project keeps to twelve runs, each asking a distinct question. The handshake and the command loop share one run, `serve`, which freed a run for the csid crash. The other disagreements TLC found while modelling are listed as
hazards in `PROJECT.json`, with the line and the scenario:

- `doPlaying` drops the last batch of the merged-write buffer when the queue
  closes (`player.go` 72).
- Two publishes of one key both create and count a session (`broker.go` 26).
- `IsSequenceHeader` holds for any key frame of a non-AVC codec
  (`tag.go` 49): with an H.263 key frame among the payloads,
  `HeadersBeforeFrames` fails, because that frame replaces the cached video
  sequence header.
- `basicTimestamp + 40` wraps around (`player.go` 131): with a packet 10
  below the modulus, `AvTimestampsMonotonic` fails, as the next packet behind
  it is sent with a timestamp of 30.
- A one-byte AAC audio payload panics the process (`tag.go` 111);
  `Fanout` assumes no such payload.
- A player stored into a session after the timer's cleanup is never closed
  (`broker.go` 94).
- The receive goroutine of a player whose main loop returned through the
  closed queue stays blocked on its error channel for ever (`player.go` 55):
  in `Fanout`, a player gone with `rxErr` still set is reachable.
- The encoder never writes the extended timestamp (`connection.go` 461).
- The decoder gives a new message sent with a fmt-3 header the previous
  timestamp (`connection.go` 302). A refinement of an abstract channel that
  delivers each message with the timestamp the client gave it fails on this
  as soon as the timestamps include a constant delta (0, 40, 80), so the
  decoder has no refinement property; `MessagesIntact` compares everything
  but the timestamp. After an extended timestamp,
  `IsExtendedTimestamp` stays set and later small timestamps are ignored
  (`connection.go` 252).
- `Serve` returns on the first `Accept` error, including a temporary one, and
  `main` then returns (`server.go` 49). One failed accept under load ends the
  process and every live session. The acceptor is not modelled.
- `publish` and `play` are accepted without a preceding `connect`
  (`server_conn.go` 392). Spec 4.5 has the phase Connected before Streaming. Such a player
  is never sent SetChunkSize, which only `connect`'s reply carries
  (`server_conn.go` 314). The server still splits at `LocalChunkSize`, and
  the client reads with its default of 128.
- The plain handshake sends S1 as zero bytes (`handshake_server.go` 74):
  `copy(s1, c2)` runs before C2 is read. Spec 4.3 says S1 echoes C2. No server
  can echo a C2 that arrives after S1, so this is not a run. RTMP clients echo
  S1 in C2 and do not check it, so the `serve` run includes the plain
  client.

## Not modelled (yet) and the plan

Order of the next modules:

1. **ConnState** composed with `Broker` instead of the broker's answer as a
   choice. The acknowledgement handlers (`ResponseAcknowledgementMessage`,
   `HandleAcknowledgementMessage`, `HandleWindowAcknowledgementSizeMessage`)
   are empty or return nil in the code, so they change no state and are the
   `control` kind.

Left out, with reasons:

- The acceptor, configuration and logging (`server.go`, `config.go`,
  `logger.go`, `cmd/main.go`) are I/O and setup, with no shared state beyond
  the broker.
- The AMF codec is an external library.
- `research/writev` is a stand-alone benchmark.
