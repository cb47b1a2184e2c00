------------------------------ MODULE Fanout ------------------------------
(***************************************************************************)
(* The fan-out engine of one live session (src/pkg/rtmp/server/session.go  *)
(* and player.go).  One publisher goroutine receives media and data        *)
(* messages, caches sequence headers and metadata, and pushes every packet *)
(* into the bounded queue (a buffered Go channel) of each registered       *)
(* player, under that player's bufferMutex.  Each player goroutine first   *)
(* sends the cached headers, then loops: flush the merged-write buffer if  *)
(* the wait interval elapsed, block on a dequeue, append the packet to the *)
(* merged-write buffer.  A player leaves when its receive side-goroutine   *)
(* reports an error, when a flush fails or when its queue is closed; on    *)
(* leaving it closes its queue (closePacketBuffer, under the mutex).  When *)
(* the publisher is gone the grace timer closes every player's queue.      *)
(*                                                                         *)
(* Packets are records [id, tag]: tag is the message type and the leading *)
(* bytes of the payload, classified by the FLV header decoder of module    *)
(* FlvTag; the rest of the payload is abstracted away.                     *)
(***************************************************************************)
EXTENDS Naturals, Sequences, FiniteSets, SequencesExt, FlvTag

CONSTANTS
    Players,      \* player connections of the session (model values)
    QueueCap,     \* capacity of packetBuffer (150 in broker.go)
    MaxPackets,   \* bound on the number of packets the publisher receives
    Tags,         \* payloads the publisher may send ([type, data], FlvTag)
    NoPacket      \* model value: an empty cache slot

ASSUME /\ QueueCap \in Nat \ {0}
       /\ MaxPackets \in Nat
       /\ \A t \in Tags : t.type \in {AudioType, VideoType, MetaData}
       \* A one-byte AAC payload panics the process (decodeAudioHeader), which
       \* ends every goroutine at once; it is not an input of this module.
       /\ \A t \in Tags : DecodeHeader(t).status # "panic"

VARIABLES
    pubPc,      \* publisher goroutine: "recv", "lock", "send", "done"
    pubPending, \* players fanOut has still to visit for the current packet
    pubTarget,  \* player whose mutex the publisher takes / holds
    published,  \* packets the publisher has received, in order
    cache,      \* [kind -> packet]: the session's cached packets
    queue,      \* [player -> Seq(packet)]: packetBuffer
    closed,     \* [player -> BOOLEAN]: bufferClosed
    ppc,        \* [player -> control point of the player goroutine]
    wbuf,       \* [player -> entries appended to Connection.writeBuf]
    wire,       \* [player -> entries flushed to the client socket]
    elapsed,    \* [player -> BOOLEAN]: time.Since(lastMwTime) >= mwWaitTime
    rxErr,      \* [player -> BOOLEAN]: receive goroutine blocked in ch <- err
    expired,    \* the grace timer cleaned the session up
    joinedAt,   \* [player -> Len(published) when the player registered]
    live        \* history: [player -> packets buffPackets put in its queue]

vars == <<pubPc, pubPending, pubTarget, published, cache, queue, closed,
          ppc, wbuf, wire, elapsed, rxErr, expired, joinedAt, live>>
playerVars == <<ppc, wbuf, wire, elapsed, rxErr, joinedAt>>

Packet == [id : 1..MaxPackets, tag : Tags]
Entry  == [pkt : Packet, via : {"cache", "queue"}]
PlayerPcs == {"idle", "sendMeta", "sendASH", "sendVSH", "loop", "deq",
              "closing", "gone"}

\* Players in the session's players map.
Registered == {p \in Players : ppc[p] \notin {"idle", "gone"}}

TypeOK ==
    /\ pubPc \in {"recv", "lock", "send", "done"}
    /\ pubPending \subseteq Players
    /\ pubTarget \in Players \cup {NoPacket}
    /\ published \in Seq(Packet) /\ Len(published) <= MaxPackets
    /\ cache \in [{"meta", "aSH", "vSH"} -> Packet \cup {NoPacket}]
    /\ queue \in [Players -> Seq(Packet)]
    /\ \A p \in Players : Len(queue[p]) <= QueueCap
    /\ closed \in [Players -> BOOLEAN]
    /\ ppc \in [Players -> PlayerPcs]
    /\ wbuf \in [Players -> Seq(Entry)]
    /\ wire \in [Players -> Seq(Entry)]
    /\ elapsed \in [Players -> BOOLEAN]
    /\ rxErr \in [Players -> BOOLEAN]
    /\ expired \in BOOLEAN
    /\ joinedAt \in [Players -> 0..MaxPackets]
    /\ live \in [Players -> Seq(Packet)]

Init ==
    /\ pubPc = "recv"
    /\ pubPending = {}
    /\ pubTarget = NoPacket
    /\ published = <<>>
    /\ cache = [k \in {"meta", "aSH", "vSH"} |-> NoPacket]
    /\ queue = [p \in Players |-> <<>>]
    /\ closed = [p \in Players |-> FALSE]
    /\ ppc = [p \in Players |-> "idle"]
    /\ wbuf = [p \in Players |-> <<>>]
    /\ wire = [p \in Players |-> <<>>]
    /\ elapsed = [p \in Players |-> TRUE]   \* lastMwTime is the zero time
    /\ rxErr = [p \in Players |-> FALSE]
    /\ expired = FALSE
    /\ joinedAt = [p \in Players |-> 0]
    /\ live = [p \in Players |-> <<>>]

-----------------------------------------------------------------------------
(* Publisher goroutine: session.onRecvAVMessage / onRecvDataMessage.        *)

\* The cache after receiving a packet: it replaces the slot CacheSlot picks
\* (metaData, audioSeqHeader or videoSeqHeader); other frames leave the
\* cache alone (no GOP cache).
CacheAfter(c, pkt) ==
    LET slot == CacheSlot(pkt.tag) IN
    IF slot # "none" THEN [c EXCEPT ![slot] = pkt] ELSE c

\* onRecvAVMessage returns the error of DecodeHeader (a video payload of
\* fewer than 5 bytes, an empty audio payload); publishCycle then returns.
DecodeFails(t) == t.type # MetaData /\ DecodeHeader(t).status = "err"

\* Receive one integral audio, video or data message.  If its header does
\* not decode the publisher's connection ends; otherwise cache it and start
\* fanOut: players.Range visits the players registered now.
PubRecv ==
    /\ pubPc = "recv"
    /\ Len(published) < MaxPackets
    /\ \E t \in Tags :
         IF DecodeFails(t)
         THEN /\ pubPc' = "done"
              /\ UNCHANGED <<pubPending, published, cache>>
         ELSE LET pkt == [id |-> Len(published) + 1, tag |-> t] IN
              /\ published' = Append(published, pkt)
              /\ cache' = CacheAfter(cache, pkt)
              /\ pubPending' = Registered
              /\ pubPc' = IF Registered = {} THEN "recv" ELSE "lock"
    /\ UNCHANGED <<pubTarget, queue, closed, expired, playerVars, live>>

\* fanOut visits the next player: buffPackets locks its bufferMutex.  The
\* mutex is free unless the player is inside closePacketBuffer, which is one
\* step here, so the lock is always available to the publisher.
PubLock ==
    /\ pubPc = "lock"
    /\ \E p \in pubPending :
         /\ pubTarget' = p
         /\ pubPending' = pubPending \ {p}
    /\ pubPc' = "send"
    /\ UNCHANGED <<published, cache, queue, closed, expired, playerVars, live>>

\* p.packetBuffer <- avPacket: the packet fanOut is delivering goes into
\* p's queue (and its history).
Enqueue(p) ==
    LET pkt == published[Len(published)] IN
    /\ queue' = [queue EXCEPT ![p] = Append(@, pkt)]
    /\ live' = [live EXCEPT ![p] = Append(@, pkt)]

\* Fault variants of BuffSend: the packet is dropped when the queue is
\* full (the drop policy of the TODO), or the capacity is not respected.
BuffSendDropFull ==
    /\ pubPc = "send"
    /\ LET p == pubTarget IN
       IF closed[p] \/ Len(queue[p]) >= QueueCap THEN UNCHANGED <<queue, live>>
       ELSE Enqueue(p)
    /\ pubTarget' = NoPacket
    /\ pubPc' = IF pubPending = {} THEN "recv" ELSE "lock"
    /\ UNCHANGED <<pubPending, published, cache, closed, expired, playerVars>>

BuffSendUnbounded ==
    /\ pubPc = "send"
    /\ LET p == pubTarget IN
       IF closed[p] THEN UNCHANGED <<queue, live>> ELSE Enqueue(p)
    /\ pubTarget' = NoPacket
    /\ pubPc' = IF pubPending = {} THEN "recv" ELSE "lock"
    /\ UNCHANGED <<pubPending, published, cache, closed, expired, playerVars>>

\* buffPackets, after taking the mutex: return if the buffer was closed,
\* otherwise send on the channel, which blocks while the queue is full (the
\* mutex stays held); then unlock and go on with the Range.
BuffSend ==
    /\ pubPc = "send"
    /\ LET p == pubTarget IN
       /\ closed[p] \/ Len(queue[p]) < QueueCap
       /\ IF closed[p] THEN UNCHANGED <<queue, live>> ELSE Enqueue(p)
    /\ pubTarget' = NoPacket
    /\ pubPc' = IF pubPending = {} THEN "recv" ELSE "lock"
    /\ UNCHANGED <<pubPending, published, cache, closed, expired, playerVars>>

\* The publisher's connection ends (read error or EOF) between two messages;
\* publishCycle returns and softDelSession starts the grace timer.
PubStop ==
    /\ pubPc = "recv"
    /\ pubPc' = "done"
    /\ UNCHANGED <<pubPending, pubTarget, published, cache, queue, closed,
                   expired, playerVars, live>>

-----------------------------------------------------------------------------
(* Player goroutine: broker.addSessionPlayer, then player.doPlaying.        *)

\* addSessionPlayer: the session is still in the broker's map; the new
\* player is stored in its players map.
Join(p) ==
    /\ ppc[p] = "idle"
    /\ ~expired
    /\ ppc' = [ppc EXCEPT ![p] = "sendMeta"]
    /\ joinedAt' = [joinedAt EXCEPT ![p] = Len(published)]
    /\ UNCHANGED <<pubPc, pubPending, pubTarget, published, cache, queue,
                   closed, expired, wbuf, wire, elapsed, rxErr, live>>

\* sendAvMetaPacket: each cached packet that is set is sent (appended to
\* the merged-write buffer), metadata first, then audio, then video header.
SendCachedStep(p, pc, k, next) ==
    /\ ppc[p] = pc
    /\ wbuf' = IF cache[k] = NoPacket THEN wbuf
               ELSE [wbuf EXCEPT ![p] = Append(@, [pkt |-> cache[k], via |-> "cache"])]
    /\ ppc' = [ppc EXCEPT ![p] = next]
    /\ UNCHANGED <<pubPc, pubPending, pubTarget, published, cache, queue,
                   closed, expired, wire, elapsed, rxErr, joinedAt, live>>

SendCached(p) ==
    \/ SendCachedStep(p, "sendMeta", "meta", "sendASH")
    \/ SendCachedStep(p, "sendASH", "aSH", "sendVSH")
    \/ SendCachedStep(p, "sendVSH", "vSH", "loop")

\* The receive side-goroutine, started after sendAvMetaPacket, fails to read
\* from the client and blocks on the unbuffered ch <- err.
RxError(p) ==
    /\ ppc[p] \in {"loop", "deq"}
    /\ ~rxErr[p]
    /\ rxErr' = [rxErr EXCEPT ![p] = TRUE]
    /\ UNCHANGED <<pubPc, pubPending, pubTarget, published, cache, queue,
                   closed, expired, ppc, wbuf, wire, elapsed, joinedAt, live>>

\* Top of the main loop: select picks the error if one is waiting; doPlaying
\* returns and its deferred delPlayer runs.
ErrExit(p) ==
    /\ ppc[p] = "loop"
    /\ rxErr[p]
    /\ rxErr' = [rxErr EXCEPT ![p] = FALSE]   \* the receive goroutine's send completes
    /\ ppc' = [ppc EXCEPT ![p] = "closing"]
    /\ UNCHANGED <<pubPc, pubPending, pubTarget, published, cache, queue,
                   closed, expired, wbuf, wire, elapsed, joinedAt, live>>

\* Otherwise (select default) flushAvPacket: nothing to do unless messages
\* are buffered and mwWaitTime has passed since the last flush; a flush
\* writes the whole buffer or fails, and doPlaying returns on failure.
Flush(p) ==
    /\ ppc[p] = "loop"
    /\ ~rxErr[p]
    /\ IF wbuf[p] # <<>> /\ elapsed[p]
       THEN \/ /\ wire' = [wire EXCEPT ![p] = @ \o wbuf[p]]
               /\ wbuf' = [wbuf EXCEPT ![p] = <<>>]
               /\ elapsed' = [elapsed EXCEPT ![p] = FALSE]
               /\ ppc' = [ppc EXCEPT ![p] = "deq"]
            \/ /\ ppc' = [ppc EXCEPT ![p] = "closing"]
               /\ UNCHANGED <<wire, wbuf, elapsed>>
       ELSE /\ ppc' = [ppc EXCEPT ![p] = "deq"]
            /\ UNCHANGED <<wire, wbuf, elapsed>>
    /\ UNCHANGED <<pubPc, pubPending, pubTarget, published, cache, queue,
                   closed, expired, rxErr, joinedAt, live>>

\* <-p.packetBuffer blocks until a packet is queued; sendAvPacket appends it
\* to the merged-write buffer and the loop starts over.
Dequeue(p) ==
    /\ ppc[p] = "deq"
    /\ queue[p] # <<>>
    /\ wbuf' = [wbuf EXCEPT ![p] = Append(@, [pkt |-> Head(queue[p]), via |-> "queue"])]
    /\ queue' = [queue EXCEPT ![p] = Tail(@)]
    /\ ppc' = [ppc EXCEPT ![p] = "loop"]
    /\ UNCHANGED <<pubPc, pubPending, pubTarget, published, cache, closed,
                   expired, wire, elapsed, rxErr, joinedAt, live>>

\* A closed and drained channel yields (nil, false): doPlaying returns
\* "channel closed by writer" without flushing what is buffered.
DequeueClosed(p) ==
    /\ ppc[p] = "deq"
    /\ queue[p] = <<>>
    /\ closed[p]
    /\ ppc' = [ppc EXCEPT ![p] = "closing"]
    /\ UNCHANGED <<pubPc, pubPending, pubTarget, published, cache, queue,
                   closed, expired, wbuf, wire, elapsed, rxErr, joinedAt, live>>

\* Fault variant of Leave: the player is removed from the map without
\* closePacketBuffer.
LeaveUnclosed(p) ==
    /\ ppc[p] = "closing"
    /\ pubTarget # p \/ pubPc # "send"
    /\ ppc' = [ppc EXCEPT ![p] = "gone"]
    /\ UNCHANGED <<pubPc, pubPending, pubTarget, published, cache, queue,
                   closed, expired, wbuf, wire, elapsed, rxErr, joinedAt, live>>

\* Deferred session.delPlayer: closePacketBuffer locks the player's mutex
\* (it waits while the publisher holds it), closes the channel unless it is
\* already closed, unlocks; the player is deleted from the players map.
Leave(p) ==
    /\ ppc[p] = "closing"
    /\ pubTarget # p \/ pubPc # "send"
    /\ closed' = [closed EXCEPT ![p] = TRUE]
    /\ ppc' = [ppc EXCEPT ![p] = "gone"]
    /\ UNCHANGED <<pubPc, pubPending, pubTarget, published, cache, queue,
                   expired, wbuf, wire, elapsed, rxErr, joinedAt, live>>

\* Wall-clock time passes: mwWaitTime elapses since the last flush.  Only
\* flushAvPacket reads the clock, at the top of the loop and only with
\* packets buffered, so the interval is taken to elapse there.
Tick(p) ==
    /\ ~elapsed[p]
    /\ ppc[p] = "loop"
    /\ wbuf[p] # <<>>
    /\ elapsed' = [elapsed EXCEPT ![p] = TRUE]
    /\ UNCHANGED <<pubPc, pubPending, pubTarget, published, cache, queue,
                   closed, expired, ppc, wbuf, wire, rxErr, joinedAt, live>>

-----------------------------------------------------------------------------
(* Grace timer of session.checkOffline, the publisher not having returned:  *)
(* delPlayer on every player in the map, then broker.delSession.            *)
Expire ==
    /\ pubPc = "done"
    /\ ~expired
    /\ expired' = TRUE
    /\ closed' = [p \in Players |-> closed[p] \/ p \in Registered]
    /\ UNCHANGED <<pubPc, pubPending, pubTarget, published, cache, queue,
                   playerVars, live>>

-----------------------------------------------------------------------------
PlayerStep(p) ==
    \/ SendCached(p) \/ ErrExit(p) \/ Flush(p) \/ Dequeue(p)
    \/ DequeueClosed(p) \/ Leave(p)

Next ==
    \/ PubRecv \/ PubLock \/ BuffSend \/ PubStop \/ Expire
    \/ \E p \in Players : Join(p) \/ RxError(p) \/ Tick(p) \/ PlayerStep(p)

\* The goroutines and the timer are scheduled fairly; the clients (what the
\* publisher sends and when it stops, when players join, when a client's
\* socket breaks) are not.
Fairness ==
    /\ WF_vars(PubLock) /\ WF_vars(BuffSend) /\ WF_vars(Expire)
    /\ \A p \in Players : WF_vars(PlayerStep(p)) /\ WF_vars(Tick(p))

Spec == Init /\ [][Next]_vars /\ Fairness

-----------------------------------------------------------------------------
(* Properties                                                               *)

\* What player p has been sent, in order: flushed, then still buffered.
Sent(p) == wire[p] \o wbuf[p]

\* Ids of the packets p got through its queue (not from the cache).
QueuedIds(p) ==
    LET s == SelectSeq(Sent(p), LAMBDA e : e.via = "queue")
    IN [i \in 1..Len(s) |-> s[i].pkt.id]

\* Fan-out never loses, duplicates or reorders a packet for a player that
\* stays registered: the packets a player gets through its queue are the
\* publisher's packets from the one after its registration on, without a
\* gap.  buffPackets blocks on a full queue instead of dropping (player.go
\* buffPackets), and fanOut visits every registered player per packet.
LiveFramesContiguous ==
    \A p \in Players :
        LET ids == QueuedIds(p) IN
        /\ ids # <<>> => ids[1] <= joinedAt[p] + 1
        /\ \A i \in 1..(Len(ids) - 1) : ids[i + 1] = ids[i] + 1

\* What a packet is by the FLV specification.
Kind(pkt) == SpecKind(pkt.tag)

\* Some packet of kind k was published among the first n.
PublishedBefore(n, k) == \E j \in 1..n : Kind(published[j]) = k

\* A player that joins after metadata and sequence headers were received
\* is sent a packet of each of those kinds before its first frame
\* (sendAvMetaPacket runs before the dequeue loop; spec section 8, 4).
HeadersBeforeFrames ==
    \A p \in Players : \A i \in 1..Len(Sent(p)) :
        Kind(Sent(p)[i].pkt) = "frame" =>
            \A k \in {"meta", "aSH", "vSH"} :
                PublishedBefore(joinedAt[p], k) =>
                    \E j \in 1..(i - 1) : Kind(Sent(p)[j].pkt) = k

\* A player that leaves (closePacketBuffer in the deferred delPlayer)
\* eventually finishes leaving.
LeavingPlayerReleased ==
    \A p \in Players : (ppc[p] = "closing") ~> (ppc[p] = "gone")

-----------------------------------------------------------------------------
(* Refinement of LiveStream.  A player is in the live stream from Join     *)
(* until its queue is closed or it has left the players map; what it has  *)
(* been given is the history of what buffPackets put in its queue; the    *)
(* stream is what the publisher received.                                 *)

StreamStatus(p) ==
    CASE ppc[p] = "idle"                -> "out"
      [] closed[p] \/ ppc[p] = "gone"   -> "left"
      [] OTHER                          -> "in"

Stream == INSTANCE LiveStream
            WITH Packets <- Packet, stream <- published,
                 status <- [p \in Players |-> StreamStatus(p)],
                 start <- joinedAt, got <- live

\* The fan-out implements the live stream: every packet fanOut puts into a
\* player's queue is the next packet of the stream after the ones that
\* player already has, and only players registered and not yet closed get
\* packets (buffPackets tests bufferClosed under the mutex, delPlayer closes
\* the buffer before the player is dropped, and the Range of fanOut sees
\* the players registered when the packet arrived).
\* (Stream!Spec, with the stuttering test first: most steps of the fan-out
\* are a player's own steps, which leave the live stream unchanged.)
FanoutRefinesLiveStream ==
    Stream!Init /\ [][UNCHANGED Stream!vars \/ Stream!Next]_Stream!vars

=============================================================================
