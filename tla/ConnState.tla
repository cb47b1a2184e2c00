----------------------------- MODULE ConnState -----------------------------
(***************************************************************************)
(* One RTMP connection after the handshake (src/pkg/rtmp/server/           *)
(* server_conn.go): the connection goroutine's recvChunkStream loop with   *)
(* onRecvIntegralMessage, the command handlers and their replies, the      *)
(* step into publishCycle or playCycle; and, once playing, the two         *)
(* goroutines of player.doPlaying that write to the same Connection: the   *)
(* main loop sending media and the receive goroutine answering commands.   *)
(*                                                                         *)
(* A client message is one of a few kinds; a reply or media message is    *)
(* written as its chunk header buffer and its payload buffer (one chunk    *)
(* each), as SendIntegralMessage appends them to writeBuf.                 *)
(***************************************************************************)
EXTENDS Naturals, Sequences, SequencesExt

CONSTANTS
    Kinds,       \* kinds of message the client may send
    MaxMsgs,     \* bound on the messages the client sends
    MaxPackets,  \* bound on the media packets a player dequeues
    MaxInbox,    \* bound on the messages sent and not yet read
    MaxPlayMsgs  \* bound on the messages sent to a playing connection

\* Message kinds.  connect carries app and tcUrl and transaction id 1;
\* connectNoApp lacks app or tcUrl; connectBadTxn has another transaction
\* id; publishNoStream and playNoStream lack the stream name; avBad is a
\* media message whose tag header does not decode; commandBad and dataBad
\* are a command and a data message whose AMF does not decode; control is a protocol
\* control message or an ignored command (releaseStream, FCPublish, ...);
\* eof is the client closing the socket.
AllKinds == {"connect", "connectNoApp", "connectBadTxn", "createStream",
             "publish", "publishNoStream", "play", "playNoStream",
             "av", "avBad", "data", "dataBad", "commandBad", "control", "eof"}

ASSUME Kinds \subseteq AllKinds

Goroutines == {"main", "rx"}   \* the player's main loop and receive goroutine

VARIABLES
    inbox,      \* messages the client sent that are not read yet
    nsent,      \* number of messages the client sent
    nplay,      \* number of them sent while the connection plays
    pc,         \* "loop" (recvChunkStream), "publish", "play", "closed"
    clientType, \* clientPublishOrPlayInfo.clientType: 0, 1 publish, 2 play
    connInfo,   \* clientConnectInfo.app and .tcUrl are both set
    stream,     \* clientPublishOrPlayInfo.stream is set
    late,       \* PlayorPublishTimeout has passed since recvChunkStream began
    sess,       \* c.sess is set (publishCycle's createSession succeeded)
    accepted,   \* commands answered by the connection goroutine, in order
    wbuf,       \* Connection.writeBuf
    wire,       \* buffers written to the socket, in order
    pool,       \* buffers returned to EncodeHdrPool, in order
    gpc,        \* [g -> control point of goroutine g while playing]
    parts,      \* [g -> buffers g still has to Write]
    loaded,     \* [g -> writeBuf as g read it for its append]
    wrote,      \* [g -> buffers g's current writev wrote]
    nf,         \* [g -> buffers g's Flush wrote so far]
    expect,     \* [g -> bytes g wrote since its last Flush]
    rxErr,      \* the receive goroutine has an error for the main loop
    npkts       \* media packets the main loop dequeued

cmdVars == <<clientType, connInfo, stream, sess, accepted>>
bufVars == <<wbuf, wire, pool>>
playVars == <<gpc, parts, loaded, wrote, nf, expect, rxErr, npkts>>
vars == <<inbox, nsent, nplay, pc, late, cmdVars, bufVars, playVars>>

-----------------------------------------------------------------------------
(* Buffers and replies                                                      *)

\* The header and payload buffers of message r written by src ("conn" for
\* the connection goroutine, "rx" and "main" for a player's goroutines).
Msg(src, r) == <<[src |-> src, r |-> r, part |-> "hdr"],
                 [src |-> src, r |-> r, part |-> "body"]>>

\* The messages each resp*CommandMessage sends, in order.
Replies(k) ==
    CASE k \in {"connect", "connectNoApp"} ->
             <<"winAckSize", "peerBandwidth", "setChunkSize", "connectResult">>
      [] k = "createStream" -> <<"createResult">>
      [] k \in {"publish", "publishNoStream"} -> <<"publishStart">>
      [] k \in {"play", "playNoStream"} ->
             <<"recorded", "begin", "playReset", "playStart", "dataStart",
               "publishNotify">>
      [] OTHER -> <<>>

Parts(src, k) ==
    FlattenSeq([i \in 1..Len(Replies(k)) |-> Msg(src, Replies(k)[i])])

\* Flush's deferred Puts: the buffers at even offsets (0, 2, ...) of
\* writeBuf, taken to be headers.
EvenParts(s) == [i \in 1..((Len(s) + 1) \div 2) |-> s[2 * i - 1]]

-----------------------------------------------------------------------------
(* The command state machine                                                *)

\* handleCommandMessage returns an error: the AMF decode fails; connect's
\* transaction id is not 1, or app or tcUrl is still unset after it;
\* the stream name is still unset after publish or play.  The other
\* commands (releaseStream, FCPublish, FCUnpublish, deleteStream) are
\* ignored.
CommandFails(k) ==
    \/ k \in {"commandBad", "connectBadTxn"}
    \/ k = "connectNoApp" /\ ~connInfo
    \/ k \in {"publishNoStream", "playNoStream"} /\ ~stream

\* A data message reaches handleDataMessage only on a connection with a
\* session (onRecvDataMessage); there its AMF decode may fail.
DataFails(k) == k = "dataBad" /\ sess

\* Whether onRecvIntegralMessage returns an error for message k: a command
\* or data message whose handling fails; media on a connection without
\* session that is not a publisher, or whose tag header fails to decode;
\* end of file.
Fails(k) ==
    \/ k = "eof"
    \/ CommandFails(k)
    \/ k = "av" /\ ~sess /\ clientType # 1
    \/ k = "avBad" /\ (sess \/ clientType # 1)
    \/ DataFails(k)

\* Every handler that answers flushes its replies before returning.
HandlerFlushes(k) == Replies(k) # <<>>

\* The clientType a successful message k leaves.
NewType(k) ==
    CASE k \in {"publish", "publishNoStream"} -> 1
      [] k \in {"play", "playNoStream"}       -> 2
      [] OTHER                               -> clientType

\* The command fields after message k is handled without error: app and
\* tcUrl, and the stream name, persist from earlier commands.
Handled(k) ==
    /\ connInfo' = (connInfo \/ k = "connect")
    /\ stream' = (stream \/ k \in {"publish", "play"})
    /\ clientType' = NewType(k)

\* A goroutine of the server is blocked reading the socket.
ReaderWaiting ==
    pc \in {"loop", "publish"} \/ (pc = "play" /\ gpc["rx"] = "read")

\* The client writes a message, or closes the socket.  A send changes
\* nothing but the socket until a reader takes it, so the client sends
\* when a reader waits, and at most MaxInbox messages are in flight.
ClientSend ==
    /\ nsent < MaxMsgs
    /\ ReaderWaiting
    /\ Len(inbox) < MaxInbox
    /\ pc = "play" => nplay < MaxPlayMsgs
    /\ \E k \in Kinds : inbox' = Append(inbox, k)
    /\ nsent' = nsent + 1
    /\ nplay' = IF pc = "play" THEN nplay + 1 ELSE nplay
    /\ UNCHANGED <<pc, late, cmdVars, bufVars, playVars>>

\* The wall clock passes PlayorPublishTimeout (read only by recvChunkStream).
Tick ==
    /\ pc = "loop"
    /\ ~late
    /\ late' = TRUE
    /\ UNCHANGED <<inbox, nsent, nplay, pc, cmdVars, bufVars, playVars>>

\* The connection goroutine's replies: SendIntegralMessage appends header
\* and payload of each reply to writeBuf, and Flush writes them, returns
\* the even-offset buffers to the header pool and empties writeBuf.
ConnRespond(k) ==
    LET buf == wbuf \o Parts("conn", k) IN
    IF HandlerFlushes(k)
    THEN /\ wire' = wire \o buf
         /\ wbuf' = <<>>
         /\ pool' = pool \o EvenParts(buf)
    ELSE /\ wbuf' = buf
         /\ UNCHANGED <<wire, pool>>

\* Flush writes more than the handler's replies ("need write %d, actual").
FlushMismatch(k) == HandlerFlushes(k) /\ wbuf # <<>>

\* Where the connection goroutine is after handling message k: a failed
\* byte count ends it; publishCycle reads on; recvChunkStream's switch on
\* clientType tests the timeout, or enters publishCycle or playCycle when
\* the broker's createSession or addSessionPlayer succeeds (ok).
AfterMessage(k, ok) ==
    CASE FlushMismatch(k) -> "closed"
      [] pc = "publish"   -> "publish"
      [] NewType(k) = 0   -> IF late THEN "closed" ELSE "loop"
      [] ~ok              -> "closed"
      [] NewType(k) = 1   -> "publish"
      [] OTHER            -> "play"

\* recvChunkStream and publishCycle: read one message, handle it
\* (onRecvIntegralMessage), and in recvChunkStream switch on clientType:
\* still undecided after the timeout closes the connection; publish enters
\* publishCycle if createSession succeeds; play enters playCycle if
\* addSessionPlayer succeeds (the broker's answer is a choice here).
ConnRecv ==
    /\ pc \in {"loop", "publish"}
    /\ inbox # <<>>
    /\ LET k == Head(inbox) IN
       /\ inbox' = Tail(inbox)
       /\ IF Fails(k)
          THEN /\ pc' = "closed"
               /\ UNCHANGED <<cmdVars, bufVars>>
          ELSE /\ Handled(k)
               /\ ConnRespond(k)
               /\ accepted' = IF Replies(k) # <<>> THEN Append(accepted, k)
                              ELSE accepted
               /\ \E ok \in BOOLEAN :
                    /\ pc' = AfterMessage(k, ok)
                    /\ sess' = (sess \/ pc' = "publish")
    \* the timeout is read only in recvChunkStream: forgotten once left
    /\ late' = (late /\ pc' = "loop")
    /\ UNCHANGED <<nsent, nplay, playVars>>

-----------------------------------------------------------------------------
(* Playing: player.doPlaying's main loop and its receive goroutine share    *)
(* the Connection.  Write is c.writeBuf = append(c.writeBuf, p): a read of  *)
(* writeBuf, then a store.  Flush ranges over writeBuf for the deferred     *)
(* Puts, then net.Buffers.WriteTo loops: writev of writeBuf as it is, then *)
(* consume of what was written from writeBuf as it is then, until writeBuf *)
(* is empty.  The caller fails when Flush wrote another number of bytes    *)
(* than it wrote itself.  The buffers are of one size here, so bytes are   *)
(* counted in buffers.                                                     *)

Set(f, g, v) == [f EXCEPT ![g] = v]

\* Goroutine g reads writeBuf for its next append.
WLoad(g) ==
    /\ pc = "play"
    /\ gpc[g] = "load"
    /\ loaded' = Set(loaded, g, wbuf)
    /\ gpc' = Set(gpc, g, "store")
    /\ UNCHANGED <<inbox, nsent, nplay, pc, late, cmdVars, bufVars, parts,
                   wrote, nf,
                   expect, rxErr, npkts>>

\* Goroutine g stores writeBuf with its buffer appended.  After its last
\* buffer, the main loop counts the message (msgCount, bytesCount) and
\* goes back to the top; the receive goroutine flushes its replies.
WStore(g) ==
    /\ pc = "play"
    /\ gpc[g] = "store"
    /\ wbuf' = Append(loaded[g], Head(parts[g]))
    /\ loaded' = Set(loaded, g, <<>>)
    /\ parts' = Set(parts, g, Tail(parts[g]))
    /\ expect' = Set(expect, g, expect[g] + 1)
    /\ gpc' = Set(gpc, g, IF Tail(parts[g]) # <<>> THEN "load"
                          ELSE IF g = "main" THEN "top" ELSE "flush")
    /\ UNCHANGED <<inbox, nsent, nplay, pc, late, cmdVars, wire, pool, wrote,
                   nf,
                   rxErr, npkts>>

\* A Flush by g may start: the main loop's flushAvPacket when it has
\* written since its last flush and mwWaitTime has passed (a choice here);
\* the receive goroutine after its replies.
MayFlush(g) ==
    \/ g = "main" /\ gpc[g] = "top" /\ ~rxErr /\ expect[g] > 0
    \/ g = "rx" /\ gpc[g] = "flush"

\* Where g goes after a Flush: an error ends the main loop (and the
\* connection) or is handed to the main loop by the receive goroutine.
AfterFlush(g, okay) ==
    /\ IF g = "main"
       THEN /\ pc' = IF okay THEN pc ELSE "closed"
            /\ gpc' = Set(gpc, g, "deq")
            /\ UNCHANGED rxErr
       ELSE /\ rxErr' = ~okay
            /\ gpc' = Set(gpc, g, IF okay THEN "read" ELSE "done")
            /\ UNCHANGED pc
    /\ expect' = Set(expect, g, 0)
    /\ nf' = Set(nf, g, 0)

\* Flush with an empty writeBuf returns 0 bytes at once.  Otherwise it
\* defers the Put of the even-offset buffers to the header pool and
\* writeBuffers issues the first writev of writeBuf.
FlushStart(g) ==
    /\ pc = "play"
    /\ MayFlush(g)
    /\ IF wbuf = <<>>
       THEN /\ AfterFlush(g, FALSE)
            /\ UNCHANGED <<wire, pool, wrote>>
       ELSE /\ pool' = pool \o EvenParts(wbuf)
            /\ wire' = wire \o wbuf
            /\ wrote' = Set(wrote, g, Len(wbuf))
            /\ nf' = Set(nf, g, Len(wbuf))
            /\ gpc' = Set(gpc, g, "consume")
            /\ UNCHANGED <<pc, expect, rxErr>>
    /\ UNCHANGED <<inbox, nsent, nplay, late, cmdVars, wbuf, parts, loaded,
                   npkts>>

\* writeBuffers loops while writeBuf is not empty: another writev of what
\* writeBuf holds now.
Writev(g) ==
    /\ pc = "play"
    /\ gpc[g] = "writev"
    /\ wire' = wire \o wbuf
    /\ wrote' = Set(wrote, g, Len(wbuf))
    /\ nf' = Set(nf, g, nf[g] + Len(wbuf))
    /\ gpc' = Set(gpc, g, "consume")
    /\ UNCHANGED <<inbox, nsent, nplay, pc, late, cmdVars, wbuf, pool, parts,
                   loaded,
                   expect, rxErr, npkts>>

\* consume drops what the writev wrote from the front of writeBuf as it is
\* now; the loop goes on if writeBuf is not empty, and otherwise Flush
\* returns and its caller compares the bytes written with its own count.
Consume(g) ==
    /\ pc = "play"
    /\ gpc[g] = "consume"
    /\ LET rest == SubSeq(wbuf, wrote[g] + 1, Len(wbuf)) IN
       /\ wbuf' = rest
       /\ IF rest = <<>>
          THEN AfterFlush(g, nf[g] = expect[g])
          ELSE /\ gpc' = Set(gpc, g, "writev")
               /\ UNCHANGED <<pc, expect, rxErr, nf>>
    /\ wrote' = Set(wrote, g, 0)
    /\ UNCHANGED <<inbox, nsent, nplay, late, cmdVars, wire, pool, parts,
                   loaded,
                   npkts>>

\* The main loop takes the receive goroutine's error from its channel and
\* returns; the connection is closed.
MainErr ==
    /\ pc = "play"
    /\ gpc["main"] = "top"
    /\ rxErr
    /\ pc' = "closed"
    /\ UNCHANGED <<inbox, nsent, nplay, late, cmdVars, bufVars, playVars>>

\* The main loop dequeues a packet and sendAvPacket starts writing it.
MainDequeue ==
    /\ pc = "play"
    /\ \/ gpc["main"] = "top" /\ ~rxErr
       \/ gpc["main"] = "deq"
    /\ npkts < MaxPackets
    /\ npkts' = npkts + 1
    /\ parts' = Set(parts, "main", Msg("main", npkts + 1))
    /\ gpc' = Set(gpc, "main", "load")
    /\ UNCHANGED <<inbox, nsent, nplay, pc, late, cmdVars, bufVars, loaded,
                   wrote, nf,
                   expect, rxErr>>

\* The receive goroutine reads and handles one message; an error goes to
\* the main loop; replies are written and then flushed.
RxRecv ==
    /\ pc = "play"
    /\ gpc["rx"] = "read"
    /\ inbox # <<>>
    /\ LET k == Head(inbox) IN
       /\ inbox' = Tail(inbox)
       /\ IF Fails(k)
          THEN /\ rxErr' = TRUE
               /\ gpc' = Set(gpc, "rx", "done")
               /\ UNCHANGED <<connInfo, stream, clientType, parts>>
          ELSE /\ Handled(k)
               /\ parts' = Set(parts, "rx", Parts("rx", k))
               /\ gpc' = Set(gpc, "rx", IF Replies(k) = <<>> THEN "read"
                                        ELSE "load")
               /\ UNCHANGED rxErr
    /\ UNCHANGED <<nsent, nplay, pc, late, sess, accepted, bufVars, loaded,
                   wrote, nf,
                   expect, npkts>>

-----------------------------------------------------------------------------
(* Specification                                                            *)

TypeOK ==
    /\ inbox \in Seq(Kinds) /\ nsent \in 0..MaxMsgs /\ nplay \in 0..MaxPlayMsgs
    /\ pc \in {"loop", "publish", "play", "closed"}
    /\ clientType \in 0..2
    /\ {connInfo, stream, late, sess, rxErr} \subseteq BOOLEAN
    /\ accepted \in Seq(Kinds)
    /\ gpc \in [Goroutines -> {"top", "deq", "read", "load", "store", "flush",
                               "writev", "consume", "done"}]
    /\ expect \in [Goroutines -> Nat]
    /\ npkts \in 0..MaxPackets

Init ==
    /\ inbox = <<>> /\ nsent = 0 /\ nplay = 0
    /\ pc = "loop" /\ late = FALSE
    /\ clientType = 0 /\ connInfo = FALSE /\ stream = FALSE /\ sess = FALSE
    /\ accepted = <<>>
    /\ wbuf = <<>> /\ wire = <<>> /\ pool = <<>>
    /\ gpc = [g \in Goroutines |-> IF g = "main" THEN "top" ELSE "read"]
    /\ parts = [g \in Goroutines |-> <<>>]
    /\ loaded = [g \in Goroutines |-> <<>>]
    /\ wrote = [g \in Goroutines |-> 0]
    /\ nf = [g \in Goroutines |-> 0]
    /\ expect = [g \in Goroutines |-> 0]
    /\ rxErr = FALSE
    /\ npkts = 0

\* Steps of the server's goroutines.
Server ==
    \/ ConnRecv \/ RxRecv \/ MainErr \/ MainDequeue
    \/ \E g \in Goroutines :
          WLoad(g) \/ WStore(g) \/ FlushStart(g) \/ Writev(g) \/ Consume(g)

Next == ClientSend \/ Tick \/ Server

\* A goroutine that can go on is eventually scheduled; a goroutine in the
\* middle of a Write or Flush finishes it.  The client and the clock are
\* not fair.
Spec ==
    /\ Init /\ [][Next]_vars
    /\ WF_vars(ConnRecv) /\ WF_vars(RxRecv) /\ WF_vars(MainErr)
    /\ \A g \in Goroutines : /\ WF_vars(WLoad(g)) /\ WF_vars(WStore(g))
                             /\ WF_vars(FlushStart(g)) /\ WF_vars(Writev(g))
                             /\ WF_vars(Consume(g))

-----------------------------------------------------------------------------
(* Properties                                                               *)

\* The socket carries whole messages: each chunk header buffer is followed
\* by its own payload (spec 4.4: one goroutine writes a connection at a
\* time, so a player's replies and media never interleave).
WireFramed ==
    \A i \in 1..Len(wire) :
        IF i % 2 = 1 THEN wire[i].part = "hdr"
        ELSE wire[i] = [wire[i - 1] EXCEPT !.part = "body"]
====
