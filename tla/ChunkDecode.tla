---------------------------- MODULE ChunkDecode ----------------------------
(***************************************************************************)
(* The server's chunk-stream decoder (src/pkg/rtmp/connection/            *)
(* connection.go RecvIntegralMessage, readChunkBasicHeader,                *)
(* readChunkMessageHeader, readChunkMessageBody; chunk/stream.go) reading  *)
(* what a conforming RTMP client writes.  The client multiplexes messages  *)
(* on several chunk streams, interleaving them chunk by chunk, compresses  *)
(* headers (fmt 1, 2, 3) as the RTMP specification allows, writes the     *)
(* extended timestamp where a value does not fit in 3 bytes, and may       *)
(* change its chunk size with a SetChunkSize message on chunk stream 2.    *)
(*                                                                         *)
(* The wire is a sequence of units: a chunk header, a 4-byte extended      *)
(* timestamp, or one payload byte named by its message and offset.  Chunk  *)
(* sizes are scaled down: DefaultChunk stands for the 128 bytes both sides *)
(* start with.                                                              *)
(***************************************************************************)
EXTENDS Naturals, Sequences, SequencesExt

CONSTANTS
    Csids,         \* chunk streams the client uses for media
    MediaTypes,    \* type ids of media messages (8 audio, 9 video)
    StreamIds,     \* message stream ids
    Timestamps,    \* absolute timestamps of media messages
    MaxLen,        \* bound on a media payload length
    MaxMsgs,       \* bound on the number of messages the client sends
    DefaultChunk,  \* chunk size before any SetChunkSize
    ChunkSizes,    \* values a SetChunkSize message may announce
    None           \* model value: no header written / no chunk.Stream yet

ASSUME /\ DefaultChunk \in Nat \ {0}
       /\ ChunkSizes \subseteq Nat \ {0}

TsMark == 16777215      \* 0xFFFFFF: the 3-byte field announces an extension
MaxCsid == 65559        \* NewStream's upper bound on a chunk stream id
SetChunkSize == 1       \* chunk.MsgSetChunkSize
ControlCsid == 2        \* protocol control messages
NoMsg == 0

\* A message the client sends.  A SetChunkSize message is one unit long
\* (its 4 bytes fit in any chunk) and carries the announced size.
MediaMsg == [csid : Csids, type : MediaTypes, sid : StreamIds,
             ts : Timestamps, len : 1..MaxLen, size : {0}]
ControlMsg == [csid : {ControlCsid}, type : {SetChunkSize}, sid : {0},
               ts : {0}, len : {1}, size : ChunkSizes]

\* The last header the client wrote on a chunk stream (what fmt 1, 2 and 3
\* compress against); fmt is that header's fmt, delta its timestamp delta.
LastHdr == [ts : Nat, delta : Nat, len : Nat, type : Nat, sid : Nat,
            ext : BOOLEAN, fmt : 0..3]

VARIABLES
    sent,       \* messages the client started, in order
    cprog,      \* [csid -> [k: message in progress or NoMsg, off: bytes sent]]
    clast,      \* [csid -> LastHdr, or None before the first message]
    cchunk,     \* the client's chunk size
    wire,       \* units written by the client
    rpos,       \* index of the next unit the server reads
    rchunk,     \* Connection.RemoteChunkSize
    strm,       \* [csid -> chunk.Stream state, or None before NewStream]
    cur,        \* csid of the chunk being read
    dpc,        \* "hdr", "body", "error" (ProtocolError), "corrupt"
                \* (framing lost), "crashed" (nil dereference)
    delivered   \* messages RecvIntegralMessage returned, in order

clientVars == <<sent, cprog, clast, cchunk, wire>>
serverVars == <<rpos, rchunk, strm, cur, dpc, delivered>>
vars == <<clientVars, serverVars>>

AllCsids == Csids \cup {ControlCsid}

-----------------------------------------------------------------------------
(* The client: the chunking of the RTMP specification.                      *)

\* The 3-byte field for a timestamp or delta v, and whether it needs the
\* extended field.
Field(v) == IF v >= TsMark THEN TsMark ELSE v
NeedsExt(v) == v >= TsMark

\* fmt values the client may use for message m on its chunk stream, given
\* the last header there: fmt 1 keeps the stream id, fmt 2 also length and
\* type, fmt 3 also the delta of the preceding fmt 1, 2 or 3 header.
LegalFmts(m) ==
    LET l == clast[m.csid] IN
    IF l = None THEN {0}
    ELSE {0}
         \cup (IF m.sid = l.sid /\ m.ts >= l.ts THEN {1} ELSE {})
         \cup (IF m.sid = l.sid /\ m.ts >= l.ts /\ m.len = l.len
                  /\ m.type = l.type THEN {2} ELSE {})
         \cup (IF m.sid = l.sid /\ m.len = l.len /\ m.type = l.type
                  /\ l.fmt \in {1, 2, 3} /\ m.ts = l.ts + l.delta THEN {3} ELSE {})

\* The header of the first chunk of message m in fmt f (delta d).
FirstHeader(f, m, d) ==
    [kind |-> "hdr", fmt |-> f, csid |-> m.csid,
     ts |-> IF f = 3 THEN 0 ELSE Field(IF f = 0 THEN m.ts ELSE d),
     len |-> m.len, type |-> m.type, sid |-> m.sid]

ContHeader(c) ==
    [kind |-> "hdr", fmt |-> 3, csid |-> c, ts |-> 0, len |-> 0, type |-> 0,
     sid |-> 0]

Ext(v) == [kind |-> "ext", ts |-> v]

Bytes(k, start, end) ==
    [j \in 1..(end - start) |-> [kind |-> "data", m |-> k, i |-> start + j]]

Min2(a, b) == IF a < b THEN a ELSE b

\* The client starts message m on a chunk stream with no message in
\* progress: the first chunk, with the extended timestamp when needed.  A
\* SetChunkSize message takes effect for the client once it is written.
ClientStart ==
    /\ Len(sent) < MaxMsgs
    /\ \E m \in MediaMsg \cup ControlMsg, f \in 0..3 :
         /\ cprog[m.csid].k = NoMsg
         /\ f \in LegalFmts(m)
         /\ LET k     == Len(sent) + 1
                l     == clast[m.csid]
                delta == IF f = 0 THEN m.ts ELSE m.ts - l.ts
                ext   == NeedsExt(IF f = 0 THEN m.ts ELSE delta)
                end   == Min2(m.len, cchunk)
            IN /\ sent' = Append(sent, m)
               /\ wire' = wire \o <<FirstHeader(f, m, delta)>>
                               \o (IF ext THEN <<Ext(delta)>> ELSE <<>>)
                               \o Bytes(k, 0, end)
               /\ clast' = [clast EXCEPT ![m.csid] =
                              [ts |-> m.ts, delta |-> delta, len |-> m.len,
                               type |-> m.type, sid |-> m.sid, ext |-> ext,
                               fmt |-> f]]
               /\ cprog' = [cprog EXCEPT ![m.csid] =
                              IF end = m.len THEN [k |-> NoMsg, off |-> 0]
                              ELSE [k |-> k, off |-> end]]
               /\ cchunk' = IF m.type = SetChunkSize THEN m.size ELSE cchunk
    /\ UNCHANGED serverVars

\* The client writes the next chunk (fmt 3) of the message in progress on
\* chunk stream c, repeating the extended timestamp if the message has one.
ClientContinue(c) ==
    /\ cprog[c].k # NoMsg
    /\ LET k   == cprog[c].k
           off == cprog[c].off
           end == Min2(sent[k].len, off + cchunk)
       IN /\ wire' = wire \o <<ContHeader(c)>>
                          \o (IF clast[c].ext THEN <<Ext(clast[c].delta)>> ELSE <<>>)
                          \o Bytes(k, off, end)
          /\ cprog' = [cprog EXCEPT ![c] =
                         IF end = sent[k].len THEN [k |-> NoMsg, off |-> 0]
                         ELSE [k |-> k, off |-> end]]
    /\ UNCHANGED <<sent, clast, cchunk, serverVars>>

-----------------------------------------------------------------------------
(* The server: Connection.RecvIntegralMessage and its helpers.              *)

\* chunk.NewStream for a chunk stream seen for the first time.
NewStream ==
    [first |-> TRUE, hasRead |-> 0, delta |-> 0, isExt |-> FALSE, ts |-> 0,
     len |-> 0, type |-> 0, sid |-> 0, data |-> <<>>]

\* readChunkMessageHeader's protocol errors: a new chunk stream must start
\* with fmt 0 (fmt 1 is tolerated on csid 2); fmt 0 inside a partly read
\* message; a fmt 0/1 length that differs from the partly read message's.
HeaderError(s, u) ==
    \/ s.first /\ u.fmt > 0 /\ ~(u.csid = ControlCsid /\ u.fmt = 1)
    \/ s.hasRead > 0 /\ u.fmt = 0
    \/ s.hasRead > 0 /\ u.fmt <= 1 /\ s.len # u.len

\* The stream after the message header u is parsed (lines 248-309): the
\* timestamp field sets TimestampDelta and, at 0xFFFFFF, the extended flag,
\* which is never cleared; without the flag fmt 0 sets the timestamp and
\* fmt 1/2 add the delta; fmt 3 adds the previous delta only on a first
\* chunk; fmt 0/1 set length and type, fmt 0 the stream id.
Parsed(s, u) ==
    LET isExt == s.isExt \/ (u.fmt <= 2 /\ u.ts >= TsMark) IN
    [s EXCEPT
        !.isExt = isExt,
        !.delta = IF u.fmt <= 2 THEN u.ts ELSE s.delta,
        !.ts    = CASE u.fmt <= 2 /\ isExt     -> s.ts
                    [] u.fmt = 0               -> u.ts
                    [] u.fmt <= 2              -> s.ts + u.ts
                    [] s.first /\ ~s.isExt     -> s.ts + s.delta
                    [] OTHER                   -> s.ts,
        !.len   = IF u.fmt <= 1 THEN u.len ELSE s.len,
        !.type  = IF u.fmt <= 1 THEN u.type ELSE s.type,
        !.sid   = IF u.fmt = 0 THEN u.sid ELSE s.sid]

\* The 4 bytes Peek returns after the header at position p: an extended
\* timestamp, or payload bytes read as a number (never a valid timestamp
\* here).  The 31-bit mask is the identity on the modelled values.
Peeked(p) == IF wire[p].kind = "ext" THEN wire[p].ts ELSE TsMark + 1000

\* One chunk header: readChunkBasicHeader, NewStream for an unknown csid
\* (its error is ignored: above MaxCsid the stream is nil and the next call
\* dereferences it), readChunkMessageHeader, and the extended timestamp:
\* Peek 4 bytes; keep the timestamp without consuming them if this is not
\* the first chunk, the timestamp is nonzero and differs from them;
\* otherwise Discard them and take them as the timestamp.
ServerReadHeader ==
    /\ dpc = "hdr"
    /\ rpos <= Len(wire)
    /\ LET u == wire[rpos] IN
       CASE u.kind # "hdr" ->
              /\ dpc' = "corrupt"
              /\ UNCHANGED <<rpos, strm, cur>>
         [] strm[u.csid] = None /\ u.csid > MaxCsid ->
              /\ dpc' = "crashed"
              /\ UNCHANGED <<rpos, strm, cur>>
         [] OTHER ->
              LET s0 == IF strm[u.csid] = None THEN NewStream ELSE strm[u.csid]
                  s1 == Parsed(s0, u)
              IN IF HeaderError(s0, u)
                 THEN /\ dpc' = "error"
                      /\ UNCHANGED <<rpos, strm, cur>>
                 ELSE IF ~s1.isExt
                 THEN /\ strm' = [strm EXCEPT ![u.csid] = [s1 EXCEPT !.first = FALSE]]
                      /\ rpos' = rpos + 1
                      /\ cur' = u.csid
                      /\ dpc' = "body"
                 ELSE /\ rpos + 1 <= Len(wire)
                      /\ LET v    == Peeked(rpos + 1)
                              keep == ~s0.first /\ s1.ts > 0 /\ s1.ts # v
                              ext  == wire[rpos + 1].kind = "ext"
                          IN /\ strm' = [strm EXCEPT ![u.csid] =
                                   [s1 EXCEPT !.first = FALSE,
                                              !.ts = IF keep THEN s1.ts ELSE v]]
                             /\ rpos' = IF keep THEN rpos + 1 ELSE rpos + 2
                             /\ cur' = u.csid
                             /\ dpc' = IF keep = ext THEN "corrupt" ELSE "body"
    /\ UNCHANGED <<clientVars, rchunk, delivered>>

\* Fault variant of ChunkDataAfter: a fresh buffer for every chunk.
ChunkDataAlwaysFresh(s, units) == units

\* The message's ChunkData after a chunk's bytes: a buffer made on the
\* first chunk (HasRead = 0), filled at offset HasRead.
ChunkDataAfter(s, units) == (IF s.hasRead = 0 THEN <<>> ELSE s.data) \o units

\* Fault variants of RemoteChunkSizeAfter: every message taken for a
\* SetChunkSize; SetChunkSize ignored.
RemoteChunkSizeAnyType(s, data) == sent[data[1].m].size
RemoteChunkSizeKept(s, data) == rchunk

\* onRecvIntegralMessage's dispatch: a complete SetChunkSize message sets
\* RemoteChunkSize to its payload (HandleSetChunkSizeMessage).
RemoteChunkSizeAfter(s, data) ==
    IF s.type = SetChunkSize THEN sent[data[1].m].size ELSE rchunk

\* readChunkMessageBody: an empty message is dropped; otherwise read
\* min(remaining, RemoteChunkSize) bytes (blocking until they arrive).  A
\* complete message is returned to recvChunkStream, whose
\* onRecvIntegralMessage applies SetChunkSize and then Resets the stream.
ServerReadBody ==
    /\ dpc = "body"
    /\ LET s == strm[cur] IN
       IF s.len = 0
       THEN /\ strm' = [strm EXCEPT ![cur] = [s EXCEPT !.hasRead = 0, !.data = <<>>]]
            /\ dpc' = "hdr"
            /\ UNCHANGED <<rpos, rchunk, delivered>>
       ELSE LET size == Min2(s.len - s.hasRead, rchunk) IN
            /\ rpos + size - 1 <= Len(wire)
            /\ LET units == SubSeq(wire, rpos, rpos + size - 1)
                    data  == ChunkDataAfter(s, units)
                    done  == s.hasRead + size = s.len
                    msg   == [csid |-> cur, ts |-> s.ts, len |-> s.len,
                              type |-> s.type, sid |-> s.sid, data |-> data]
                IN IF \E j \in 1..size : units[j].kind # "data"
                   THEN /\ dpc' = "corrupt"
                        /\ UNCHANGED <<rpos, rchunk, strm, delivered>>
                   ELSE /\ rpos' = rpos + size
                        /\ strm' = [strm EXCEPT ![cur] =
                                       [s EXCEPT !.hasRead = IF done THEN 0
                                                             ELSE s.hasRead + size,
                                                 !.data = data]]
                        /\ delivered' = IF done THEN Append(delivered, msg)
                                         ELSE delivered
                        /\ rchunk' = IF done THEN RemoteChunkSizeAfter(s, data)
                                      ELSE rchunk
                        /\ dpc' = "hdr"
    /\ UNCHANGED <<clientVars, cur>>

-----------------------------------------------------------------------------
Init ==
    /\ sent = <<>>
    /\ cprog = [c \in AllCsids |-> [k |-> NoMsg, off |-> 0]]
    /\ clast = [c \in AllCsids |-> None]
    /\ cchunk = DefaultChunk
    /\ wire = <<>>
    /\ rpos = 1
    /\ rchunk = DefaultChunk
    /\ strm = [c \in AllCsids |-> None]
    /\ cur = ControlCsid
    /\ dpc = "hdr"
    /\ delivered = <<>>

Next ==
    \/ ClientStart
    \/ \E c \in AllCsids : ClientContinue(c)
    \/ ServerReadHeader
    \/ ServerReadBody

\* The connection's goroutine reads whatever has arrived; the client writes
\* when it likes.
Spec == Init /\ [][Next]_vars /\ WF_vars(ServerReadHeader \/ ServerReadBody)

-----------------------------------------------------------------------------
(* Properties                                                               *)

TypeOK ==
    /\ sent \in Seq(MediaMsg \cup ControlMsg) /\ Len(sent) <= MaxMsgs
    /\ cprog \in [AllCsids -> [k : 0..MaxMsgs, off : 0..MaxLen]]
    /\ \A c \in AllCsids : clast[c] = None \/ clast[c] \in LastHdr
    /\ cchunk \in {DefaultChunk} \cup ChunkSizes
    /\ rpos \in 1..(Len(wire) + 1)
    /\ rchunk \in {DefaultChunk} \cup ChunkSizes
    /\ cur \in AllCsids
    /\ dpc \in {"hdr", "body", "error", "corrupt", "crashed"}
    /\ Len(delivered) <= Len(sent)

\* The message whose bytes a delivered message carries.
Origin(d) == d.data[1].m

\* Messages the client has written completely.
Written == {k \in 1..Len(sent) : \A c \in AllCsids : cprog[c].k # k}

\* The decoder never loses the framing of a conforming stream, never
\* rejects it, and never crashes on it.
FramingKept == dpc \in {"hdr", "body"}

\* Every message returned by RecvIntegralMessage is one the client sent,
\* with its chunk stream, type, stream id, length and exactly its bytes in
\* order (reassembled across interleaved chunk streams and chunk size
\* changes); none is returned twice; and once the server has read all the
\* client wrote, every completely written message has been returned.
MessagesIntact ==
    /\ \A i \in 1..Len(delivered) :
         LET d == delivered[i] IN
         /\ d.data # <<>>
         /\ d.data = Bytes(Origin(d), 0, sent[Origin(d)].len)
         /\ d.csid = sent[Origin(d)].csid
         /\ d.type = sent[Origin(d)].type
         /\ d.sid = sent[Origin(d)].sid
         /\ d.len = sent[Origin(d)].len
    /\ \A i, j \in 1..Len(delivered) :
         i # j => Origin(delivered[i]) # Origin(delivered[j])
    /\ (dpc = "hdr" /\ rpos > Len(wire)) =>
         {Origin(delivered[i]) : i \in 1..Len(delivered)} = Written


\* Some message RecvIntegralMessage returned carries the bytes of message k.
Returned(k) == \E i \in 1..Len(delivered) : Origin(delivered[i]) = k

\* Every message the client has written completely is eventually returned
\* by RecvIntegralMessage: the decoder never waits for bytes the client
\* has already written, whatever the interleaving and chunk size changes.
MessagesEventuallyReturned ==
    \A k \in 1..MaxMsgs : [](k \in Written ~> Returned(k))

=============================================================================
