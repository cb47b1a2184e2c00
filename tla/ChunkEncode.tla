---------------------------- MODULE ChunkEncode ----------------------------
(***************************************************************************)
(* The server's chunk encoder: Connection.SendIntegralMessage             *)
(* (src/pkg/rtmp/connection/connection.go) splitting one message into     *)
(* chunks of LocalChunkSize bytes, with the header encoding of             *)
(* chunk/header.go, basic_header.go and message_header.go.  Messages are   *)
(* submitted one after the other, as player.sendAvPacket and the command   *)
(* replies do, and their chunks are appended to writeBuf (here: out).      *)
(*                                                                         *)
(* The wire is a sequence of units: a chunk header (basic header and       *)
(* message header of its fmt), a 4-byte extended timestamp, or one payload *)
(* byte, identified by the message it belongs to and its offset.           *)
(***************************************************************************)
EXTENDS Naturals, Sequences, SequencesExt

CONSTANTS
    LocalChunkSize,  \* Connection.LocalChunkSize (60000 by default)
    MaxLen,          \* bound on a payload length
    MaxMsgs,         \* bound on the number of messages submitted
    Timestamps,      \* message timestamps the senders use
    Csids,           \* chunk stream ids of the messages
    Types            \* message type ids

ASSUME /\ LocalChunkSize \in Nat \ {0}
       /\ MaxLen \in Nat /\ MaxMsgs \in Nat

\* The largest value of the 3-byte timestamp field: it announces an
\* extended timestamp.
TsMark == 16777215   \* 0xFFFFFF

Message == [csid : Csids, ts : Timestamps, len : 0..MaxLen, type : Types]

\* Wire units.
HeaderUnit ==
    [kind : {"hdr"}, fmt : {0}, csid : Csids, ts : 0..TsMark, len : 0..MaxLen,
     type : Types] \cup [kind : {"hdr"}, fmt : {3}, csid : Csids]
ExtUnit == [kind : {"ext"}, ts : Timestamps]
DataUnit == [kind : {"data"}, m : 1..MaxMsgs, i : 1..MaxLen]

VARIABLES
    submitted,  \* messages passed to SendIntegralMessage, in order
    epc,        \* "idle" or "loop" (inside SendIntegralMessage)
    idx,        \* loop index
    nChunks,    \* len(ChunkData) / LocalChunkSize
    unWrite,    \* unWrite
    out         \* units appended to writeBuf

vars == <<submitted, epc, idx, nChunks, unWrite, out>>

TypeOK ==
    /\ submitted \in Seq(Message) /\ Len(submitted) <= MaxMsgs
    /\ epc \in {"idle", "loop"}
    /\ idx \in 0..(MaxLen + 1)
    /\ nChunks \in 0..MaxLen
    /\ unWrite \in 0..MaxLen
    /\ out \in Seq(HeaderUnit \cup ExtUnit \cup DataUnit)

Init ==
    /\ submitted = <<>>
    /\ epc = "idle"
    /\ idx = 0
    /\ nChunks = 0
    /\ unWrite = 0
    /\ out = <<>>

\* messageHeader.encode: the 3-byte timestamp field saturates at 0xFFFFFF.
TsField(ts) == IF ts >= TsMark THEN TsMark ELSE ts

\* header.Encode of a chunk of message m: basic header, then the message
\* header of fmt 0 (timestamp, length, type, stream id) or none for fmt 3.
Header(fmt, m) ==
    IF fmt = 0
    THEN [kind |-> "hdr", fmt |-> 0, csid |-> m.csid, ts |-> TsField(m.ts),
          len |-> m.len, type |-> m.type]
    ELSE [kind |-> "hdr", fmt |-> 3, csid |-> m.csid]

\* Payload bytes start+1..end of the k-th message.
Bytes(k, start, end) == [j \in 1..(end - start) |-> [kind |-> "data", m |-> k, i |-> start + j]]

\* Fault variant of NChunks: one chunk fewer.
NChunksUnderCount(m) == m.len \div LocalChunkSize - 1

\* nChunks := len(ChunkData) / LocalChunkSize (one less than the number of
\* chunks when the length is not a multiple of the chunk size).
NChunks(m) == m.len \div LocalChunkSize

\* SendIntegralMessage(m): a message of length 0 is refused ("message
\* length <= 0"); otherwise the loop state is set up.
SubmitMsg(m) ==
    /\ epc = "idle"
    /\ Len(submitted) < MaxMsgs
    /\ submitted' = Append(submitted, m)
    /\ IF m.len = 0
       THEN UNCHANGED <<epc, idx, nChunks, unWrite>>
       ELSE /\ epc' = "loop"
            /\ idx' = 0
            /\ unWrite' = m.len
            /\ nChunks' = NChunks(m)
    /\ UNCHANGED out

\* Any caller submits any message.
Submit == \E m \in Message : SubmitMsg(m)

\* Fault variant of LoopEnds: idx < nChunks instead of idx <= nChunks.
LoopEndsStrict == idx >= nChunks \/ unWrite = 0

\* The loop ends when idx passes nChunks or unWrite is 0.
LoopEnds == idx > nChunks \/ unWrite = 0

\* end := start + LocalChunkSize, capped at the message length.
ChunkEnd(start, m) == Min({start + LocalChunkSize, m.len})

\* One iteration of the split loop: stop at LoopEnds; otherwise write the
\* header of chunk idx (fmt 0 first, fmt 3 after) and its bytes
\* [start, end), and set unWrite to messageLength - chunkSize.  No extended
\* timestamp is written (TODO in the code).
Iterate ==
    /\ epc = "loop"
    /\ LET m == submitted[Len(submitted)] IN
       IF LoopEnds
       THEN /\ epc' = "idle"
            /\ UNCHANGED <<idx, unWrite, out>>
       ELSE LET start == idx * LocalChunkSize
                end   == ChunkEnd(start, m)
            IN /\ out' = out \o <<Header(IF idx > 0 THEN 3 ELSE 0, m)>>
                             \o Bytes(Len(submitted), start, end)
               /\ unWrite' = m.len - (end - start)
               /\ idx' = idx + 1
               /\ UNCHANGED epc
    /\ UNCHANGED <<submitted, nChunks>>

Next == Submit \/ Iterate

\* The sending goroutine runs the loop to its end; who sends is not fair.
Spec == Init /\ [][Next]_vars /\ WF_vars(Iterate)

-----------------------------------------------------------------------------
(* Reference: the chunking of the RTMP specification.  A message of L > 0   *)
(* bytes is ceil(L / chunk size) chunks, a fmt-0 chunk then fmt-3 chunks,   *)
(* each followed by the 4-byte extended timestamp when the timestamp does  *)
(* not fit in 3 bytes.                                                      *)

RECURSIVE RefFrom(_, _, _)
RefFrom(k, m, start) ==
    IF start >= m.len THEN <<>>
    ELSE LET end == ChunkEnd(start, m) IN
         <<Header(IF start = 0 THEN 0 ELSE 3, m)>>
         \o (IF m.ts >= TsMark THEN <<[kind |-> "ext", ts |-> m.ts]>> ELSE <<>>)
         \o Bytes(k, start, end)
         \o RefFrom(k, m, end)

RefChunks(k) == RefFrom(k, submitted[k], 0)

-----------------------------------------------------------------------------
(* Properties                                                               *)

\* Indexes of the payload bytes of message k on the wire, in order.
BytesOf(k) ==
    LET s == SelectSeq(out, LAMBDA u : u.kind = "data" /\ u.m = k)
    IN [j \in 1..Len(s) |-> s[j].i]

\* Between two messages, every byte of every submitted message has been
\* written exactly once and in order: the split loop's start/end arithmetic
\* and its unWrite exit test neither skip nor repeat bytes.
PayloadOnceInOrder ==
    epc = "idle" =>
        \A k \in 1..Len(submitted) : BytesOf(k) = [j \in 1..submitted[k].len |-> j]

\* The wire is exactly the RTMP chunking of the submitted messages (spec
\* section 8: a payload of exactly the chunk size is one chunk, one byte
\* more is one fmt-0 and one fmt-3 chunk; a timestamp of 0xFFFFFF or more
\* is followed by the extended timestamp; decode(encode(m)) = m).
MatchesReference ==
    epc = "idle" =>
        out = FlattenSeq([k \in 1..Len(submitted) |-> RefChunks(k)])

=============================================================================
