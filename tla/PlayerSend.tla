----------------------------- MODULE PlayerSend -----------------------------
(***************************************************************************)
(* A player's media send path (src/pkg/rtmp/server/player.go sendAvPacket, *)
(* updateBaseTimestamp, getBaseTimestamp) composed with the chunk encoder  *)
(* it calls (module ChunkEncode, Connection.SendIntegralMessage).  Each    *)
(* audio or video packet the player dequeues gets its chunk stream and     *)
(* message type, its timestamp raised to the player's base timestamp plus *)
(* 40 ms when it is behind, updates the base, and is split into chunks.   *)
(*                                                                         *)
(* Metadata packets also pass through sendAvPacket; their payload is       *)
(* rewritten by the external AMF library (MetaDataReform), whose length    *)
(* change is not modelled, so the packets here are audio and video.        *)
(***************************************************************************)
EXTENDS ChunkEncode

CONSTANTS
    AvTimestamps, \* timestamps of the packets as the publisher received them
    TsModulus     \* 2^32: timestamps are uint32 (a smaller power of two for TLC)

ASSUME TsModulus \in Nat \ {0}

\* chunk.MsgAudioMessage and chunk.MsgVideoMessage.
MsgAudioMessage == 8
MsgVideoMessage == 9

VARIABLES
    basicTimestamp,       \* player.basicTimestamp
    basicAudioTimestamp,  \* player.basicAudioTimestamp
    basicVideoTimestamp,  \* player.basicVideoTimestamp
    playing               \* FALSE once sendAvPacket returned an error

playerVars == <<basicTimestamp, basicAudioTimestamp, basicVideoTimestamp, playing>>
allVars == <<vars, playerVars>>

\* uint32 arithmetic: the sum taken modulo 2^32.
U32(n) == n % TsModulus

PlayerTypeOK ==
    /\ TypeOK
    /\ {basicTimestamp, basicAudioTimestamp, basicVideoTimestamp} \subseteq 0..(TsModulus - 1)
    /\ playing \in BOOLEAN

PlayerInit ==
    /\ Init
    /\ basicTimestamp = 0 /\ basicAudioTimestamp = 0 /\ basicVideoTimestamp = 0
    /\ playing = TRUE

\* sendAvPacket's switch: audio on csid 4, video on csid 6.
CsidOf(typ) == IF typ = MsgAudioMessage THEN 4 ELSE 6

\* A timestamp behind the base becomes base + 40 (uint32).
Rewritten(ts) == IF ts < basicTimestamp THEN U32(basicTimestamp + 40) ELSE ts

\* Fault variant of updateBaseTimestamp: the base is the smaller of the
\* audio and video timestamps.
updateBaseTimestampMin(typ, ts) ==
    LET a == IF typ = MsgAudioMessage THEN ts ELSE basicAudioTimestamp
        v == IF typ = MsgVideoMessage THEN ts ELSE basicVideoTimestamp
    IN /\ basicAudioTimestamp' = a
       /\ basicVideoTimestamp' = v
       /\ basicTimestamp' = IF a > v THEN v ELSE a

\* updateBaseTimestamp: record the timestamp for its type; the base is the
\* larger of the audio and video timestamps.
updateBaseTimestamp(typ, ts) ==
    LET a == IF typ = MsgAudioMessage THEN ts ELSE basicAudioTimestamp
        v == IF typ = MsgVideoMessage THEN ts ELSE basicVideoTimestamp
    IN /\ basicAudioTimestamp' = a
       /\ basicVideoTimestamp' = v
       /\ basicTimestamp' = IF a > v THEN a ELSE v

\* sendAvPacket for one dequeued packet: build the message, update the base
\* timestamps, then SendIntegralMessage, whose error (an empty payload)
\* makes doPlaying return.
SendAvPacket ==
    /\ playing
    /\ \E typ \in {MsgAudioMessage, MsgVideoMessage}, ts \in AvTimestamps,
          len \in 0..MaxLen :
         LET m == [csid |-> CsidOf(typ), ts |-> Rewritten(ts), len |-> len,
                   type |-> typ]
         IN /\ updateBaseTimestamp(typ, m.ts)
            /\ SubmitMsg(m)
            /\ playing' = (len > 0)

PlayerNext == SendAvPacket \/ (Iterate /\ UNCHANGED playerVars)

\* The player's goroutine finishes a send it started; what it dequeues is up
\* to the publisher.
PlayerSpec == PlayerInit /\ [][PlayerNext]_allVars /\ WF_allVars(Iterate)

-----------------------------------------------------------------------------
(* Properties                                                               *)

\* The timestamps of the audio and video messages sent to a player never
\* decrease across both types, the aim of updateBaseTimestamp ("keep the
\* stream's overall timestamps increasing", player.go 231): a packet of one
\* type behind the other type's last timestamp is moved past it.
AvTimestampsMonotonic ==
    \A i, j \in 1..Len(submitted) : i < j => submitted[i].ts <= submitted[j].ts

=============================================================================
