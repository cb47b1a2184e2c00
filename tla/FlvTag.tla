------------------------------ MODULE FlvTag ------------------------------
(***************************************************************************)
(* The FLV media-tag header decoder (src/pkg/av/flv/tag.go, demuxer.go)    *)
(* and the publisher's use of it (session.onRecvAVMessage): the first byte *)
(* of an audio payload, the first five bytes of a video payload, decoded   *)
(* into a Tag, then tested for an AAC or AVC sequence header.              *)
(*                                                                         *)
(* A payload is a record [type, data]: the RTMP message type and its       *)
(* leading bytes.  Decoding yields a record with a status: "ok", "err"     *)
(* (DecodeHeader returns an error) or "panic" (an index out of range).     *)
(***************************************************************************)
EXTENDS Naturals, Sequences, SequencesExt

\* av.AudioType, av.VideoType, av.MetaData (the RTMP message type ids).
AudioType == 8
VideoType == 9
MetaData  == 18

\* new(Tag): every field of mediaTag is zero.
ZeroTag ==
    [FrameType |-> 0, CodecID |-> 0, AvcPacketType |-> 0, CompostioinTime |-> 0,
     SoundFormat |-> 0, SoundRate |-> 0, SoundSize |-> 0, SoundType |-> 0,
     AACPacketType |-> 0]

Failed(status) == ZeroTag @@ [status |-> status]
Decoded(t) == t @@ [status |-> "ok"]

\* CompostioinTime<<8 + int32(b[i]) for the bytes b[2..4] (Go indexes):
\* three bytes never reach the int32 sign bit, and no sign extension of the
\* 24-bit field is done.
CompostioinTime(b) == FoldLeft(LAMBDA acc, x : acc * 256 + x, 0, SubSeq(b, 3, 5))

\* decodeVideoHeader: fewer than 5 bytes is an error; the frame type is the
\* high nibble and the codec id the low nibble of b[0]; only for H.264
\* (codec 7) key and inter frames are AvcPacketType and the composition
\* time read.
decodeVideoHeader(b) ==
    IF Len(b) < 5 THEN Failed("err")
    ELSE LET ft  == b[1] \div 16
             cid == b[1] % 16
             avc == cid = 7 /\ ft \in {1, 2}
         IN Decoded([ZeroTag EXCEPT
                       !.FrameType = ft, !.CodecID = cid,
                       !.AvcPacketType = IF avc THEN b[2] ELSE 0,
                       !.CompostioinTime = IF avc THEN CompostioinTime(b) ELSE 0])

\* decodeAudioHeader: an empty payload is an error; b[0] holds the sound
\* format, rate, size and type; for AAC (format 10) b[1] is the
\* AACPacketType, read with only len(b) >= 1 checked.
decodeAudioHeader(b) ==
    IF Len(b) < 1 THEN Failed("err")
    ELSE LET f == b[1] IN
         IF f \div 16 = 10 /\ Len(b) < 2 THEN Failed("panic")
         ELSE Decoded([ZeroTag EXCEPT
                         !.SoundFormat = f \div 16, !.SoundRate = (f \div 4) % 4,
                         !.SoundSize = (f \div 2) % 2, !.SoundType = f % 2,
                         !.AACPacketType = IF f \div 16 = 10 THEN b[2] ELSE 0])

\* Demuxer.DecodeHeader / Tag.DecodeMediaTagHeader: video by its own
\* decoder, every other type as audio.
DecodeHeader(pkt) ==
    IF pkt.type = VideoType THEN decodeVideoHeader(pkt.data)
    ELSE decodeAudioHeader(pkt.data)

IsKeyFrame(t) == t.FrameType = 1

\* Fault variant of IsSequenceHeader: the AvcPacketType test is dropped.
IsSequenceHeaderAnyKey(t) == IsKeyFrame(t)

\* Tag.IsSequenceHeader: a key frame whose AvcPacketType is 0, whatever the
\* codec.
IsSequenceHeader(t) == IsKeyFrame(t) /\ t.AvcPacketType = 0

\* onRecvAVMessage / onRecvDataMessage: the session cache slot a payload
\* replaces, or "none": metadata, an AAC sequence header (format 10, packet
\* type 0), a video payload for which IsSequenceHeader holds.
CacheSlot(pkt) ==
    LET t == DecodeHeader(pkt) IN
    CASE pkt.type = MetaData -> "meta"
      [] pkt.type = AudioType /\ t.SoundFormat = 10 /\ t.AACPacketType = 0 -> "aSH"
      [] pkt.type = VideoType /\ IsSequenceHeader(t) -> "vSH"
      [] OTHER -> "none"

-----------------------------------------------------------------------------
(* Reference: what a payload is by the FLV specification (spec section 4.7  *)
(* and the glossary): the AAC AudioSpecificConfig (0xAF 0x00), the AVC     *)
(* decoder configuration record (codec 7, AVCPacketType 0), metadata, or a *)
(* frame.                                                                  *)
SpecKind(pkt) ==
    CASE pkt.type = MetaData -> "meta"
      [] pkt.type = AudioType /\ Len(pkt.data) >= 2 /\ pkt.data[1] \div 16 = 10
           /\ pkt.data[2] = 0 -> "aSH"
      [] pkt.type = VideoType /\ Len(pkt.data) >= 2 /\ pkt.data[1] % 16 = 7
           /\ pkt.data[2] = 0 -> "vSH"
      [] OTHER -> "frame"

=============================================================================
