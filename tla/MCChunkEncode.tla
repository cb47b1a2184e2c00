--------------------------- MODULE MCChunkEncode ---------------------------
(* Model-checking instance of ChunkEncode and of PlayerSend, which drives  *)
(* it.  The chunk size 2 stands for LocalChunkSize; payloads of 0 to 5     *)
(* bytes cover the empty message, a payload below, at, one above and at    *)
(* twice the chunk size, and three chunks.  Packet timestamps are 0, 40    *)
(* and 0xFFFFFF, the first that needs the extended field; three packets    *)
(* let audio and video overtake each other and be rewritten.               *)
EXTENDS PlayerSend

MCTimestamps == {0, 40, 16777215}
\* TLC's integers are 32-bit signed, so the uint32 timestamp wraps at 2^25
\* here, the smallest power of two above 0xFFFFFF.
MCTsModulus == 33554432
\* A message timestamp is any value below the modulus.
MCU32 == 0..(MCTsModulus - 1)
====
