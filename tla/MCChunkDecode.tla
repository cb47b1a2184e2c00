--------------------------- MODULE MCChunkDecode ---------------------------
(* Model-checking instance of ChunkDecode.  A chunk size of 2 stands for   *)
(* the default 128 bytes; the client may announce 1 or 3.  Media payloads  *)
(* of 1 to 3 bytes are one, two or three chunks.  One media chunk stream   *)
(* and the control stream 2 interleave.                                     *)
EXTENDS ChunkDecode
====
