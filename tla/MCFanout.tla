----------------------------- MODULE MCFanout -----------------------------
(* Model-checking instance of Fanout: two players, a queue of one slot so  *)
(* that a full queue is reached with one packet in flight, three packets.  *)
EXTENDS Fanout, TLC

CONSTANTS p1, p2

MCPlayers == {p1, p2}
\* An AVC sequence header (0x17 0x00), an AVC key frame (0x17 0x01) and a
\* video payload too short to decode.
MCTags == {[type |-> 9, data |-> <<23, 0, 0, 0, 0>>],
           [type |-> 9, data |-> <<23, 1, 0, 0, 0>>],
           [type |-> 9, data |-> <<23>>]}
\* An AVC inter frame (0x27 0x01).
MCFrameTags == {[type |-> 9, data |-> <<39, 1, 0, 0, 0>>]}
PlayerSymmetry == Permutations(MCPlayers)
=============================================================================
