----------------------------- MODULE LiveStream -----------------------------
(***************************************************************************)
(* What a live session promises its players (spec sections 4.7 and 8):    *)
(* the publisher's packets form one stream; a player that joins receives  *)
(* the live part of the stream from the packet after its joining point,   *)
(* in order, with no packet lost, repeated or invented, until it leaves.  *)
(* Joining, publishing, delivering and leaving are separate steps, so a   *)
(* player may lag behind the stream.  A set of players may leave at once  *)
(* (the session ends).  Cached headers are not part of the live stream.   *)
(***************************************************************************)
EXTENDS Naturals, Sequences

CONSTANTS
    Players,    \* the players of the session
    Packets     \* the packets a publisher may send

VARIABLES
    stream,     \* the packets published, in order
    status,     \* [player -> "out", "in" or "left"]
    start,      \* [player -> length of the stream when it joined]
    got         \* [player -> the live packets it has been given, in order]

vars == <<stream, status, start, got>>

Init ==
    /\ stream = <<>>
    /\ status = [p \in Players |-> "out"]
    /\ start = [p \in Players |-> 0]
    /\ got = [p \in Players |-> <<>>]

Publish ==
    /\ \E pkt \in Packets : stream' = Append(stream, pkt)
    /\ UNCHANGED <<status, start, got>>

Join(p) ==
    /\ status[p] = "out"
    /\ status' = [status EXCEPT ![p] = "in"]
    /\ start' = [start EXCEPT ![p] = Len(stream)]
    /\ UNCHANGED <<stream, got>>

\* The next packet of the stream after those p has been given.
Deliver(p) ==
    LET n == start[p] + Len(got[p]) + 1 IN
    /\ status[p] = "in"
    /\ n <= Len(stream)
    /\ got' = [got EXCEPT ![p] = Append(@, stream[n])]
    /\ UNCHANGED <<stream, status, start>>

Leave(S) ==
    /\ S # {}
    /\ \A p \in S : status[p] = "in"
    /\ status' = [p \in Players |-> IF p \in S THEN "left" ELSE status[p]]
    /\ UNCHANGED <<stream, start, got>>

Next ==
    \/ Publish
    \/ \E p \in Players : Join(p) \/ Deliver(p)
    \/ \E S \in SUBSET Players : Leave(S)

Spec == Init /\ [][Next]_vars

=============================================================================
