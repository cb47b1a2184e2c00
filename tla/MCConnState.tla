---------------------------- MODULE MCConnState ----------------------------
(* Model-checking instance of ConnState.  The client sends up to MaxMsgs   *)
(* messages of the kinds the cfg lists; a player dequeues up to MaxPackets *)
(* media packets.                                                           *)
EXTENDS ConnState
====
