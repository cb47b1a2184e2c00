------------------------------ MODULE MCServe ------------------------------
(* Model-checking instance of Serve: every kind of handshake client, then *)
(* up to MaxMsgs client messages of the kinds the cfg lists.              *)
EXTENDS Serve
=============================================================================
