----------------------------- MODULE MCBroker -----------------------------
(* Model-checking instance of Broker.                                      *)
EXTENDS Broker, TLC

CONSTANTS c1, c2, c3, q1, q2

PlayerSymmetry == Permutations(Players)
=============================================================================
