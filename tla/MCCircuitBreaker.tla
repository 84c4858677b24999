-------------------------- MODULE MCCircuitBreaker --------------------------
(* Three goroutines, a threshold of three failures, and an open period just  *)
(* longer than the longest call.                                           *)
EXTENDS CircuitBreaker

CONSTANTS g1, g2, g3

MCCaller == {g1, g2, g3}
MCAnyCall == {"ordinary", "probe"}
=============================================================================
