------------------------- MODULE MCCircuitBreaker --------------------------
(***************************************************************************)
(* Instances of CircuitBreaker for TLC.                                    *)
(***************************************************************************)
EXTENDS CircuitBreaker, TLC

RequestSymmetry == Permutations(Requests)
=============================================================================
