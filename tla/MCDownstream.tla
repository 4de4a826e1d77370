--------------------------- MODULE MCDownstream ----------------------------
(***************************************************************************)
(* Instances of Downstream for TLC.                                        *)
(***************************************************************************)
EXTENDS Downstream, TLC

PoolSymmetry == Permutations(Callers) \cup Permutations(Conns)
=============================================================================
