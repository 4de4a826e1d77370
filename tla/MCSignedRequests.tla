------------------------- MODULE MCSignedRequests --------------------------
(***************************************************************************)
(* Instances of SignedRequests for TLC.                                    *)
(***************************************************************************)
EXTENDS SignedRequests, TLC

CopySymmetry == Permutations(Copies)
=============================================================================
