------------------------------- MODULE MCReview -------------------------------
(***************************************************************************)
(* Small instances of Review for TLC.                                      *)
(***************************************************************************)
EXTENDS Review, TLC

ReviewSymmetry == Permutations(Agent)
=============================================================================
