------------------------------ MODULE MCUpgrade ------------------------------
(***************************************************************************)
(* A small instance of Upgrade for TLC.                                    *)
(***************************************************************************)
EXTENDS Upgrade, TLC

Symmetry == Permutations(Command)
=============================================================================
