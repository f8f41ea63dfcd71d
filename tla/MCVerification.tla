--------------------------- MODULE MCVerification ---------------------------
(***************************************************************************)
(* Small instances of Verification for TLC.                                *)
(***************************************************************************)
EXTENDS Verification, TLC

\* Runs, texts and scanners are interchangeable.
LedgerSymmetry == Permutations(Run) \cup Permutations(Text) \cup Permutations(Scanner)
=============================================================================
