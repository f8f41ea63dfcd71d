-------------------------- MODULE MCReconcileStudy --------------------------
(***************************************************************************)
(* Small instances of ReconcileStudy for TLC.                              *)
(***************************************************************************)
EXTENDS ReconcileStudy, TLC

\* Plans are interchangeable.
StudySymmetry == Permutations(Plan)
=============================================================================
