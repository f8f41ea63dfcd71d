------------------------------- MODULE MCNotes -------------------------------
(***************************************************************************)
(* A small instance of Notes for TLC.                                      *)
(***************************************************************************)
EXTENDS Notes
=============================================================================
