----------------------------- MODULE MCHubSync -----------------------------
(***************************************************************************)
(* Small instances of HubSync for TLC.                                     *)
(***************************************************************************)
EXTENDS HubSync, TLC

\* Aliases, roots and commands are interchangeable.
HubSymmetry == Permutations(Alias) \cup Permutations(Root) \cup Permutations(Command)
=============================================================================
