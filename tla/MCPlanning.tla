----------------------------- MODULE MCPlanning -----------------------------
(***************************************************************************)
(* Small instances of Planning for TLC.                                    *)
(***************************************************************************)
EXTENDS Planning, TLC

\* Criteria, agents and housekeepers are interchangeable.
PlanningSymmetry == Permutations(Agent) \cup Permutations(Criterion)
=============================================================================
