------------------------------ MODULE MCRecords ------------------------------
(***************************************************************************)
(* A small instance of Records for TLC.  Four verbs make a finished run    *)
(* with a resolved finding; two make a retired row of any other table.     *)
(***************************************************************************)
EXTENDS Records

MCMaxVerbs ==
    [t \in AnyTable |-> IF t \in {"runs", "findings"} THEN 4 ELSE IF t = "features" THEN 1 ELSE 2]
=============================================================================
