-------------------------------- MODULE Vault --------------------------------
(***************************************************************************)
(* What the archive promises of a ledger row (internal/domain/archive): a  *)
(* row that was ever recorded stays in its table or in the archive for     *)
(* good.  It may move between the two any number of times, several rows at *)
(* once on the way in, one by one on the way back, and nothing but an      *)
(* archiving moves it out of its table.                                    *)
(***************************************************************************)
CONSTANT Thing      \* the rows a ledger may come to hold

VARIABLE where      \* where each of them is

Place == {"nowhere", "table", "archive"}

TypeOK == where \in [Thing -> Place]

Init == where = [r \in Thing |-> "nowhere"]

Record(r) ==
    /\ where[r] = "nowhere"
    /\ where' = [where EXCEPT ![r] = "table"]

Shelve(some) ==
    /\ \A r \in some : where[r] = "table"
    /\ where' = [r \in Thing |-> IF r \in some THEN "archive" ELSE where[r]]

Return(r) ==
    /\ where[r] = "archive"
    /\ where' = [where EXCEPT ![r] = "table"]

Next ==
    \/ \E r \in Thing : Record(r) \/ Return(r)
    \/ \E some \in SUBSET Thing : Shelve(some)

Spec == Init /\ [][Next]_where
=============================================================================
