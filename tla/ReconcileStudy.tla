--------------------------- MODULE ReconcileStudy ---------------------------
(***************************************************************************)
(* `plan reconcile --apply` alone on a ledger nobody edits: from every     *)
(* plan tree the tables can hold, how many passes does it take?            *)
(*                                                                         *)
(* The steps are those of Planning.  passes counts the committed passes,   *)
(* up to MaxPasses.                                                        *)
(***************************************************************************)
EXTENDS Planning

CONSTANT MaxPasses    \* bound: passes counted

VARIABLE passes       \* reconcile passes committed so far

\* Any tree the schema admits: a milestone belongs to a plan that exists, an item
\* to a milestone that exists.  Reconcile reads nothing else.
AnyTree ==
    /\ plan \in [Plan -> PlanStatus]
    /\ milestone \in [Plan -> Rows]
    /\ parent \in [Item -> [plan : {NoPlan},
                            milestone : {m \in Milestone : MilestoneExists(m)} \cup {NoMilestone}]]
    /\ status \in {st \in [Item -> ItemStatus \cup {Absent}] :
                     \A i \in Item : st[i] = Absent <=> parent[i].milestone = NoMilestone}
    /\ acceptance = [i \in Item |-> [c \in Criterion |-> Absent]]
    /\ logged = [i \in Item |-> NoLog]
    /\ op = [w \in Process |-> Idle]

QuietInit == AnyTree /\ passes = 0

\* The commit of w's pass is the step that makes it idle again.
QuietStep(w) ==
    /\ passes < MaxPasses
    /\ HousekeeperStep(w)
    /\ passes' = IF op'[w] = Idle THEN passes + 1 ELSE passes

QuietNext == \E w \in Housekeeper : QuietStep(w)

QuietSpec == QuietInit /\ [][QuietNext]_<<vars, passes>>

(***************************************************************************)
(* Two passes repair every tree.  The second one is needed because the     *)
(* first can finish the plan, which gives its empty milestones a status to *)
(* follow (milestoneStatusFromChildren, reconcile.go:50).                  *)
(***************************************************************************)
TwoPassesRepair == passes >= 2 => NoDrift

(***************************************************************************)
(* A pass never takes a milestone's open items for finished: no plan turns *)
(* done while an item below it is open (planStatusFromMilestones).         *)
(***************************************************************************)
NoPlanDoneOverOpenItem ==
    [][\A p \in Plan :
            plan[p] # "done" /\ plan'[p] = "done"
            => \A i \in Item, n \in Number :
                   parent[i].milestone = <<p, n>> => status[i] \in Terminal]_<<vars, passes>>
=============================================================================
