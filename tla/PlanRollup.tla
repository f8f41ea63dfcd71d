----------------------------- MODULE PlanRollup -----------------------------
(***************************************************************************)
(* The rollup rules of internal/domain/planning/reconcile.go as pure       *)
(* operators: what status a milestone should have given its plan items,    *)
(* what status a plan should have given its milestones, and what one       *)
(* `plan reconcile --apply` transaction writes to one plan.                *)
(*                                                                         *)
(* Everything is a function of values, so the planning processes, the      *)
(* reconcile study and the proofs use the same definitions.  Milestones of *)
(* a plan are numbered; the table's UNIQUE(plan_id, number) makes the      *)
(* number their identity.                                                  *)
(***************************************************************************)
EXTENDS Naturals

CONSTANT MaxNumber    \* bound: milestone numbers of a plan are 1..MaxNumber

ASSUME MaxNumberAssumption == MaxNumber \in Nat

Number == 1..MaxNumber

\* CHECK constraints of plan_items.status, milestones.status and plans.status.
ItemStatus == {"planned", "in_progress", "done", "wontfix"}
MilestoneStatus == ItemStatus
PlanStatus == {"active", "done", "archived"}

\* Items in these statuses no longer hold their milestone open.
Terminal == {"done", "wontfix"}

Absent == "absent"     \* the row was never inserted
NoStatus == "none"     \* the rule has no opinion (the code's "")

\* A plan's milestones, by number.
Rows == [Number -> MilestoneStatus \cup {Absent}]

\* Operators named Mutated... are not part of the model.  Each is a defect of the
\* operator after it that one of the checked properties has to notice.

\* "done" as soon as one item is done.
MutatedMilestoneStatus(kids, parent) ==
    IF kids = {} THEN IF parent = "done" THEN "done" ELSE NoStatus
    ELSE IF "done" \in kids THEN "done"
    ELSE IF "in_progress" \in kids THEN "in_progress"
    ELSE IF "planned" \in kids THEN "planned"
    ELSE "wontfix"

(***************************************************************************)
(* milestoneStatusFromChildren: kids is the set of statuses that occur     *)
(* among the milestone's items; a milestone without items follows a done   *)
(* plan and is otherwise left alone.                                       *)
(***************************************************************************)
MilestoneStatusFromChildren(kids, parent) ==
    IF kids = {} THEN IF parent = "done" THEN "done" ELSE NoStatus
    ELSE IF "in_progress" \in kids THEN "in_progress"
    ELSE IF "planned" \in kids THEN "planned"
    ELSE IF "done" \in kids THEN "done"
    ELSE "wontfix"

\* planStatusFromMilestones: a plan without milestones is left alone.
PlanStatusFromMilestones(row) ==
    LET present == {row[n] : n \in Number} \ {Absent}
    IN  IF present = {} THEN NoStatus
        ELSE IF present \cap {"in_progress", "planned"} # {} THEN "active"
        ELSE "done"

\* syncMilestoneStatus and syncPlanStatus: the value written, or the old one.
SyncedMilestone(kids, parent, current) ==
    LET status == MilestoneStatusFromChildren(kids, parent)
    IN  IF status = NoStatus THEN current ELSE status

\* "No opinion" is stored.
MutatedSyncedPlan(row, current) == PlanStatusFromMilestones(row)

SyncedPlan(row, current) ==
    LET status == PlanStatusFromMilestones(row)
    IN  IF status = NoStatus THEN current ELSE status

\* FindPlanTreeDrift's two comparisons.
MilestoneDrifts(kids, parent, current) ==
    SyncedMilestone(kids, parent, current) # current

PlanDrifts(row, current) == SyncedPlan(row, current) # current

(***************************************************************************)
(* The transaction of ReconcilePlans on one plan.  It walks the drifted    *)
(* milestones in number order; each is recomputed from its items and from  *)
(* the plan status as the transaction has left it so far, and then the     *)
(* plan is recomputed.  PlanBefore[n] is that plan status when the walk    *)
(* reaches milestone n.  kids[n] are the statuses of n's items, row and    *)
(* current the stored milestone and plan statuses, drift the milestone     *)
(* numbers in the drift report.                                            *)
(***************************************************************************)
PlanBefore(kids, row, current, drift) ==
    LET before[n \in Number] ==
            LET walked == [m \in Number |->
                    IF m \in drift /\ m < n
                      THEN SyncedMilestone(kids[m], before[m], row[m])
                      ELSE row[m]]
            IN  IF \E m \in drift : m < n
                  THEN SyncedPlan(walked, current)
                  ELSE current
    IN  before

ReconciledRow(kids, row, current, drift) ==
    LET before == PlanBefore(kids, row, current, drift)
    IN  [n \in Number |->
            IF n \in drift THEN SyncedMilestone(kids[n], before[n], row[n])
                           ELSE row[n]]

\* Only a plan that was itself reported is recomputed.
MutatedReconciledPlan(kids, row, current, drift, planDrift) ==
    IF planDrift THEN SyncedPlan(ReconciledRow(kids, row, current, drift), current)
                 ELSE current

ReconciledPlan(kids, row, current, drift, planDrift) ==
    IF drift # {} \/ planDrift
      THEN SyncedPlan(ReconciledRow(kids, row, current, drift), current)
      ELSE current
=============================================================================
