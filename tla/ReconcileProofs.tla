-------------------------- MODULE ReconcileProofs ---------------------------
(***************************************************************************)
(* Theorems about ReconcileStudy for any number of plans, milestones and   *)
(* items: what the walk of one reconcile transaction computes, that a pass *)
(* never finishes a plan over an open item, and that two passes of one     *)
(* housekeeper repair every tree.                                          *)
(***************************************************************************)
EXTENDS ReconcileStudy, PlanningProofs, WellFoundedInduction

-----------------------------------------------------------------------------
(* Induction, stated about sets of numbers.                                *)

LEMMA Least ==
    ASSUME NEW T \in SUBSET Nat, T # {}
    PROVE  \E x \in T : \A y \in T : x <= y
<1> DEFINE R == {ss \in Nat \X Nat : ss[1] < ss[2]}
<1>1. IsWellFoundedOn(R, Nat)
  BY NatLessThanWellFounded DEF OpToRel
<1>2. PICK x \in T : \A y \in T : ~ (<<y, x>> \in R)
  BY <1>1, WFMin
<1>3. \A y \in T : ~ (y < x)
  BY <1>2
<1> QED BY <1>3

LEMMA Induction ==
    ASSUME NEW S, 0 \in S, \A k \in Nat : k \in S => k + 1 \in S
    PROVE  Nat \subseteq S
<1> DEFINE T == Nat \ S
<1>1. SUFFICES ASSUME T # {} PROVE FALSE
  OBVIOUS
<1>2. PICK x \in T : \A y \in T : x <= y
  <2>1. T \in SUBSET Nat
    OBVIOUS
  <2> HIDE DEF T
  <2> QED BY <1>1, <2>1, Least
<1>3. x \in Nat /\ x # 0
  OBVIOUS
<1>4. x - 1 \in Nat /\ x - 1 \notin T
  BY <1>2, <1>3
<1> QED BY <1>2, <1>3, <1>4

-----------------------------------------------------------------------------
(* The walk of the reconcile transaction.                                  *)

(***************************************************************************)
(* PlanBefore is what its recursive definition says: the plan status that  *)
(* milestone n meets is computed from the milestones below n only.         *)
(***************************************************************************)
Walked(kids, row, drift, before, n) ==
    [m \in Number |->
        IF m \in drift /\ m < n THEN SyncedMilestone(kids[m], before[m], row[m]) ELSE row[m]]

Met(kids, row, current, drift, before, n) ==
    IF \E m \in drift : m < n
      THEN SyncedPlan(Walked(kids, row, drift, before, n), current)
      ELSE current

LEMMA MetLooksDown ==
    ASSUME NEW kids, NEW row, NEW current, NEW drift, NEW f, NEW g, NEW n,
           \A m \in Number : m < n => f[m] = g[m]
    PROVE  Met(kids, row, current, drift, f, n) = Met(kids, row, current, drift, g, n)
<1>1. Walked(kids, row, drift, f, n) = Walked(kids, row, drift, g, n)
  BY DEF Walked
<1> QED BY <1>1 DEF Met

Walk(kids, row, current, drift, f) ==
    f = [n \in Number |-> Met(kids, row, current, drift, f, n)]

LEMMA WalkExists ==
    ASSUME NEW kids, NEW row, NEW current, NEW drift
    PROVE  \E f : Walk(kids, row, current, drift, f)
<1> DEFINE M(f, n) == Met(kids, row, current, drift, f, n)
           S == {k \in Nat : \E f : f = [n \in 1..k |-> M(f, n)]}
<1>0. \A f, g, n : (\A m \in Number : m < n => f[m] = g[m]) => M(f, n) = M(g, n)
  BY MetLooksDown
<1> HIDE DEF M
<1>1. 0 \in S
  <2> DEFINE f == [n \in 1..0 |-> 0]
  <2>1. f = [n \in 1..0 |-> M(f, n)]
    OBVIOUS
  <2> QED BY <2>1
<1>2. ASSUME NEW k \in Nat, k \in S PROVE k + 1 \in S
  <2>1. PICK f : f = [n \in 1..k |-> M(f, n)]
    BY <1>2
  <2> DEFINE g == [n \in 1..(k + 1) |-> M(f, n)]
  <2>2. \A n \in 1..k : g[n] = f[n]
    BY <2>1
  <2>3. \A n \in 1..(k + 1), m \in Number : m < n => m \in 1..k
    BY MaxNumberAssumption DEF Number
  <2>4. ASSUME NEW n \in 1..(k + 1) PROVE M(f, n) = M(g, n)
    <3>1. \A m \in Number : m < n => f[m] = g[m]
      BY <2>2, <2>3
    <3> HIDE DEF g
    <3> QED BY <1>0, <3>1
  <2>5. g = [n \in 1..(k + 1) |-> M(g, n)]
    BY <2>4, Zenon
  <2>6. k + 1 \in Nat
    OBVIOUS
  <2> HIDE DEF g
  <2> QED BY <2>5, <2>6
<1>3. MaxNumber \in S
  <2> HIDE DEF S
  <2> QED BY <1>1, <1>2, Induction, MaxNumberAssumption
<1> QED BY <1>3 DEF Number, M, Walk

LEMMA PlanBeforeDef ==
    ASSUME NEW kids, NEW row, NEW current, NEW drift, NEW n \in Number
    PROVE  PlanBefore(kids, row, current, drift)[n]
             = Met(kids, row, current, drift, PlanBefore(kids, row, current, drift), n)
<1> DEFINE b == PlanBefore(kids, row, current, drift)
<1>1. b = CHOOSE f : Walk(kids, row, current, drift, f)
  BY DEF PlanBefore, Met, Walked, Walk
<1>2. Walk(kids, row, current, drift, b)
  BY <1>1, WalkExists
<1> QED BY <1>2 DEF Walk

-----------------------------------------------------------------------------
(* One plan, one pass.                                                     *)

\* The milestones FindPlanTreeDrift reports.
Report(kids, row, current) ==
    {n \in Number : row[n] # Absent /\ MilestoneDrifts(kids[n], current, row[n])}

\* What one pass is enough for: the plan follows its milestones, and those that have
\* items follow their items.
FollowsItems(kids, row, current) ==
    /\ ~PlanDrifts(row, current)
    /\ \A n \in Number :
        row[n] # Absent /\ kids[n] # {} => ~MilestoneDrifts(kids[n], current, row[n])

\* The part of NoDrift about one plan.
Undrifted(kids, row, current) ==
    /\ ~PlanDrifts(row, current)
    /\ \A n \in Number : row[n] # Absent => ~MilestoneDrifts(kids[n], current, row[n])

\* A milestone's new status is its old one, the one its items call for, or, when it
\* has no items, done.
LEMMA SyncedChoices ==
    ASSUME NEW kids, NEW par, NEW current
    PROVE  /\ kids # {} => SyncedMilestone(kids, par, current)
                             = MilestoneStatusFromChildren(kids, "active")
           /\ kids = {} /\ par = "done" => SyncedMilestone(kids, par, current) = "done"
           /\ kids = {} /\ par # "done" => SyncedMilestone(kids, par, current) = current
BY DEF SyncedMilestone, MilestoneStatusFromChildren, NoStatus

\* The plan rule, unfolded: one open milestone makes it active, and when every
\* milestone is finished or absent it is done or has no opinion.
LEMMA PlanRule ==
    ASSUME NEW row
    PROVE  /\ (\E n \in Number : row[n] \in {"in_progress", "planned"})
                => PlanStatusFromMilestones(row) = "active"
           /\ (\A n \in Number : row[n] \in Terminal \cup {Absent})
                => PlanStatusFromMilestones(row) \in {"done", NoStatus}
           /\ row \in Rows /\ PlanStatusFromMilestones(row) \in {"done", NoStatus}
                => \A n \in Number : row[n] \in Terminal \cup {Absent}
BY DEF PlanStatusFromMilestones, Terminal, Absent, NoStatus, Rows, MilestoneStatus,
       ItemStatus

LEMMA KeptRow ==
    ASSUME NEW kids, NEW row \in Rows, NEW current
    PROVE  ReconciledRow(kids, row, current, {}) = row
<1>1. ReconciledRow(kids, row, current, {}) = [n \in Number |-> row[n]]
  BY DEF ReconciledRow
<1> QED BY <1>1 DEF Rows

\* Whatever the report, the plan ends at the status its milestones call for.
LEMMA PlanIsSynced ==
    ASSUME NEW kids, NEW row \in Rows, NEW current, NEW drift, NEW planDrift,
           drift = Report(kids, row, current), planDrift <=> PlanDrifts(row, current)
    PROVE  ReconciledPlan(kids, row, current, drift, planDrift)
             = SyncedPlan(ReconciledRow(kids, row, current, drift), current)
<1>1. CASE drift = {} /\ ~planDrift
  BY <1>1, KeptRow DEF ReconciledPlan, PlanDrifts
<1>2. CASE ~(drift = {} /\ ~planDrift)
  BY <1>2 DEF ReconciledPlan
<1> QED BY <1>1, <1>2

(***************************************************************************)
(* One pass with an exact report leaves the plan following its milestones  *)
(* and every milestone that has items following them.                      *)
(***************************************************************************)
LEMMA FirstPass ==
    ASSUME NEW kids, NEW row \in Rows, NEW current, NEW drift, NEW planDrift,
           drift = Report(kids, row, current), planDrift <=> PlanDrifts(row, current)
    PROVE  FollowsItems(kids, ReconciledRow(kids, row, current, drift),
                        ReconciledPlan(kids, row, current, drift, planDrift))
<1> DEFINE R == ReconciledRow(kids, row, current, drift)
           C == ReconciledPlan(kids, row, current, drift, planDrift)
           before == PlanBefore(kids, row, current, drift)
<1>1. ~PlanDrifts(R, C)
  BY PlanIsSynced, SyncSettlesPlan
<1>2. ASSUME NEW n \in Number, R[n] # Absent, kids[n] # {}
      PROVE  ~MilestoneDrifts(kids[n], C, R[n])
  <2>1. CASE n \in drift
    <3>1. R[n] = SyncedMilestone(kids[n], before[n], row[n])
      BY <2>1 DEF ReconciledRow
    <3> HIDE DEF R, C, before
    <3> QED BY <1>2, <3>1, SyncedChoices DEF MilestoneDrifts
  <2>2. CASE n \notin drift
    <3>1. R[n] = row[n]
      BY <2>2 DEF ReconciledRow
    <3>2. ~MilestoneDrifts(kids[n], current, row[n])
      BY <1>2, <2>2, <3>1 DEF Report
    <3> HIDE DEF R, C
    <3> QED BY <1>2, <3>1, <3>2, SyncedChoices DEF MilestoneDrifts
  <2> QED BY <2>1, <2>2
<1> HIDE DEF R, C
<1>3. FollowsItems(kids, R, C)
  BY <1>1, <1>2 DEF FollowsItems
<1> QED BY <1>3 DEF R, C

(***************************************************************************)
(* A second pass settles the rest.  What it finds are empty milestones of  *)
(* a done plan; all others are finished, so the plan stays done while the  *)
(* walk makes them done one by one.                                        *)
(***************************************************************************)
LEMMA SecondPass ==
    ASSUME NEW kids, NEW row \in Rows, NEW current, NEW drift, NEW planDrift,
           drift = Report(kids, row, current), planDrift <=> PlanDrifts(row, current),
           FollowsItems(kids, row, current)
    PROVE  Undrifted(kids, ReconciledRow(kids, row, current, drift),
                     ReconciledPlan(kids, row, current, drift, planDrift))
<1> DEFINE R == ReconciledRow(kids, row, current, drift)
           C == ReconciledPlan(kids, row, current, drift, planDrift)
           b == PlanBefore(kids, row, current, drift)
<1>1. ~planDrift
  BY DEF FollowsItems
<1>2. CASE drift = {}
  <2>1. R = row /\ C = current
    BY <1>1, <1>2, KeptRow DEF ReconciledPlan
  <2>2. \A n \in Number : row[n] # Absent => ~MilestoneDrifts(kids[n], current, row[n])
    BY <1>2 DEF Report
  <2> HIDE DEF R, C
  <2>3. Undrifted(kids, R, C)
    BY <1>1, <2>1, <2>2 DEF Undrifted
  <2> QED BY <2>3 DEF R, C
<1>3. CASE drift # {}
  <2>1. \A n \in drift : /\ n \in Number /\ row[n] # Absent /\ kids[n] = {}
                          /\ MilestoneDrifts(kids[n], current, row[n])
    BY DEF Report, FollowsItems
  <2>2. current = "done"
    BY <1>3, <2>1, SyncedChoices DEF MilestoneDrifts
  <2>3. PlanStatusFromMilestones(row) \in {"done", NoStatus}
    BY <1>1, <2>2, PlanRuleType DEF PlanDrifts, SyncedPlan
  <2>4. \A n \in Number : row[n] \in Terminal \cup {Absent}
    BY <2>3, PlanRule
  <2>5. ASSUME NEW r, \A n \in Number : r[n] \in Terminal \cup {Absent}
        PROVE  SyncedPlan(r, current) = "done"
    BY <2>2, <2>5, PlanRule DEF SyncedPlan
  <2>6. ASSUME NEW n \in Number PROVE b[n] = "done"
    <3>1. b[n] = Met(kids, row, current, drift, b, n)
      BY PlanBeforeDef
    <3> HIDE DEF b
    <3>2. ASSUME NEW m \in Number
          PROVE  Walked(kids, row, drift, b, n)[m] \in Terminal \cup {Absent}
      <4>1. m \in drift => SyncedMilestone(kids[m], b[m], row[m]) \in {"done", row[m]}
        BY <2>1, SyncedChoices
      <4> QED BY <4>1, <2>4 DEF Walked, Terminal
    <3>3. SyncedPlan(Walked(kids, row, drift, b, n), current) = "done"
      BY <2>5, <3>2
    <3> QED BY <2>2, <3>1, <3>3 DEF Met
  <2>7. \A n \in Number : R[n] = IF n \in drift THEN "done" ELSE row[n]
    <3>1. \A n \in Number :
            R[n] = IF n \in drift THEN SyncedMilestone(kids[n], b[n], row[n]) ELSE row[n]
      BY DEF ReconciledRow
    <3> HIDE DEF R, b
    <3> QED BY <2>1, <2>6, <3>1, SyncedChoices
  <2>8. C = SyncedPlan(R, current)
    BY PlanIsSynced
  <2> HIDE DEF R, C
  <2>9. C = "done"
    <3>1. \A n \in Number : R[n] \in Terminal \cup {Absent}
      BY <2>4, <2>7 DEF Terminal
    <3> QED BY <2>5, <2>8, <3>1
  <2>10. ASSUME NEW n \in Number, R[n] # Absent PROVE ~MilestoneDrifts(kids[n], C, R[n])
    <3>1. CASE n \in drift
      BY <2>1, <2>7, <2>9, <3>1, SyncedChoices DEF MilestoneDrifts
    <3>2. CASE n \notin drift
      BY <2>2, <2>7, <2>9, <2>10, <3>2 DEF Report
    <3> QED BY <3>1, <3>2
  <2>11. Undrifted(kids, R, C)
    BY <2>8, <2>10, SyncSettlesPlan DEF Undrifted
  <2> QED BY <2>11 DEF R, C
<1> QED BY <1>2, <1>3

(***************************************************************************)
(* A milestone with an open item is open after the pass, provided it was   *)
(* reported or already had the status its items call for; and then the     *)
(* plan is not finished.                                                   *)
(***************************************************************************)
LEMMA OpenStays ==
    ASSUME NEW kids, NEW row, NEW current, NEW drift, NEW planDrift, NEW n \in Number,
           kids[n] \cap {"in_progress", "planned"} # {},
           n \notin drift => row[n] = MilestoneStatusFromChildren(kids[n], "active"),
           current # "done"
    PROVE  ReconciledPlan(kids, row, current, drift, planDrift) # "done"
<1> DEFINE R == ReconciledRow(kids, row, current, drift)
           b == PlanBefore(kids, row, current, drift)
<1>1. MilestoneStatusFromChildren(kids[n], "active") \in {"in_progress", "planned"}
  BY DEF MilestoneStatusFromChildren
<1>2. R[n] = IF n \in drift THEN SyncedMilestone(kids[n], b[n], row[n]) ELSE row[n]
  BY DEF ReconciledRow
<1> HIDE DEF R, b
<1>3. R[n] \in {"in_progress", "planned"}
  BY <1>1, <1>2, SyncedChoices
<1>4. SyncedPlan(R, current) = "active"
  BY <1>3, PlanRule DEF SyncedPlan, NoStatus
<1> QED BY <1>4 DEF ReconciledPlan, R

KidsOf(p) == [n \in Number |-> Kids(p, n, status)]


-----------------------------------------------------------------------------
(* The invariant for any number of housekeepers.                           *)

\* All plans exist, so does every milestone that has items, and these are live.
Planted ==
    /\ plan \in [Plan -> PlanStatus]
    /\ \A i \in Item : parent[i].milestone # NoMilestone =>
            MilestoneExists(parent[i].milestone) /\ status[i] \in ItemStatus
    /\ passes \in Nat

\* The status the items of a milestone call for, whatever its plan is.
Truth(p, n) == MilestoneStatusFromChildren(Kids(p, n, status), "active")
Right(p, n) == Kids(p, n, status) # {} => milestone[p][n] = Truth(p, n)

\* A milestone that a scan passed over has the status its items call for, now and when
\* the scan commits: other passes only ever write that status.
Heeded ==
    \A w \in Process : op[w].kind = "scan" =>
        /\ \A p \in Plan \ op[w].todo, n \in Number : n \notin op[w].drift[p] => Right(p, n)
        /\ \A p \in Plan, n \in Number : op[w].at = p =>
            /\ op[w].row[n] = Absent => Kids(p, n, status) = {}
            /\ Kids(p, n, status) # {} /\ op[w].row[n] = Truth(p, n) => Right(p, n)
            /\ n < op[w].next /\ n \notin op[w].drift[p] => Right(p, n)

QuietInv == TypeOK /\ Planted /\ Heeded

-----------------------------------------------------------------------------
(* The invariant for a single housekeeper.                                 *)

OneHousekeeper == \A v, w \in Housekeeper : v = w

\* With nobody else at work the report is exact.
Exact ==
    \A w \in Housekeeper : op[w].kind = "scan" =>
        /\ op[w].planRow = plan
        /\ \A p \in Plan \ op[w].todo :
            /\ op[w].drift[p] = Report(KidsOf(p), milestone[p], plan[p])
            /\ p \in op[w].planDrift <=> PlanDrifts(milestone[p], plan[p])
        /\ \A p \in op[w].todo :
            /\ p \notin op[w].planDrift
            /\ op[w].at # p => op[w].drift[p] = {}
        /\ \A p \in Plan : op[w].at = p =>
            /\ p \in op[w].todo
            /\ op[w].row = milestone[p]
            /\ op[w].drift[p] = {n \in Report(KidsOf(p), milestone[p], plan[p]) : n < op[w].next}

Passed ==
    /\ passes >= 1 => \A p \in Plan : FollowsItems(KidsOf(p), milestone[p], plan[p])
    /\ passes >= 2 => \A p \in Plan : Undrifted(KidsOf(p), milestone[p], plan[p])

-----------------------------------------------------------------------------
(* The steps of a housekeeper on a quiet ledger.                           *)

LEMMA QuietInitType == QuietInit => TypeOK /\ Planted
<1> SUFFICES ASSUME QuietInit PROVE TypeOK /\ Planted
  OBVIOUS
<1>1. op \in [Process -> OpState] /\ acceptance \in [Item -> [Criterion -> {Absent, "open", "met", Archived}]]
  BY DEF QuietInit, AnyTree, OpState
<1>2. parent \in [Item -> [plan : Plan \cup {NoPlan}, milestone : Milestone \cup {NoMilestone}]]
  BY DEF QuietInit, AnyTree
<1>3. \A i \in Item : parent[i].milestone # NoMilestone =>
          MilestoneExists(parent[i].milestone) /\ status[i] \in ItemStatus
  BY DEF QuietInit, AnyTree
<1>4. TypeOK
  BY <1>1, <1>2 DEF QuietInit, AnyTree, TypeOK
<1> QED BY <1>3, <1>4 DEF QuietInit, AnyTree, Planted

\* What the five steps do to the process that takes them, field by field, and that they
\* leave the items and every other process alone.
LEMMA QuietSteps ==
    ASSUME TypeOK, NEW w \in Process, HousekeeperStep(w)
    PROVE  /\ UNCHANGED <<status, parent>>
           /\ \A v \in Process : v # w => op'[v] = op[v]
           /\ \/ /\ UNCHANGED <<plan, milestone>>
                 /\ op[w] = Idle
                 /\ op'[w].kind = "scan" /\ op'[w].planRow = plan
                 /\ op'[w].todo = {p \in Plan : plan[p] # Absent}
                 /\ op'[w].at = NoPlan
                 /\ op'[w].drift = [p \in Plan |-> {}] /\ op'[w].planDrift = {}
              \/ /\ UNCHANGED <<plan, milestone>>
                 /\ op[w] \in Scan /\ op[w].at = NoPlan
                 /\ \E p \in op[w].todo :
                      op'[w] = [op[w] EXCEPT !.at = p, !.row = milestone[p], !.next = 1]
              \/ /\ UNCHANGED <<plan, milestone>>
                 /\ op[w] \in Scan /\ op[w].at \in Plan /\ op[w].next \in Number
                 /\ ScanChildren(w)
              \/ /\ UNCHANGED <<plan, milestone>>
                 /\ op[w] \in Scan /\ op[w].at \in Plan /\ op[w].next = MaxNumber + 1
                 /\ ScanPlanStatus(w)
              \/ /\ op[w] \in Scan
                 /\ op'[w] = Idle
                 /\ ReconcileApply(w)
<1>1. HousekeeperStep(w) => UNCHANGED <<status, parent>>
  BY ReconcileKeepsItems DEF HousekeeperStep, itemRows
<1>2. op \in [Process -> OpState]
  BY DEF TypeOK
<1>3. ASSUME NEW scope, ScanPlans(w, scope)
      PROVE  /\ \A v \in Process : v # w => op'[v] = op[v]
             /\ UNCHANGED <<plan, milestone>>
             /\ op[w] = Idle
             /\ op'[w].kind = "scan" /\ op'[w].planRow = plan
             /\ op'[w].todo = scope
             /\ op'[w].at = NoPlan
             /\ op'[w].drift = [p \in Plan |-> {}] /\ op'[w].planDrift = {}
  BY <1>2, <1>3 DEF ScanPlans, ledger
<1>4. ASSUME NEW p \in Plan, ScanMilestones(w, p)
      PROVE  /\ \A v \in Process : v # w => op'[v] = op[v]
             /\ UNCHANGED <<plan, milestone>>
             /\ op[w] \in Scan /\ op[w].at = NoPlan
             /\ p \in op[w].todo
             /\ op'[w] = [op[w] EXCEPT !.at = p, !.row = milestone[p], !.next = 1]
  BY <1>2, <1>4, ScanRead DEF ScanMilestones, ledger
<1>5. ASSUME ScanChildren(w)
      PROVE  /\ \A v \in Process : v # w => op'[v] = op[v]
             /\ UNCHANGED <<plan, milestone>>
             /\ op[w] \in Scan /\ op[w].at \in Plan /\ op[w].next \in Number
  <2>1. op[w] \in Scan
    BY <1>2, <1>5, ScanRead DEF ScanChildren
  <2> QED BY <1>2, <1>5, <2>1 DEF ScanChildren, Scan, ledger
<1>6. ASSUME ScanPlanStatus(w)
      PROVE  /\ \A v \in Process : v # w => op'[v] = op[v]
             /\ UNCHANGED <<plan, milestone>>
             /\ op[w] \in Scan /\ op[w].at \in Plan /\ op[w].next = MaxNumber + 1
  <2>1. op[w] \in Scan
    BY <1>2, <1>6, ScanRead DEF ScanPlanStatus
  <2> QED BY <1>2, <1>6, <2>1 DEF ScanPlanStatus, Scan, ledger
<1>7. ASSUME ReconcileApply(w)
      PROVE  /\ \A v \in Process : v # w => op'[v] = op[v]
             /\ op[w] \in Scan
             /\ op'[w] = Idle
  BY <1>2, <1>7, ScanRead DEF ReconcileApply
<1> HIDE DEF TypeOK
<1> QED BY <1>1, <1>3, <1>4, <1>5, <1>6, <1>7 DEF HousekeeperStep, ReconcileStep

\* The two reads that compare: what they leave in the process.
LEMMA ChildrenRead ==
    ASSUME TypeOK, NEW w \in Process, ScanChildren(w),
           op[w] \in Scan, op[w].at \in Plan, op[w].next \in Number
    PROVE  LET p == op[w].at
               n == op[w].next
               drifts == /\ op[w].row[n] # Absent
                         /\ MilestoneDrifts(Kids(p, n, status), plan[p], op[w].row[n])
           IN  /\ op'[w].kind = "scan" /\ op'[w].planRow = op[w].planRow
               /\ op'[w].todo = op[w].todo /\ op'[w].at = p
               /\ op'[w].row = op[w].row /\ op'[w].next = n + 1
               /\ op'[w].planDrift = op[w].planDrift
               /\ \A q \in Plan : q # p => op'[w].drift[q] = op[w].drift[q]
               /\ op'[w].drift[p] = IF drifts THEN op[w].drift[p] \cup {n}
                                              ELSE op[w].drift[p]
<1> DEFINE p == op[w].at
           n == op[w].next
           drifts == /\ op[w].row[n] # Absent
                     /\ MilestoneDrifts(Kids(p, n, status), plan[p], op[w].row[n])
           d == IF drifts THEN op[w].drift[p] \cup {n} ELSE op[w].drift[p]
<1>1. op' = [op EXCEPT ![w].next = n + 1, ![w].drift[p] = d]
  BY Zenon DEF ScanChildren
<1>2. op \in [Process -> OpState]
  BY DEF TypeOK
<1> HIDE DEF d
<1>3. op'[w] = [op[w] EXCEPT !.next = n + 1, !.drift[p] = d]
  BY <1>1, <1>2
<1>4. /\ op'[w].kind = "scan" /\ op'[w].planRow = op[w].planRow
      /\ op'[w].todo = op[w].todo /\ op'[w].at = p
      /\ op'[w].row = op[w].row /\ op'[w].next = n + 1
      /\ op'[w].planDrift = op[w].planDrift
      /\ op'[w].drift = [op[w].drift EXCEPT ![p] = d]
  BY <1>3 DEF Scan
<1>5. op[w].drift \in [Plan -> SUBSET Number]
  BY DEF Scan
<1>6. \A q \in Plan : q # p => op'[w].drift[q] = op[w].drift[q]
  BY <1>4, <1>5
<1>7. op'[w].drift[p] = d
  BY <1>4, <1>5
<1> QED BY <1>4, <1>6, <1>7, Zenon DEF d

LEMMA PlanRead ==
    ASSUME TypeOK, NEW w \in Process, ScanPlanStatus(w), op[w] \in Scan, op[w].at \in Plan
    PROVE  LET p == op[w].at
               drifts == PlanDrifts(milestone[p], op[w].planRow[p])
           IN  /\ op'[w].kind = "scan" /\ op'[w].planRow = op[w].planRow
               /\ op'[w].todo = op[w].todo \ {p} /\ op'[w].at = NoPlan
               /\ op'[w].drift = op[w].drift
               /\ op'[w].planDrift = IF drifts THEN op[w].planDrift \cup {p}
                                               ELSE op[w].planDrift
<1> DEFINE p == op[w].at
           drifts == PlanDrifts(milestone[p], op[w].planRow[p])
           d == IF drifts THEN op[w].planDrift \cup {p} ELSE op[w].planDrift
<1>1. op' = [op EXCEPT ![w].todo = op[w].todo \ {p}, ![w].at = NoPlan, ![w].row = NoRow,
                       ![w].next = 1, ![w].planDrift = d]
  BY Zenon DEF ScanPlanStatus
<1>2. op \in [Process -> OpState]
  BY DEF TypeOK
<1> HIDE DEF d
<1>3. op'[w] = [op[w] EXCEPT !.todo = op[w].todo \ {p}, !.at = NoPlan, !.row = NoRow,
                             !.next = 1, !.planDrift = d]
  BY <1>1, <1>2
<1>4. /\ op'[w].kind = "scan" /\ op'[w].planRow = op[w].planRow
      /\ op'[w].todo = op[w].todo \ {p} /\ op'[w].at = NoPlan
      /\ op'[w].drift = op[w].drift /\ op'[w].planDrift = d
  BY <1>3 DEF Scan
<1> QED BY <1>4, Zenon DEF d

-----------------------------------------------------------------------------
(* Any number of housekeepers.                                             *)

LEMMA QuietType == TypeOK /\ [QuietNext]_<<vars, passes>> => TypeOK'
<1> SUFFICES ASSUME TypeOK, [QuietNext]_<<vars, passes>> PROVE TypeOK'
  OBVIOUS
<1>1. ASSUME NEW w \in Housekeeper, QuietStep(w) PROVE TypeOK'
  <2>1. {{p \in Plan : plan[p] # Absent}} \in SUBSET SUBSET Plan
    OBVIOUS
  <2> QED BY <1>1, <2>1, TypeOKReconcile DEF QuietStep, HousekeeperStep, Process
<1>2. CASE UNCHANGED <<vars, passes>>
  BY <1>2 DEF vars, TypeOK
<1> QED BY <1>1, <1>2 DEF QuietNext

\* A pass leaves a milestone where it is or gives it the status its items call for, and
\* it never creates or removes a row.
LEMMA ApplyWrites ==
    ASSUME TypeOK, Planted, NEW w \in Process, ReconcileApply(w),
           NEW p \in Plan, NEW n \in Number
    PROVE  /\ milestone[p][n] # Absent => milestone'[p][n] # Absent
           /\ Kids(p, n, status) # {} => milestone'[p][n] \in {milestone[p][n], Truth(p, n)}
           /\ Kids(p, n, status) # {} /\ n \in op[w].drift[p] => milestone'[p][n] = Truth(p, n)
           /\ n \notin op[w].drift[p] => milestone'[p][n] = milestone[p][n]
<1> DEFINE b == PlanBefore(KidsOf(p), milestone[p], plan[p], op[w].drift[p])
<1>1. milestone'[p] = ReconciledRow(KidsOf(p), milestone[p], plan[p], op[w].drift[p])
  BY DEF ReconcileApply, KidsOf
<1>2. milestone'[p][n] = IF n \in op[w].drift[p]
                           THEN SyncedMilestone(Kids(p, n, status), b[n], milestone[p][n])
                           ELSE milestone[p][n]
  BY <1>1 DEF ReconciledRow, KidsOf
<1> HIDE DEF b
<1>3. milestone[p][n] # Absent =>
        SyncedMilestone(Kids(p, n, status), b[n], milestone[p][n]) # Absent
  BY MilestoneRuleType DEF SyncedMilestone, MilestoneStatus, ItemStatus, NoStatus, Absent
<1> QED BY <1>2, <1>3, SyncedChoices DEF Truth

LEMMA PlantedStep ==
    ASSUME TypeOK, Planted, NEW w \in Housekeeper, QuietStep(w)
    PROVE  Planted'
<1> USE DEF Planted
<1>1. w \in Process /\ HousekeeperStep(w)
  BY DEF QuietStep, Process
<1>2. UNCHANGED <<status, parent>>
  BY <1>1, QuietSteps
<1>3. passes' \in Nat
  BY DEF QuietStep
<1>4. plan' \in [Plan -> PlanStatus]
  <2>1. CASE UNCHANGED plan
    BY <2>1
  <2>2. CASE ReconcileApply(w)
    <3>1. ASSUME NEW p \in Plan, NEW row PROVE SyncedPlan(row, plan[p]) \in PlanStatus
      BY <3>1, PlanRuleType DEF SyncedPlan, PlanStatus, NoStatus
    <3> QED BY <2>2, <3>1 DEF ReconcileApply, ReconciledPlan
  <2> QED BY <1>1, <2>1, <2>2, QuietSteps
<1>5. \A m \in Milestone : MilestoneExists(m) => MilestoneExists(m)'
  <2>1. CASE UNCHANGED milestone
    BY <2>1 DEF MilestoneExists
  <2>2. CASE ReconcileApply(w)
    <3> SUFFICES ASSUME NEW p \in Plan, NEW n \in Number, milestone[p][n] # Absent
                 PROVE  milestone'[p][n] # Absent
      BY DEF MilestoneExists, Milestone
    <3> QED BY <1>1, <2>2, ApplyWrites
  <2> QED BY <1>1, <2>1, <2>2, QuietSteps
<1>6. \A i \in Item : parent[i].milestone \in Milestone \cup {NoMilestone}
  BY DEF TypeOK
<1> QED BY <1>2, <1>3, <1>4, <1>5, <1>6

\* What another process's pass does cannot make a right status wrong.
LEMMA RightStays ==
    ASSUME TypeOK, Planted, NEW w \in Process, HousekeeperStep(w),
           NEW p \in Plan, NEW n \in Number, Right(p, n)
    PROVE  Right(p, n)'
<1>1. UNCHANGED <<status, parent>>
  BY QuietSteps
<1>2. Kids(p, n, status)' = Kids(p, n, status) /\ Truth(p, n)' = Truth(p, n)
  BY <1>1 DEF Kids, Truth
<1>3. CASE UNCHANGED milestone
  BY <1>2, <1>3 DEF Right
<1>4. CASE ReconcileApply(w)
  BY <1>2, <1>4, ApplyWrites DEF Right
<1> QED BY <1>3, <1>4, QuietSteps

LEMMA HeededStep ==
    ASSUME QuietInv, NEW w \in Housekeeper, QuietStep(w)
    PROVE  Heeded'
<1> DEFINE Good(v) ==
             op[v].kind = "scan" =>
               /\ \A p \in Plan \ op[v].todo, n \in Number : n \notin op[v].drift[p] => Right(p, n)
               /\ \A p \in Plan, n \in Number : op[v].at = p =>
                    /\ op[v].row[n] = Absent => Kids(p, n, status) = {}
                    /\ Kids(p, n, status) # {} /\ op[v].row[n] = Truth(p, n) => Right(p, n)
                    /\ n < op[v].next /\ n \notin op[v].drift[p] => Right(p, n)
<1>0. TypeOK /\ Planted /\ \A v \in Process : Good(v)
  BY DEF QuietInv, Heeded
<1>1. w \in Process /\ HousekeeperStep(w)
  BY DEF QuietStep, Process
<1>2. UNCHANGED <<status, parent>> /\ \A v \in Process : v # w => op'[v] = op[v]
  BY <1>0, <1>1, QuietSteps
<1>3. \A p \in Plan, n \in Number :
        Kids(p, n, status)' = Kids(p, n, status) /\ Truth(p, n)' = Truth(p, n)
  BY <1>2 DEF Kids, Truth
<1>4. \A p \in Plan, n \in Number : Right(p, n) => Right(p, n)'
  BY <1>0, <1>1, RightStays
<1>5. ASSUME NEW v \in Process, v # w PROVE Good(v)'
  BY <1>0, <1>2, <1>3, <1>4, <1>5
<1>6. Good(w)'
  <2>0. Good(w)
    BY <1>0, <1>1
  <2>1. CASE /\ op'[w].kind = "scan"
             /\ op'[w].todo = {p \in Plan : plan[p] # Absent}
             /\ op'[w].at = NoPlan
    <3>1. \A p \in Plan : p \in op'[w].todo /\ op'[w].at # p
      BY <1>0, <2>1, PlanningAssumption DEF Planted, PlanStatus, Absent
    <3> QED BY <3>1
  <2>2. CASE /\ UNCHANGED milestone
             /\ op[w] \in Scan /\ op[w].at = NoPlan
             /\ \E p \in op[w].todo :
                  op'[w] = [op[w] EXCEPT !.at = p, !.row = milestone[p], !.next = 1]
    <3>1. PICK q \in op[w].todo :
                  op'[w] = [op[w] EXCEPT !.at = q, !.row = milestone[q], !.next = 1]
      BY <2>2
    <3>2. /\ op'[w].at = q /\ op'[w].row = milestone[q] /\ op'[w].next = 1
          /\ op'[w].todo = op[w].todo /\ op'[w].drift = op[w].drift
          /\ op[w].kind = "scan" /\ q \in Plan
      BY <2>2, <3>1 DEF Scan
    <3>3. \A p \in Plan \ op'[w].todo, n \in Number : n \notin op'[w].drift[p] => Right(p, n)'
      BY <1>4, <2>0, <3>2
    <3>4. \A n \in Number : milestone[q][n] = Absent => Kids(q, n, status) = {}
      <4>1. \A n \in Number : <<q, n>> # NoMilestone
        BY <3>2, PlanningAssumption DEF Milestone
      <4>2. ASSUME NEW n \in Number, NEW i \in Item, parent[i].milestone = <<q, n>>
            PROVE  milestone[q][n] # Absent
        <5>1. MilestoneExists(<<q, n>>)
          BY <1>0, <4>1, <4>2 DEF Planted
        <5> QED BY <5>1 DEF MilestoneExists
      <4> QED BY <4>2 DEF Kids
    <3>5. \A n \in Number : Kids(q, n, status) # {} /\ milestone[q][n] = Truth(q, n)
                              => Right(q, n)'
      <4>1. \A n \in Number : Kids(q, n, status) # {} /\ milestone[q][n] = Truth(q, n)
                                => Right(q, n)
        BY DEF Right
      <4> QED BY <1>4, <3>2, <4>1
    <3>6. \A n \in Number : ~(n < 1)
      BY DEF Number
    <3> QED BY <1>3, <2>2, <3>2, <3>3, <3>4, <3>5, <3>6
  <2>3. CASE /\ UNCHANGED milestone
             /\ op[w] \in Scan /\ op[w].at \in Plan /\ op[w].next \in Number
             /\ ScanChildren(w)
    <3> PICK p \in Plan, n \in Number : p = op[w].at /\ n = op[w].next
      BY <2>3
    <3> DEFINE drifts == /\ op[w].row[n] # Absent
                         /\ MilestoneDrifts(Kids(p, n, status), plan[p], op[w].row[n])
    <3>1. /\ op[w].kind = "scan"
          /\ op'[w].todo = op[w].todo /\ op'[w].at = p
          /\ op'[w].row = op[w].row /\ op'[w].next = n + 1
          /\ \A q \in Plan : q # p => op'[w].drift[q] = op[w].drift[q]
          /\ op'[w].drift[p] = IF drifts THEN op[w].drift[p] \cup {n}
                                         ELSE op[w].drift[p]
      BY <1>0, <1>1, <2>3, ChildrenRead DEF Scan
    <3>2. ~drifts => Right(p, n)
      <4>1. CASE Kids(p, n, status) = {}
        BY <4>1 DEF Right
      <4>2. CASE Kids(p, n, status) # {} /\ op[w].row[n] = Absent
        BY <2>0, <2>3, <3>1, <4>2
      <4>3. CASE Kids(p, n, status) # {} /\ op[w].row[n] # Absent
        <5>1. ~drifts => op[w].row[n] = Truth(p, n)
          BY <4>3, SyncedChoices DEF MilestoneDrifts, Truth
        <5> HIDE DEF drifts
        <5> QED BY <2>0, <2>3, <3>1, <4>3, <5>1
      <4> QED BY <4>1, <4>2, <4>3
    <3>3. \A k \in Number : k < n + 1 => k < n \/ k = n
      BY <2>3 DEF Number
    <3>4. \A q \in Plan : op[w].drift[q] \subseteq op'[w].drift[q]
      BY <3>1
    <3> HIDE DEF drifts
    <3>5. \A q \in Plan \ op'[w].todo, k \in Number : k \notin op'[w].drift[q] => Right(q, k)'
      BY <1>4, <2>0, <3>1, <3>4
    <3>6. n \notin op'[w].drift[p] => Right(p, n)'
      BY <1>4, <2>3, <3>1, <3>2
    <3>7. \A k \in Number : k < n + 1 /\ k \notin op'[w].drift[p] => Right(p, k)'
      BY <1>4, <2>0, <2>3, <3>1, <3>3, <3>4, <3>6
    <3>8. \A k \in Number :
            /\ op'[w].row[k] = Absent => Kids(p, k, status)' = {}
            /\ Kids(p, k, status)' # {} /\ op'[w].row[k] = Truth(p, k)' => Right(p, k)'
      BY <1>3, <1>4, <2>0, <2>3, <3>1
    <3> QED BY <2>3, <3>1, <3>5, <3>7, <3>8
  <2>4. CASE /\ UNCHANGED milestone
             /\ op[w] \in Scan /\ op[w].at \in Plan /\ op[w].next = MaxNumber + 1
             /\ ScanPlanStatus(w)
    <3>1. /\ op[w].kind = "scan"
          /\ op'[w].todo = op[w].todo \ {op[w].at} /\ op'[w].at = NoPlan
          /\ op'[w].drift = op[w].drift
      BY <1>0, <1>1, <2>4, PlanRead DEF Scan
    <3>2. \A n \in Number : n < op[w].next
      BY <2>4, MaxNumberAssumption DEF Number
    <3>3. \A p \in Plan \ op'[w].todo, n \in Number : n \notin op'[w].drift[p] => Right(p, n)
      BY <2>0, <2>4, <3>1, <3>2
    <3> QED BY <1>4, <3>1, <3>3, PlanningAssumption
  <2>5. CASE op'[w] = Idle
    BY <2>5 DEF Idle
  <2> QED BY <1>0, <1>1, <2>1, <2>2, <2>3, <2>4, <2>5, QuietSteps
<1>7. \A v \in Process : Good(v)'
  BY <1>5, <1>6
<1> QED BY <1>7 DEF Heeded

LEMMA QuietInvInit == QuietInit => QuietInv
BY QuietInitType DEF QuietInv, QuietInit, AnyTree, Heeded, Idle

LEMMA QuietInvStep == QuietInv /\ [QuietNext]_<<vars, passes>> => QuietInv'
<1> SUFFICES ASSUME QuietInv, [QuietNext]_<<vars, passes>> PROVE QuietInv'
  OBVIOUS
<1>1. TypeOK'
  BY QuietType DEF QuietInv
<1>2. ASSUME NEW w \in Housekeeper, QuietStep(w) PROVE Planted' /\ Heeded'
  BY <1>2, PlantedStep, HeededStep DEF QuietInv
<1>3. CASE UNCHANGED <<vars, passes>>
  <2>1. Planted'
    BY <1>3 DEF QuietInv, Planted, vars, MilestoneExists
  <2>2. \A p, n : Kids(p, n, status)' = Kids(p, n, status)
    BY <1>3 DEF vars, Kids
  <2>3. \A p, n : Truth(p, n)' = Truth(p, n) /\ (Right(p, n)' <=> Right(p, n))
    BY <1>3, <2>2 DEF vars, Truth, Right
  <2>4. op' = op
    BY <1>3 DEF vars
  <2>5. Heeded'
    BY <2>2, <2>3, <2>4 DEF QuietInv, Heeded
  <2> QED BY <1>1, <2>1, <2>5 DEF QuietInv
<1> QED BY <1>1, <1>2, <1>3 DEF QuietNext, QuietInv

LEMMA DoneStep ==
    ASSUME QuietInv, [QuietNext]_<<vars, passes>>,
           NEW p \in Plan, plan[p] # "done", plan'[p] = "done",
           NEW i \in Item, NEW n \in Number, parent[i].milestone = <<p, n>>
    PROVE  status[i] \in Terminal
<1> SUFFICES ASSUME status[i] \notin Terminal PROVE FALSE
  OBVIOUS
<1> USE DEF QuietInv
<1>1. PICK w \in Process : HousekeeperStep(w)
  BY DEF QuietNext, QuietStep, vars, Process
<1>2. op[w] \in Scan /\ ReconcileApply(w)
  BY <1>1, QuietSteps
<1>3. <<p, n>> # NoMilestone
  BY PlanningAssumption DEF Milestone
<1>4. status[i] \in {"in_progress", "planned"}
  BY <1>3 DEF Planted, ItemStatus, Terminal
<1>5. KidsOf(p)[n] \cap {"in_progress", "planned"} # {}
  BY <1>4 DEF KidsOf, Kids, ItemStatus
<1>6. n \notin op[w].drift[p] => milestone[p][n] = MilestoneStatusFromChildren(KidsOf(p)[n], "active")
  <2>1. n \notin op[w].drift[p] => Right(p, n)
    BY <1>2 DEF Heeded, Scan, ReconcileApply
  <2> QED BY <1>5, <2>1 DEF Right, Truth, KidsOf
<1>7. plan'[p] = ReconciledPlan(KidsOf(p), milestone[p], plan[p], op[w].drift[p],
                               p \in op[w].planDrift)
  BY <1>2 DEF ReconcileApply, KidsOf
<1> QED BY <1>5, <1>6, <1>7, OpenStays

(***************************************************************************)
(* However many reconciles run side by side, each with a report of its own *)
(* age, none of them finishes a plan while an item below it is open.       *)
(***************************************************************************)
THEOREM NoPlanDoneCorrect == QuietSpec => NoPlanDoneOverOpenItem
<1> DEFINE Safe == \A p \in Plan :
                      plan[p] # "done" /\ plan'[p] = "done"
                      => \A i \in Item, n \in Number :
                            parent[i].milestone = <<p, n>> => status[i] \in Terminal
<1>1. QuietInv /\ [QuietNext]_<<vars, passes>> => [Safe]_<<vars, passes>>
  BY DoneStep
<1> QED BY <1>1, QuietInvInit, QuietInvStep, PTL DEF QuietSpec, NoPlanDoneOverOpenItem

-----------------------------------------------------------------------------
(* A single housekeeper.                                                   *)

LEMMA ExactStep ==
    ASSUME OneHousekeeper, QuietInv, Exact, NEW w \in Housekeeper, QuietStep(w)
    PROVE  Exact'
<1> USE DEF QuietInv
<1>1. w \in Process /\ HousekeeperStep(w) /\ Housekeeper = {w}
  BY DEF OneHousekeeper, QuietStep, Process
<1>2. UNCHANGED <<status, parent>>
  BY <1>1, QuietSteps
<1>3. \A p \in Plan : KidsOf(p)' = KidsOf(p)
  BY <1>2 DEF KidsOf, Kids
<1>4. \A p \in Plan : p # NoPlan
  BY PlanningAssumption
<1>5. CASE /\ UNCHANGED <<plan, milestone>>
           /\ op'[w].kind = "scan" /\ op'[w].planRow = plan
           /\ op'[w].todo = {p \in Plan : plan[p] # Absent}
           /\ op'[w].at = NoPlan
           /\ op'[w].drift = [p \in Plan |-> {}] /\ op'[w].planDrift = {}
  <2>1. \A p \in Plan : p \in op'[w].todo
    BY <1>5 DEF Planted, PlanStatus, Absent
  <2> QED BY <1>1, <1>4, <1>5, <2>1 DEF Exact
<1>6. CASE /\ UNCHANGED <<plan, milestone>>
           /\ op[w] \in Scan /\ op[w].at = NoPlan
           /\ \E p \in op[w].todo :
                op'[w] = [op[w] EXCEPT !.at = p, !.row = milestone[p], !.next = 1]
  <2>1. PICK q \in op[w].todo :
                op'[w] = [op[w] EXCEPT !.at = q, !.row = milestone[q], !.next = 1]
    BY <1>6
  <2>2. /\ op'[w].at = q /\ op'[w].row = milestone[q] /\ op'[w].next = 1
        /\ op'[w].todo = op[w].todo /\ op'[w].drift = op[w].drift
        /\ op'[w].planRow = op[w].planRow /\ op'[w].planDrift = op[w].planDrift
        /\ op[w].kind = "scan" /\ op'[w].kind = "scan" /\ q \in Plan
    BY <1>6, <2>1 DEF Scan
  <2>3. {n \in Report(KidsOf(q), milestone[q], plan[q]) : n < 1} = {}
    BY DEF Report, Number
  <2>4. op[w].drift[q] = {}
    BY <1>1, <1>4, <1>6, <2>2 DEF Exact
  <2>5. op'[w].planRow = plan'
    BY <1>1, <1>6, <2>2 DEF Exact
  <2>6. \A p \in Plan \ op'[w].todo :
          /\ op'[w].drift[p] = Report(KidsOf(p), milestone[p], plan[p])
          /\ p \in op'[w].planDrift <=> PlanDrifts(milestone[p], plan[p])
    BY <2>2 DEF Exact
  <2>7. \A p \in op'[w].todo :
          /\ p \notin op'[w].planDrift
          /\ op'[w].at # p => op'[w].drift[p] = {}
    BY <1>4, <1>6, <2>2 DEF Exact, Scan
  <2>8. \A p \in Plan : op'[w].at = p =>
          /\ p \in op'[w].todo
          /\ op'[w].row = milestone[p]
          /\ op'[w].drift[p] = {n \in Report(KidsOf(p), milestone[p], plan[p]) : n < op'[w].next}
    BY <2>2, <2>3, <2>4
  <2>9. UNCHANGED <<plan, milestone>>
    BY <1>6
  <2> QED BY <1>1, <1>3, <2>5, <2>6, <2>7, <2>8, <2>9 DEF Exact
<1>7. CASE /\ UNCHANGED <<plan, milestone>>
           /\ op[w] \in Scan /\ op[w].at \in Plan /\ op[w].next \in Number
           /\ ScanChildren(w)
  <2> DEFINE p == op[w].at
             n == op[w].next
             all == Report(KidsOf(p), milestone[p], plan[p])
             drifts == /\ op[w].row[n] # Absent
                       /\ MilestoneDrifts(Kids(p, n, status), plan[p], op[w].row[n])
  <2>1. /\ op[w].kind = "scan" /\ op'[w].kind = "scan"
        /\ op'[w].todo = op[w].todo /\ op'[w].at = p
        /\ op'[w].planRow = op[w].planRow /\ op'[w].planDrift = op[w].planDrift
        /\ op'[w].row = op[w].row /\ op'[w].next = n + 1
        /\ \A q \in Plan : q # p => op'[w].drift[q] = op[w].drift[q]
        /\ op'[w].drift[p] = IF drifts THEN op[w].drift[p] \cup {n}
                                       ELSE op[w].drift[p]
    BY <1>1, <1>7, ChildrenRead DEF Scan
  <2>2. /\ op[w].row = milestone[p] /\ p \in op[w].todo
        /\ op[w].drift[p] = {k \in all : k < n}
    BY <1>1, <1>7, <2>1 DEF Exact
  <2>3. drifts <=> n \in all
    BY <1>7, <2>2 DEF Report, KidsOf
  <2>4. \A k \in all : k < n + 1 <=> k < n \/ k = n
    BY <1>7 DEF Report, Number
  <2> HIDE DEF drifts, all
  <2>5. op'[w].drift[p] = {k \in all : k < n + 1}
    <3>1. CASE drifts
      BY <2>1, <2>2, <2>3, <2>4, <3>1
    <3>2. CASE ~drifts
      BY <2>1, <2>2, <2>3, <2>4, <3>2
    <3> QED BY <3>1, <3>2
  <2>6. op'[w].drift[p] = {k \in Report(KidsOf(p), milestone[p], plan[p]) : k < op'[w].next}
    BY <2>1, <2>5 DEF all
  <2>7. op'[w].planRow = plan'
    BY <1>1, <1>7, <2>1 DEF Exact
  <2>8. \A q \in Plan \ op'[w].todo :
          /\ op'[w].drift[q] = Report(KidsOf(q), milestone[q], plan[q])
          /\ q \in op'[w].planDrift <=> PlanDrifts(milestone[q], plan[q])
    BY <2>1, <2>2 DEF Exact
  <2>9. \A q \in op'[w].todo :
          /\ q \notin op'[w].planDrift
          /\ op'[w].at # q => op'[w].drift[q] = {}
    BY <1>7, <2>1 DEF Exact, Scan
  <2>10. \A q \in Plan : op'[w].at = q =>
          /\ q \in op'[w].todo
          /\ op'[w].row = milestone[q]
          /\ op'[w].drift[q] = {k \in Report(KidsOf(q), milestone[q], plan[q]) : k < op'[w].next}
    BY <2>1, <2>2, <2>6
  <2> QED BY <1>1, <1>3, <1>7, <2>7, <2>8, <2>9, <2>10 DEF Exact
<1>8. CASE /\ UNCHANGED <<plan, milestone>>
           /\ op[w] \in Scan /\ op[w].at \in Plan /\ op[w].next = MaxNumber + 1
           /\ ScanPlanStatus(w)
  <2> DEFINE p == op[w].at
             drifts == PlanDrifts(milestone[p], op[w].planRow[p])
  <2>1. /\ op[w].kind = "scan" /\ op'[w].kind = "scan"
        /\ op'[w].planRow = op[w].planRow
        /\ op'[w].todo = op[w].todo \ {p} /\ op'[w].at = NoPlan
        /\ op'[w].drift = op[w].drift
        /\ op'[w].planDrift = IF drifts THEN op[w].planDrift \cup {p} ELSE op[w].planDrift
    BY <1>1, <1>8, PlanRead DEF Scan
  <2>2. /\ op[w].planRow = plan /\ p \in op[w].todo
        /\ op[w].drift[p] = {n \in Report(KidsOf(p), milestone[p], plan[p]) : n < MaxNumber + 1}
    BY <1>1, <1>8, <2>1 DEF Exact
  <2>3. op[w].drift[p] = Report(KidsOf(p), milestone[p], plan[p])
    <3>1. \A n \in Number : n < MaxNumber + 1
      BY MaxNumberAssumption DEF Number
    <3> QED BY <2>2, <3>1 DEF Report
  <2>4. p \in op'[w].planDrift <=> PlanDrifts(milestone[p], plan[p])
    <3>1. p \notin op[w].planDrift
      BY <1>1, <2>1, <2>2, <1>8 DEF Exact
    <3> QED BY <2>1, <2>2, <3>1
  <2>5. \A q \in Plan : q # p => (q \in op'[w].planDrift <=> q \in op[w].planDrift)
    BY <2>1
  <2> HIDE DEF drifts
  <2> QED BY <1>1, <1>3, <1>4, <1>8, <2>1, <2>2, <2>3, <2>4, <2>5 DEF Exact
<1>9. CASE op'[w] = Idle
  BY <1>1, <1>9 DEF Exact, Idle
<1> QED BY <1>1, <1>5, <1>6, <1>7, <1>8, <1>9, QuietSteps

LEMMA UndriftedFollows ==
    ASSUME NEW kids, NEW row, NEW current, Undrifted(kids, row, current)
    PROVE  FollowsItems(kids, row, current)
BY DEF Undrifted, FollowsItems

LEMMA PassedStep ==
    ASSUME QuietInv, Exact, Passed, NEW w \in Housekeeper, QuietStep(w)
    PROVE  Passed'
<1> USE DEF QuietInv
<1>1. w \in Process /\ HousekeeperStep(w)
  BY DEF QuietStep, Process
<1>2. UNCHANGED <<status, parent>> /\ \A p \in Plan : KidsOf(p)' = KidsOf(p)
  BY <1>1, QuietSteps DEF KidsOf, Kids
<1>3. CASE UNCHANGED <<plan, milestone>> /\ op'[w] # Idle
  BY <1>2, <1>3 DEF Passed, QuietStep
<1>4. CASE op[w] \in Scan /\ ReconcileApply(w)
  <2>1. ASSUME NEW p \in Plan
        PROVE  /\ milestone[p] \in Rows
               /\ op[w].drift[p] = Report(KidsOf(p), milestone[p], plan[p])
               /\ p \in op[w].planDrift <=> PlanDrifts(milestone[p], plan[p])
               /\ milestone'[p] = ReconciledRow(KidsOf(p), milestone[p], plan[p], op[w].drift[p])
               /\ plan'[p] = ReconciledPlan(KidsOf(p), milestone[p], plan[p], op[w].drift[p],
                                            p \in op[w].planDrift)
    BY <1>4 DEF ReconcileApply, Exact, TypeOK, KidsOf
  <2>2. \A p \in Plan : FollowsItems(KidsOf(p), milestone'[p], plan'[p])
    BY <2>1, FirstPass
  <2>3. ASSUME passes' >= 2, NEW p \in Plan
        PROVE  Undrifted(KidsOf(p), milestone'[p], plan'[p])
    <3>1. passes >= 1
      BY <2>3 DEF QuietStep, Planted
    <3>2. FollowsItems(KidsOf(p), milestone[p], plan[p])
      BY <3>1 DEF Passed
    <3> QED BY <2>1, <3>2, SecondPass
  <2> QED BY <1>2, <2>2, <2>3 DEF Passed
<1>5. op'[w] # Idle \/ (op[w] \in Scan /\ ReconcileApply(w))
  <2>1. op'[w].kind = "scan" => op'[w] # Idle
    BY DEF Idle
  <2>2. op[w] \in Scan /\ op[w].at \in Plan /\ op[w].next \in Number /\ ScanChildren(w)
            => op'[w].kind = "scan"
    BY <1>1, ChildrenRead
  <2>3. op[w] \in Scan /\ op[w].at \in Plan /\ ScanPlanStatus(w) => op'[w].kind = "scan"
    BY <1>1, PlanRead
  <2>4. \A p : op[w] \in Scan /\ op'[w] = [op[w] EXCEPT !.at = p, !.row = milestone[p], !.next = 1]
            => op'[w].kind = "scan"
    BY DEF Scan
  <2> QED BY <1>1, <2>1, <2>2, <2>3, <2>4, QuietSteps
<1> QED BY <1>1, <1>3, <1>4, <1>5, QuietSteps

(***************************************************************************)
(* From every tree the tables can hold, two passes of the housekeeper      *)
(* leave nothing FindPlanTreeDrift would report, and so do all later ones. *)
(* With two housekeepers this is false: a pass can be one that was scanned *)
(* before the other committed.                                             *)
(***************************************************************************)
THEOREM TwoPassesCorrect ==
    ASSUME OneHousekeeper
    PROVE  QuietSpec => []TwoPassesRepair
<1>1. QuietInit => Exact /\ Passed
  BY DEF QuietInit, AnyTree, Exact, Passed, Idle, Process
<1>2. QuietInv /\ Exact /\ Passed /\ [QuietNext]_<<vars, passes>> => Exact' /\ Passed'
  <2> SUFFICES ASSUME QuietInv, Exact, Passed, [QuietNext]_<<vars, passes>>
               PROVE  Exact' /\ Passed'
    OBVIOUS
  <2>1. CASE UNCHANGED <<vars, passes>>
    <3>1. \A p : KidsOf(p)' = KidsOf(p)
      BY <2>1 DEF vars, KidsOf, Kids
    <3>2. UNCHANGED <<plan, milestone, op, passes>>
      BY <2>1 DEF vars
    <3>3. Exact'
      BY <3>1, <3>2 DEF Exact
    <3>4. Passed'
      BY <3>1, <3>2 DEF Passed
    <3> QED BY <3>3, <3>4
  <2>2. ASSUME NEW w \in Housekeeper, QuietStep(w) PROVE Exact' /\ Passed'
    BY <2>2, ExactStep, PassedStep
  <2> QED BY <2>1, <2>2 DEF QuietNext
<1>3. Passed => TwoPassesRepair
  BY DEF Passed, TwoPassesRepair, NoDrift, Undrifted, KidsOf
<1> QED BY <1>1, <1>2, <1>3, QuietInvInit, QuietInvStep, PTL DEF QuietSpec
=============================================================================
