--------------------------- MODULE PlanningProofs ---------------------------
(***************************************************************************)
(* Theorems about Planning for any number of plans, milestones, items and  *)
(* processes: the type invariant, the audit and acceptance invariants, and *)
(* the step properties of the status rollup.                               *)
(***************************************************************************)
EXTENDS Planning, TLAPS

-----------------------------------------------------------------------------
(* The rollup operators.                                                   *)

(***************************************************************************)
(* What milestoneStatusFromChildren returns is a milestone status or no    *)
(* opinion, whatever status the plan has.                                  *)
(***************************************************************************)
LEMMA MilestoneRuleType ==
    ASSUME NEW kids, NEW par
    PROVE  MilestoneStatusFromChildren(kids, par) \in MilestoneStatus \cup {NoStatus}
BY DEF MilestoneStatusFromChildren, MilestoneStatus, ItemStatus, NoStatus

(***************************************************************************)
(* A milestone with items is judged by them alone, and always has one.     *)
(***************************************************************************)
LEMMA ItemsDecide ==
    ASSUME NEW kids, NEW p1, NEW p2, kids # {}
    PROVE  /\ MilestoneStatusFromChildren(kids, p1) = MilestoneStatusFromChildren(kids, p2)
           /\ MilestoneStatusFromChildren(kids, p1) # NoStatus
BY DEF MilestoneStatusFromChildren, NoStatus

(***************************************************************************)
(* maybeCompleteMilestone's test agrees with the general rule: finished    *)
(* items, one of them done, make a done milestone.                         *)
(***************************************************************************)
LEMMA FinishedMeansDone ==
    ASSUME NEW kids, NEW par, "done" \in kids, kids \subseteq Terminal
    PROVE  MilestoneStatusFromChildren(kids, par) = "done"
<1>1. kids # {} /\ "in_progress" \notin kids /\ "planned" \notin kids
  BY DEF Terminal
<1> QED BY <1>1 DEF MilestoneStatusFromChildren

LEMMA PlanRuleType ==
    ASSUME NEW row
    PROVE  PlanStatusFromMilestones(row) \in {"active", "done", NoStatus}
BY DEF PlanStatusFromMilestones, NoStatus

LEMMA SyncedMilestoneType ==
    ASSUME NEW kids, NEW par, NEW current \in MilestoneStatus \cup {Absent}
    PROVE  SyncedMilestone(kids, par, current) \in MilestoneStatus \cup {Absent}
BY MilestoneRuleType DEF SyncedMilestone

LEMMA SyncedPlanType ==
    ASSUME NEW row, NEW current \in PlanStatus \cup {Absent}
    PROVE  SyncedPlan(row, current) \in PlanStatus \cup {Absent}
BY PlanRuleType DEF SyncedPlan, PlanStatus

(***************************************************************************)
(* A synced plan does not drift, and a sync that changes the status has    *)
(* written what the rule says.                                             *)
(***************************************************************************)
LEMMA SyncSettlesPlan ==
    ASSUME NEW row, NEW current
    PROVE  /\ ~PlanDrifts(row, SyncedPlan(row, current))
           /\ SyncedPlan(row, current) # current
                => SyncedPlan(row, current) = PlanStatusFromMilestones(row)
BY DEF PlanDrifts, SyncedPlan

LEMMA ReconciledTypes ==
    ASSUME NEW kids, NEW row \in Rows, NEW current \in PlanStatus \cup {Absent},
           NEW drift, NEW planDrift
    PROVE  /\ ReconciledRow(kids, row, current, drift) \in Rows
           /\ ReconciledPlan(kids, row, current, drift, planDrift)
                \in PlanStatus \cup {Absent}
<1>1. \A n \in Number : row[n] \in MilestoneStatus \cup {Absent}
  BY DEF Rows
<1>2. ReconciledRow(kids, row, current, drift) \in Rows
  BY <1>1, SyncedMilestoneType DEF ReconciledRow, Rows
<1>3. ReconciledPlan(kids, row, current, drift, planDrift) \in PlanStatus \cup {Absent}
  BY SyncedPlanType DEF ReconciledPlan
<1> QED BY <1>2, <1>3

-----------------------------------------------------------------------------
(* Type correctness.                                                       *)

LEMMA InitTypeOK == Init => TypeOK
<1> SUFFICES ASSUME Init PROVE TypeOK
  OBVIOUS
<1>1. \A p \in Plan : [n \in Number |-> Absent] \in Rows
  BY DEF Rows
<1>2. milestone \in [Plan -> Rows]
  BY <1>1 DEF Init
<1>3. parent \in [Item -> [plan : Plan \cup {NoPlan}, milestone : Milestone \cup {NoMilestone}]]
  BY DEF Init
<1>4. op \in [Process -> OpState]
  BY DEF Init, OpState
<1> QED BY <1>2, <1>3, <1>4 DEF Init, TypeOK, NoLog

(***************************************************************************)
(* A process's new local state is well formed: the states each verb enters *)
(* and the updates a reconcile makes to its own.                           *)
(***************************************************************************)
LEMMA OpUpdate ==
    ASSUME op \in [Process -> OpState], NEW w \in Process, NEW o \in OpState
    PROVE  [op EXCEPT ![w] = o] \in [Process -> OpState]
OBVIOUS

LEMMA ScanRead ==
    ASSUME op \in [Process -> OpState], NEW w \in Process, op[w].kind = "scan"
    PROVE  op[w] \in Scan
<1>1. op[w] \in OpState
  OBVIOUS
<1>2. op[w] # Idle
  BY DEF Idle
<1>3. \A i \in Item : op[w] # Closing(i) /\ op[w] # Pausing(i)
  BY DEF Closing, Pausing
<1>4. \A m \in Milestone : op[w] # Adding(m[1], m[2])
  BY DEF Adding
<1> QED BY <1>1, <1>2, <1>3, <1>4 DEF OpState

LEMMA PauseRead ==
    ASSUME op \in [Process -> OpState], NEW w \in Process, op[w].kind = "pause"
    PROVE  op[w].item \in Item
<1>1. op[w] # Idle /\ (\A i \in Item : op[w] # Closing(i)) /\ op[w] \notin Scan
  BY DEF Idle, Closing, Scan
<1>2. \A m \in Milestone : op[w] # Adding(m[1], m[2])
  BY DEF Adding
<1> QED BY <1>1, <1>2 DEF OpState, Pausing

LEMMA CloseRead ==
    ASSUME op \in [Process -> OpState], NEW w \in Process, op[w].kind = "close"
    PROVE  op[w].item \in Item /\ op[w] = Closing(op[w].item)
<1>1. op[w] # Idle /\ (\A i \in Item : op[w] # Pausing(i)) /\ op[w] \notin Scan
  BY DEF Idle, Pausing, Scan
<1>2. \A m \in Milestone : op[w] # Adding(m[1], m[2])
  BY DEF Adding
<1> QED BY <1>1, <1>2 DEF OpState, Closing

LEMMA AddRead ==
    ASSUME op \in [Process -> OpState], NEW w \in Process, op[w].kind = "addMilestone"
    PROVE  op[w].plan \in Plan /\ op[w].number \in Number
<1>1. op[w] # Idle /\ op[w] \notin Scan
  BY DEF Idle, Scan
<1>2. \A i \in Item : op[w] # Pausing(i) /\ op[w] # Closing(i)
  BY DEF Pausing, Closing
<1> QED BY <1>1, <1>2 DEF OpState, Adding, Milestone

LEMMA TypeOKEdit ==
    ASSUME TypeOK, NEW w \in Process, AgentStep(w)
    PROVE  TypeOK'
<1> USE DEF TypeOK
<1>1. ASSUME NEW p \in Plan, CreatePlan(p) PROVE TypeOK'
  BY <1>1 DEF CreatePlan, PlanStatus
<1>2. ASSUME NEW i \in Item, NEW p \in Plan \cup {NoPlan},
             NEW m \in Milestone \cup {NoMilestone}, AddItem(i, p, m)
      PROVE  TypeOK'
  BY <1>2 DEF AddItem, ItemStatus
<1>3. ASSUME NEW i \in Item, NEW c \in Criterion, AddAcceptance(i, c) \/ MeetAcceptance(i, c)
      PROVE  TypeOK'
  <2>1. \A a \in {"open", "met"} :
            [acceptance EXCEPT ![i][c] = a]
                \in [Item -> [Criterion -> {Absent, "open", "met", Archived}]]
    OBVIOUS
  <2>2. \/ acceptance' = [acceptance EXCEPT ![i][c] = "open"]
        \/ acceptance' = [acceptance EXCEPT ![i][c] = "met"]
    BY <1>3 DEF AddAcceptance, MeetAcceptance
  <2>3. acceptance' \in [Item -> [Criterion -> {Absent, "open", "met", Archived}]]
    BY <2>1, <2>2
  <2> QED BY <1>3, <2>3 DEF AddAcceptance, MeetAcceptance
<1>4. ASSUME NEW i \in Item, NEW s \in ItemStatus, SetItemStatusInTx(i, s)
      PROVE  /\ status' \in [Item -> ItemStatus \cup {Absent, Archived}]
             /\ logged' \in [Item -> ItemStatus \cup {NoLog}]
  BY <1>4 DEF SetItemStatusInTx
<1>5. ASSUME NEW i \in Item, NEW s \in ItemStatus, SetItemStatusExplicit(i, s)
      PROVE  TypeOK'
  BY <1>4, <1>5 DEF SetItemStatusExplicit
<1>6. ASSUME NEW i \in Item, StartItem(i) PROVE TypeOK'
  <2>1. "in_progress" \in ItemStatus
    BY DEF ItemStatus
  <2> QED BY <1>4, <1>6, <2>1 DEF StartItem
<1>7. ASSUME NEW m \in Milestone, NEW s \in MilestoneStatus, SetMilestoneStatus(m, s)
      PROVE  TypeOK'
  <2>1. milestone' \in [Plan -> Rows]
    BY <1>7 DEF SetMilestoneStatus, Milestone, Rows
  <2> QED BY <1>7, <2>1 DEF SetMilestoneStatus
<1>8. ASSUME NEW p \in Plan, NEW n \in Number, AddMilestoneRead(w, p, n) PROVE TypeOK'
  <2>1. Adding(p, n) \in OpState
    <3>1. <<p, n>> \in Milestone /\ <<p, n>>[1] = p /\ <<p, n>>[2] = n
      BY DEF Milestone
    <3> QED BY <3>1 DEF OpState
  <2> QED BY <1>8, <2>1, OpUpdate DEF AddMilestoneRead, ledger
<1>9. ASSUME NEW i \in Item, PauseCheck(w, i) \/ CloseCheck(w, i) PROVE TypeOK'
  <2>1. Pausing(i) \in OpState /\ Closing(i) \in OpState
    BY DEF OpState
  <2> QED BY <1>9, <2>1, OpUpdate DEF PauseCheck, CloseCheck, ledger
<1>10. [op EXCEPT ![w] = Idle] \in [Process -> OpState]
  BY OpUpdate DEF OpState
<1>11. ASSUME AddMilestoneInsert(w) PROVE TypeOK'
  <2>1. milestone' \in [Plan -> Rows]
    BY <1>11, AddRead DEF AddMilestoneInsert, Rows, MilestoneStatus, ItemStatus
  <2> QED BY <1>10, <1>11, <2>1 DEF AddMilestoneInsert
<1>12. ASSUME PauseCommit(w) PROVE TypeOK'
  <2>1. op[w].item \in Item /\ "in_progress" \in ItemStatus
    BY <1>12, PauseRead DEF PauseCommit, ItemStatus
  <2> QED BY <1>4, <1>10, <1>12, <2>1 DEF PauseCommit
<1>13. ASSUME CloseCommit(w) PROVE TypeOK'
  <2>1. op[w].item \in Item /\ "done" \in ItemStatus
    BY <1>13, CloseRead DEF CloseCommit, ItemStatus
  <2>2. parent[op[w].item].milestone \in Milestone \cup {NoMilestone}
    BY <2>1
  <2>3. milestone' \in [Plan -> Rows]
    BY <1>13, <2>2 DEF CloseCommit, MaybeCompleteMilestone, Milestone, Rows,
                       MilestoneStatus, ItemStatus
  <2>4. plan' \in [Plan -> PlanStatus \cup {Absent}]
    <3> DEFINE p == parent[op[w].item].plan
    <3>1. p \in Plan \cup {NoPlan}
      BY <2>1
    <3>2. p \in Plan => SyncedPlan(milestone'[p], plan[p]) \in PlanStatus \cup {Absent}
      BY SyncedPlanType
    <3> QED BY <1>13, <3>1, <3>2 DEF CloseCommit
  <2> QED BY <1>4, <1>10, <1>13, <2>1, <2>3, <2>4 DEF CloseCommit
<1> QED BY <1>1, <1>2, <1>3, <1>5, <1>6, <1>7, <1>8, <1>9, <1>11, <1>12, <1>13
        DEF AgentStep

LEMMA TypeOKReconcile ==
    ASSUME TypeOK, NEW w \in Process, NEW scopes \in SUBSET SUBSET Plan,
           ReconcileStep(w, scopes)
    PROVE  TypeOK'
<1> USE DEF TypeOK
<1>1. ASSUME NEW scope \in SUBSET Plan, ScanPlans(w, scope) PROVE TypeOK'
  <2> DEFINE o == [kind |-> "scan", planRow |-> plan, todo |-> scope,
                   at |-> NoPlan, row |-> NoRow, next |-> 1,
                   drift |-> [p \in Plan |-> {}], planDrift |-> {}]
  <2>1. NoRow \in Rows /\ 1 \in 1..MaxNumber + 1
    BY MaxNumberAssumption DEF NoRow, Rows
  <2>2. o \in OpState
    BY <2>1 DEF OpState, Scan
  <2> QED BY <1>1, <2>2, OpUpdate DEF ScanPlans, ledger
<1>2. ASSUME NEW p \in Plan, ScanMilestones(w, p) PROVE TypeOK'
  <2> DEFINE o == [op[w] EXCEPT !.at = p, !.row = milestone[p], !.next = 1]
  <2>1. op[w] \in Scan /\ 1 \in 1..MaxNumber + 1
    BY <1>2, ScanRead, MaxNumberAssumption DEF ScanMilestones
  <2>2. o \in OpState
    BY <2>1 DEF OpState, Scan
  <2>3. op' = [op EXCEPT ![w] = o]
    BY <1>2 DEF ScanMilestones
  <2> QED BY <1>2, <2>2, <2>3, OpUpdate DEF ScanMilestones, ledger
<1>3. ASSUME ScanChildren(w) PROVE TypeOK'
  <2>1. op[w] \in Scan /\ op[w].at \in Plan /\ op[w].next \in Number
    BY <1>3, ScanRead DEF ScanChildren, Scan
  <2>2. PICK d \in SUBSET Number :
            op' = [op EXCEPT ![w] = [op[w] EXCEPT !.next = op[w].next + 1,
                                                  !.drift[op[w].at] = d]]
    <3>1. op[w].drift[op[w].at] \in SUBSET Number
      BY <2>1 DEF Scan
    <3>2. op[w].drift[op[w].at] \cup {op[w].next} \in SUBSET Number
      BY <2>1, <3>1
    <3>3. \/ op' = [op EXCEPT ![w].next = op[w].next + 1,
                             ![w].drift[op[w].at] = op[w].drift[op[w].at]]
          \/ op' = [op EXCEPT ![w].next = op[w].next + 1,
                             ![w].drift[op[w].at] =
                                op[w].drift[op[w].at] \cup {op[w].next}]
      <4> DEFINE drifts == /\ op[w].row[op[w].next] # Absent
                           /\ MilestoneDrifts(Kids(op[w].at, op[w].next, status),
                                              plan[op[w].at], op[w].row[op[w].next])
      <4>1. op' = [op EXCEPT ![w].next = op[w].next + 1,
                             ![w].drift[op[w].at] =
                                IF drifts THEN op[w].drift[op[w].at] \cup {op[w].next}
                                          ELSE op[w].drift[op[w].at]]
        BY <1>3, Zenon DEF ScanChildren
      <4> HIDE DEF drifts
      <4>2. CASE drifts
        BY <4>1, <4>2
      <4>3. CASE ~drifts
        BY <4>1, <4>3
      <4> QED BY <4>2, <4>3
    <3> QED BY <3>1, <3>2, <3>3
  <2>3. op[w].next + 1 \in 1..MaxNumber + 1
    BY <2>1, MaxNumberAssumption DEF Number
  <2>4. [op[w] EXCEPT !.next = op[w].next + 1, !.drift[op[w].at] = d] \in OpState
    BY <2>1, <2>2, <2>3 DEF OpState, Scan
  <2>5. op' \in [Process -> OpState]
    BY <2>2, <2>4, OpUpdate
  <2>6. UNCHANGED ledger
    BY <1>3 DEF ScanChildren
  <2> QED BY <2>5, <2>6 DEF ledger
<1>4. ASSUME ScanPlanStatus(w) PROVE TypeOK'
  <2>1. op[w] \in Scan /\ op[w].at \in Plan
    BY <1>4, ScanRead DEF ScanPlanStatus, Scan
  <2>2. PICK d \in SUBSET Plan :
            op' = [op EXCEPT ![w] = [op[w] EXCEPT !.todo = op[w].todo \ {op[w].at},
                                                  !.at = NoPlan, !.row = NoRow,
                                                  !.next = 1, !.planDrift = d]]
    <3>1. op[w].planDrift \in SUBSET Plan /\ op[w].planDrift \cup {op[w].at} \in SUBSET Plan
      BY <2>1 DEF Scan
    <3> QED BY <1>4, <2>1, <3>1 DEF ScanPlanStatus
  <2>3. NoRow \in Rows /\ 1 \in 1..MaxNumber + 1
    BY MaxNumberAssumption DEF NoRow, Rows
  <2>4. [op[w] EXCEPT !.todo = op[w].todo \ {op[w].at}, !.at = NoPlan, !.row = NoRow,
                      !.next = 1, !.planDrift = d] \in OpState
    BY <2>1, <2>2, <2>3 DEF OpState, Scan
  <2>5. op' \in [Process -> OpState]
    BY <2>2, <2>4, OpUpdate
  <2>6. UNCHANGED ledger
    BY <1>4 DEF ScanPlanStatus
  <2> QED BY <2>5, <2>6 DEF ledger
<1>5. ASSUME ReconcileApply(w) PROVE TypeOK'
  <2>1. milestone' \in [Plan -> Rows]
    BY <1>5, ReconciledTypes DEF ReconcileApply
  <2>2. plan' \in [Plan -> PlanStatus \cup {Absent}]
    BY <1>5, ReconciledTypes DEF ReconcileApply
  <2>3. op' \in [Process -> OpState]
    BY <1>5, OpUpdate DEF ReconcileApply, OpState
  <2> QED BY <1>5, <2>1, <2>2, <2>3 DEF ReconcileApply
<1> QED BY <1>1, <1>2, <1>3, <1>4, <1>5 DEF ReconcileStep

LEMMA TypeOKNext == TypeOK /\ [Next]_vars => TypeOK'
<1> SUFFICES ASSUME TypeOK, [Next]_vars PROVE TypeOK'
  OBVIOUS
<1>1. ASSUME NEW w \in Agent, AgentStep(w) PROVE TypeOK'
  BY <1>1, TypeOKEdit DEF Process
<1>2. ASSUME NEW w \in Housekeeper, HousekeeperStep(w) PROVE TypeOK'
  <2>1. {{p \in Plan : plan[p] # Absent}} \in SUBSET SUBSET Plan
    OBVIOUS
  <2> QED BY <1>2, <2>1, TypeOKReconcile DEF HousekeeperStep, Process
<1>3. ASSUME NEW w \in Housekeeper, SinglePlanStep(w) PROVE TypeOK'
  <2>1. {{p} : p \in Plan} \in SUBSET SUBSET Plan
    OBVIOUS
  <2> QED BY <1>3, <2>1, TypeOKReconcile DEF SinglePlanStep, Process
<1>4. CASE ArchiveStep
  BY <1>4 DEF ArchiveStep, ArchiveItems, ArchiveLog, TypeOK
<1>5. ASSUME NEW w \in Process, Abandon(w) PROVE TypeOK'
  BY <1>5, OpUpdate DEF Abandon, ledger, TypeOK, OpState
<1>6. CASE UNCHANGED vars
  BY <1>6 DEF vars, TypeOK
<1> QED BY <1>1, <1>2, <1>3, <1>4, <1>5, <1>6 DEF Next

(***************************************************************************)
(* Every reachable state of the ledger and of the processes is well typed. *)
(***************************************************************************)
THEOREM TypeCorrect == Spec => []TypeOK
<1> QED BY InitTypeOK, TypeOKNext, PTL DEF Spec

-----------------------------------------------------------------------------
(* What leaves the items, their criteria and their audit rows alone.       *)

itemRows == <<status, acceptance, logged>>

LEMMA ReconcileKeepsItems ==
    ASSUME NEW w, NEW scopes, ReconcileStep(w, scopes)
    PROVE  UNCHANGED <<itemRows, parent>>
BY DEF ReconcileStep, ScanPlans, ScanMilestones, ScanChildren, ScanPlanStatus,
       ReconcileApply, ledger, itemRows

(***************************************************************************)
(* A step writes item rows only by adding an item, setting a status with   *)
(* its audit row, adding or meeting a criterion, or archiving.             *)
(***************************************************************************)
LEMMA ItemSteps ==
    ASSUME TypeOK, [Next]_vars
    PROVE  \/ UNCHANGED itemRows
           \/ \E i \in Item, p \in Plan \cup {NoPlan}, m \in Milestone \cup {NoMilestone} :
                  AddItem(i, p, m)
           \/ \E i \in Item, c \in Criterion : AddAcceptance(i, c) \/ MeetAcceptance(i, c)
           \/ \E i \in Item, s \in ItemStatus :
                  SetItemStatusInTx(i, s) /\ UNCHANGED acceptance
           \/ ArchiveStep
<1>1. "in_progress" \in ItemStatus /\ "done" \in ItemStatus
  BY DEF ItemStatus
<1>2. ASSUME NEW w \in Process, PauseCommit(w)
      PROVE  \E i \in Item, s \in ItemStatus :
                  SetItemStatusInTx(i, s) /\ UNCHANGED acceptance
  BY <1>1, <1>2, PauseRead DEF PauseCommit, TypeOK
<1>3. ASSUME NEW w \in Process, CloseCommit(w)
      PROVE  \E i \in Item, s \in ItemStatus :
                  SetItemStatusInTx(i, s) /\ UNCHANGED acceptance
  BY <1>1, <1>3, CloseRead DEF CloseCommit, TypeOK
<1>4. ASSUME NEW w \in Housekeeper, HousekeeperStep(w) \/ SinglePlanStep(w)
      PROVE  UNCHANGED itemRows
  BY <1>4, ReconcileKeepsItems DEF HousekeeperStep, SinglePlanStep
<1>5. ASSUME NEW w \in Process, Abandon(w) PROVE UNCHANGED itemRows
  BY <1>5 DEF Abandon, ledger, itemRows
<1>6. ASSUME UNCHANGED vars PROVE UNCHANGED itemRows
  BY <1>6 DEF vars, itemRows
<1>7. ASSUME NEW w \in Agent, AgentStep(w)
      PROVE  \/ UNCHANGED itemRows
             \/ \E i \in Item, p \in Plan \cup {NoPlan}, m \in Milestone \cup {NoMilestone} :
                    AddItem(i, p, m)
             \/ \E i \in Item, c \in Criterion :
                    AddAcceptance(i, c) \/ MeetAcceptance(i, c)
             \/ \E i \in Item, s \in ItemStatus :
                    SetItemStatusInTx(i, s) /\ UNCHANGED acceptance
  <2>1. w \in Process
    BY DEF Process
  <2>2. ASSUME \/ \E p \in Plan : CreatePlan(p)
               \/ \E m \in Milestone, s \in MilestoneStatus : SetMilestoneStatus(m, s)
               \/ \E p \in Plan, n \in Number : AddMilestoneRead(w, p, n)
               \/ \E i \in Item : PauseCheck(w, i) \/ CloseCheck(w, i)
               \/ AddMilestoneInsert(w)
        PROVE  UNCHANGED itemRows
    BY <2>2 DEF CreatePlan, SetMilestoneStatus, AddMilestoneRead, PauseCheck, CloseCheck,
                AddMilestoneInsert, ledger, itemRows
  <2>3. ASSUME \/ \E i \in Item, s \in ItemStatus : SetItemStatusExplicit(i, s)
               \/ \E i \in Item : StartItem(i)
        PROVE  \E i \in Item, s \in ItemStatus :
                    SetItemStatusInTx(i, s) /\ UNCHANGED acceptance
    BY <1>1, <2>3 DEF SetItemStatusExplicit, StartItem
  <2> QED BY <1>2, <1>3, <1>7, <2>1, <2>2, <2>3 DEF AgentStep
<1> QED BY <1>4, <1>5, <1>6, <1>7 DEF Next

-----------------------------------------------------------------------------
(* The audit log.                                                          *)

LEMMA AuditInit == Init => AuditMatches
BY DEF Init, AuditMatches

LEMMA AuditNext == TypeOK /\ AuditMatches /\ [Next]_vars => AuditMatches'
<1> SUFFICES ASSUME TypeOK, AuditMatches, [Next]_vars PROVE AuditMatches'
  OBVIOUS
<1>1. CASE UNCHANGED itemRows
  BY <1>1 DEF itemRows, AuditMatches, Live
<1>2. ASSUME NEW i \in Item, NEW p, NEW m, AddItem(i, p, m) PROVE AuditMatches'
  <2>1. logged[i] = NoLog
    BY <1>2 DEF AddItem, AuditMatches, Live, ItemStatus, Absent
  <2> QED BY <1>2, <2>1 DEF AddItem, AuditMatches, Live, TypeOK
<1>3. ASSUME NEW i \in Item, NEW c, AddAcceptance(i, c) \/ MeetAcceptance(i, c)
      PROVE  AuditMatches'
  BY <1>3 DEF AddAcceptance, MeetAcceptance, AuditMatches, Live
<1>4. ASSUME NEW i \in Item, NEW s \in ItemStatus, SetItemStatusInTx(i, s)
      PROVE  AuditMatches'
  BY <1>4 DEF SetItemStatusInTx, AuditMatches, Live, TypeOK
<1>5. ASSUME NEW cutoff, ArchiveItems(cutoff) PROVE AuditMatches'
  BY <1>5 DEF ArchiveItems, AuditMatches, Live
<1>6. ASSUME NEW aged, ArchiveLog(aged) PROVE AuditMatches'
  BY <1>6 DEF ArchiveLog, AuditMatches, Live
<1> QED BY <1>1, <1>2, <1>3, <1>4, <1>5, <1>6, ItemSteps DEF ArchiveStep

(***************************************************************************)
(* An item's newest audit row tells its status in every reachable state,   *)
(* for any number of racing processes (setItemStatusInTx).                 *)
(***************************************************************************)
THEOREM AuditCorrect == Spec => []AuditMatches
<1>1. Init => AuditMatches
  BY AuditInit
<1>2. TypeOK /\ AuditMatches /\ [Next]_vars => AuditMatches'
  BY AuditNext
<1> QED BY <1>1, <1>2, TypeCorrect, PTL DEF Spec

-----------------------------------------------------------------------------
(* Acceptance criteria.                                                    *)

LEMMA OrphanInit == Init => NoOrphanCriterion
BY DEF Init, NoOrphanCriterion, Absent

LEMMA OrphanNext == TypeOK /\ NoOrphanCriterion /\ [Next]_vars => NoOrphanCriterion'
<1> SUFFICES ASSUME TypeOK, NoOrphanCriterion, [Next]_vars PROVE NoOrphanCriterion'
  OBVIOUS
<1>1. CASE UNCHANGED itemRows
  BY <1>1 DEF itemRows, NoOrphanCriterion, Live
<1>2. ASSUME NEW i \in Item, NEW p, NEW m, AddItem(i, p, m) PROVE NoOrphanCriterion'
  BY <1>2 DEF AddItem, NoOrphanCriterion, Live, TypeOK, ItemStatus
<1>3. ASSUME NEW i \in Item, NEW c \in Criterion, AddAcceptance(i, c) \/ MeetAcceptance(i, c)
      PROVE  NoOrphanCriterion'
  <2>1. Live(i) /\ UNCHANGED status
    BY <1>3 DEF AddAcceptance, MeetAcceptance, NoOrphanCriterion
  <2>2. \A j \in Item, d \in Criterion :
            acceptance'[j][d] \in {"open", "met"} => j = i \/ acceptance'[j][d] = acceptance[j][d]
    BY <1>3 DEF AddAcceptance, MeetAcceptance, TypeOK
  <2> QED BY <2>1, <2>2 DEF NoOrphanCriterion, Live
<1>4. ASSUME NEW i \in Item, NEW s \in ItemStatus, SetItemStatusInTx(i, s), UNCHANGED acceptance
      PROVE  NoOrphanCriterion'
  BY <1>4 DEF SetItemStatusInTx, NoOrphanCriterion, Live, TypeOK
<1>5. ASSUME NEW cutoff, ArchiveItems(cutoff) PROVE NoOrphanCriterion'
  BY <1>5 DEF ArchiveItems, NoOrphanCriterion, Live, Archived, Absent
<1>6. ASSUME NEW aged, ArchiveLog(aged) PROVE NoOrphanCriterion'
  BY <1>6 DEF ArchiveLog, NoOrphanCriterion, Live
<1> QED BY <1>1, <1>2, <1>3, <1>4, <1>5, <1>6, ItemSteps DEF ArchiveStep

(***************************************************************************)
(* No criterion that is open or met outlives its item: an add that races   *)
(* with the archive is refused, and the archive takes what was there.      *)
(***************************************************************************)
THEOREM NoOrphans == Spec => []NoOrphanCriterion
<1>1. Init => NoOrphanCriterion
  BY OrphanInit
<1>2. TypeOK /\ NoOrphanCriterion /\ [Next]_vars => NoOrphanCriterion'
  BY OrphanNext
<1> QED BY <1>1, <1>2, TypeCorrect, PTL DEF Spec

-----------------------------------------------------------------------------
(* The promise of the archive.                                             *)

LEMMA WhereInit == Init => V!Init
<1> SUFFICES ASSUME Init PROVE Where = [x \in Piece |-> "nowhere"]
  BY DEF V!Init
<1>1. \A x \in Piece : Where[x] = "nowhere"
  BY DEF Init, Where, Piece, PlaceOf
<1> QED BY <1>1 DEF Where

\* One row goes to its table, the others stay.
LEMMA WhereOne ==
    ASSUME NEW x \in Piece, Where[x] = "nowhere", Where'[x] = "table",
           \A y \in Piece : y # x => Where'[y] = Where[y]
    PROVE  V!Next
<1>1. Where' = [Where EXCEPT ![x] = "table"]
  BY DEF Where
<1> QED BY <1>1 DEF V!Next, V!Record

LEMMA WhereStep == TypeOK /\ [Next]_vars => [V!Next]_Where
<1> SUFFICES ASSUME TypeOK, [Next]_vars PROVE V!Next \/ UNCHANGED Where
  OBVIOUS
<1> USE DEF TypeOK
<1>1. \A i \in Item : /\ Where[<<i, Itself>>] = PlaceOf(status[i])
                      /\ Where'[<<i, Itself>>] = PlaceOf(status'[i])
  BY DEF Where, Piece
<1>2. \A i \in Item, c \in Criterion : /\ Where[<<i, c>>] = PlaceOf(acceptance[i][c])
                                       /\ Where'[<<i, c>>] = PlaceOf(acceptance'[i][c])
  BY PlanningAssumption DEF Where, Piece
<1>3. ASSUME \A i \in Item : PlaceOf(status'[i]) = PlaceOf(status[i]),
             \A i \in Item, c \in Criterion :
                PlaceOf(acceptance'[i][c]) = PlaceOf(acceptance[i][c])
      PROVE  UNCHANGED Where
  <2>1. \A x \in Piece : Where'[x] = Where[x]
    BY <1>1, <1>2, <1>3 DEF Piece
  <2> QED BY <2>1 DEF Where
<1>4. CASE UNCHANGED itemRows
  BY <1>3, <1>4 DEF itemRows
<1>5. ASSUME NEW i \in Item, NEW p, NEW m, AddItem(i, p, m) PROVE V!Next
  <2>1. <<i, Itself>> \in Piece
    BY DEF Piece
  <2>2. Where[<<i, Itself>>] = "nowhere" /\ Where'[<<i, Itself>>] = "table"
    BY <1>1, <1>5 DEF AddItem, PlaceOf, Absent, Archived
  <2>3. \A y \in Piece : y # <<i, Itself>> => Where'[y] = Where[y]
    BY <1>1, <1>2, <1>5 DEF AddItem, Piece
  <2> QED BY <2>1, <2>2, <2>3, WhereOne
<1>6. ASSUME NEW i \in Item, NEW c \in Criterion, AddAcceptance(i, c) PROVE V!Next
  <2>1. <<i, c>> \in Piece
    BY DEF Piece
  <2>2. Where[<<i, c>>] = "nowhere" /\ Where'[<<i, c>>] = "table"
    BY <1>2, <1>6 DEF AddAcceptance, PlaceOf, Absent, Archived
  <2>3. \A j \in Item, d \in Criterion : <<j, d>> # <<i, c>> =>
            acceptance'[j][d] = acceptance[j][d]
    BY <1>6 DEF AddAcceptance
  <2>4. \A y \in Piece : y # <<i, c>> => Where'[y] = Where[y]
    BY <1>1, <1>2, <1>6, <2>3 DEF AddAcceptance, Piece
  <2> QED BY <2>1, <2>2, <2>4, WhereOne
<1>7. ASSUME NEW i \in Item, NEW c \in Criterion, MeetAcceptance(i, c) PROVE UNCHANGED Where
  <2>1. \A j \in Item, d \in Criterion :
            \/ acceptance'[j][d] = acceptance[j][d]
            \/ acceptance'[j][d] = "met" /\ acceptance[j][d] \in {"open", "met"}
    BY <1>7 DEF MeetAcceptance
  <2> QED BY <1>3, <1>7, <2>1 DEF MeetAcceptance, PlaceOf, Absent, Archived
<1>8. ASSUME NEW i \in Item, NEW s \in ItemStatus, SetItemStatusInTx(i, s), UNCHANGED acceptance
      PROVE  UNCHANGED Where
  BY <1>3, <1>8 DEF SetItemStatusInTx, Live, ItemStatus, PlaceOf, Absent, Archived
<1>9. ASSUME NEW cutoff, ArchiveItems(cutoff) PROVE V!Next
  <2> DEFINE gone == {i \in Item : i < cutoff /\ status[i] \in Terminal}
             some == {x \in Piece : x[1] \in gone /\ Where[x] = "table"}
  <2>1. /\ \A i \in Item : status'[i] = IF i \in gone THEN Archived ELSE status[i]
        /\ \A i \in Item, c \in Criterion :
              acceptance'[i][c] = IF i \in gone /\ acceptance[i][c] # Absent
                                    THEN Archived ELSE acceptance[i][c]
    BY <1>9 DEF ArchiveItems
  <2>2. \A i \in gone : i \in Item /\ status[i] # Absent /\ status[i] # Archived
    BY DEF Terminal, Absent, Archived
  <2> HIDE DEF gone
  <2>3. \A i \in Item :
            Where'[<<i, Itself>>] = IF i \in gone THEN "archive" ELSE Where[<<i, Itself>>]
    BY <1>1, <2>1 DEF PlaceOf, Absent, Archived
  <2>4. \A i \in gone : Where[<<i, Itself>>] = "table"
    BY <1>1, <2>2 DEF PlaceOf
  <2>5. \A i \in Item, c \in Criterion :
            Where'[<<i, c>>] = IF i \in gone /\ Where[<<i, c>>] = "table"
                                 THEN "archive" ELSE Where[<<i, c>>]
    <3> SUFFICES ASSUME NEW i \in Item, NEW c \in Criterion
                 PROVE  Where'[<<i, c>>] = IF i \in gone /\ Where[<<i, c>>] = "table"
                                            THEN "archive" ELSE Where[<<i, c>>]
      OBVIOUS
    <3>1. /\ Where[<<i, c>>] = PlaceOf(acceptance[i][c])
          /\ Where'[<<i, c>>] = PlaceOf(acceptance'[i][c])
      BY <1>2
    <3>2. CASE i \in gone /\ acceptance[i][c] # Absent
      <4>1. acceptance'[i][c] = Archived
        BY <2>1, <3>2
      <4> QED BY <3>1, <3>2, <4>1 DEF PlaceOf, Absent, Archived
    <3>3. CASE ~(i \in gone /\ acceptance[i][c] # Absent)
      <4>1. acceptance'[i][c] = acceptance[i][c]
        BY <2>1, <3>3
      <4> QED BY <3>1, <3>3, <4>1 DEF PlaceOf
    <3> QED BY <3>2, <3>3
  <2>6. \A x \in Piece : Where'[x] = IF x \in some THEN "archive" ELSE Where[x]
    BY <2>3, <2>4, <2>5 DEF Piece
  <2> HIDE DEF some
  <2>7. Where' = [x \in Piece |-> IF x \in some THEN "archive" ELSE Where[x]]
    <3>1. Where' = [x \in Piece |-> Where'[x]]
      BY DEF Where
    <3> QED BY <2>6, <3>1
  <2>8. some \in SUBSET Piece /\ \A x \in some : Where[x] = "table"
    BY DEF some
  <2> QED BY <2>7, <2>8 DEF V!Next, V!Shelve
<1>10. ASSUME NEW aged, ArchiveLog(aged) PROVE UNCHANGED Where
  BY <1>3, <1>10 DEF ArchiveLog
<1> QED BY <1>4, <1>5, <1>6, <1>7, <1>8, <1>9, <1>10, ItemSteps DEF ArchiveStep

(***************************************************************************)
(* Planning implements Vault: whatever races with the archive, an item and *)
(* its criteria are recorded once and leave their tables only for it.      *)
(***************************************************************************)
THEOREM PlanRefinement == Spec => ImplementsVault
<1>1. Init => V!Init
  BY WhereInit
<1>2. TypeOK /\ [Next]_vars => [V!Next]_Where
  BY WhereStep
<1> QED BY <1>1, <1>2, TypeCorrect, PTL DEF Spec, ImplementsVault, V!Spec

-----------------------------------------------------------------------------
(* The rollup.                                                             *)

(***************************************************************************)
(* Plan statuses change, and milestones change under a process that moves  *)
(* on, only when a plan or milestone is added, a close commits or a        *)
(* reconcile is applied.                                                   *)
(***************************************************************************)
LEMMA TreeSteps ==
    ASSUME [Next]_vars
    PROVE  \/ UNCHANGED <<plan, milestone>>
           \/ UNCHANGED <<plan, op>>
           \/ \E p \in Plan : CreatePlan(p)
           \/ \E w \in Process : AddMilestoneInsert(w)
           \/ \E w \in Process : CloseCommit(w)
           \/ \E w \in Process : ReconcileApply(w)
<1>1. ASSUME NEW w \in Agent, AgentStep(w)
      PROVE  \/ UNCHANGED <<plan, milestone>>
             \/ UNCHANGED <<plan, op>>
             \/ \E p \in Plan : CreatePlan(p)
             \/ AddMilestoneInsert(w)
             \/ CloseCommit(w)
  BY <1>1 DEF AgentStep, AddItem, AddAcceptance, MeetAcceptance, SetItemStatusExplicit,
              StartItem, SetMilestoneStatus, AddMilestoneRead, PauseCheck, CloseCheck,
              PauseCommit, ledger
<1>2. ASSUME NEW w \in Housekeeper, NEW scopes, ReconcileStep(w, scopes)
      PROVE  UNCHANGED <<plan, milestone>> \/ ReconcileApply(w)
  BY <1>2 DEF ReconcileStep, ScanPlans, ScanMilestones, ScanChildren, ScanPlanStatus, ledger
<1>3. ASSUME NEW w \in Housekeeper, HousekeeperStep(w) \/ SinglePlanStep(w)
      PROVE  UNCHANGED <<plan, milestone>> \/ ReconcileApply(w)
  BY <1>2, <1>3 DEF HousekeeperStep, SinglePlanStep
<1>4. CASE ArchiveStep
  BY <1>4 DEF ArchiveStep, ArchiveItems, ArchiveLog
<1>5. ASSUME NEW w \in Process, Abandon(w) PROVE UNCHANGED <<plan, milestone>>
  BY <1>5 DEF Abandon, ledger
<1>6. CASE UNCHANGED vars
  BY <1>6 DEF vars
<1> QED BY <1>1, <1>3, <1>4, <1>5, <1>6 DEF Next, Process

LEMMA PlanMovesStep == TypeOK /\ [Next]_vars => PlanMoves
<1> SUFFICES ASSUME TypeOK, [Next]_vars, NEW p \in Plan, plan[p] \notin {Absent, plan'[p]}
             PROVE  plan'[p] = PlanStatusFromMilestones(milestone'[p])
  BY DEF PlanMoves
<1>1. ASSUME NEW q \in Plan, CreatePlan(q) PROVE FALSE
  BY <1>1 DEF CreatePlan, TypeOK
<1>2. ASSUME NEW w \in Process, CloseCommit(w)
      PROVE  plan'[p] = PlanStatusFromMilestones(milestone'[p])
  <2>1. plan'[p] = SyncedPlan(milestone'[p], plan[p])
    BY <1>2 DEF CloseCommit, TypeOK
  <2> QED BY <2>1, SyncSettlesPlan
<1>3. ASSUME NEW w \in Process, ReconcileApply(w)
      PROVE  plan'[p] = PlanStatusFromMilestones(milestone'[p])
  <2> DEFINE kids == [n \in Number |-> Kids(p, n, status)]
             row == ReconciledRow(kids, milestone[p], plan[p], op[w].drift[p])
  <2>1. milestone'[p] = row
    BY <1>3 DEF ReconcileApply
  <2>2. plan'[p] = ReconciledPlan(kids, milestone[p], plan[p], op[w].drift[p],
                                  p \in op[w].planDrift)
    BY <1>3 DEF ReconcileApply
  <2>3. plan'[p] = SyncedPlan(row, plan[p])
    BY <2>2 DEF ReconciledPlan
  <2> QED BY <2>1, <2>3, SyncSettlesPlan
<1>4. ASSUME NEW w \in Process, AddMilestoneInsert(w) PROVE FALSE
  BY <1>4 DEF AddMilestoneInsert
<1> QED BY <1>1, <1>2, <1>3, <1>4, TreeSteps

(***************************************************************************)
(* Plans only move to the status their milestones call for at the end of   *)
(* the same step, whatever races with the verb that moves them.            *)
(***************************************************************************)
THEOREM PlansFollow == Spec => PlanMovesWithMilestones
<1>1. TypeOK /\ [Next]_vars => [PlanMoves]_vars
  BY PlanMovesStep
<1> QED BY <1>1, TypeCorrect, PTL DEF Spec, PlanMovesWithMilestones

(***************************************************************************)
(* The milestone a close marks done has a done item, the one just closed,  *)
(* and no open one.                                                        *)
(***************************************************************************)
LEMMA CloseWritesTruth ==
    ASSUME TypeOK, NEW w \in Process, CloseCommit(w), NEW p \in Plan, NEW n \in Number,
           milestone'[p][n] # milestone[p][n]
    PROVE  milestone'[p][n] = MilestoneStatusFromChildren(Kids(p, n, status'), plan'[p])
<1> DEFINE i == op[w].item
<1>1. i \in Item
  BY CloseRead DEF TypeOK, CloseCommit
<1>2. status' = [status EXCEPT ![i] = "done"] /\ UNCHANGED parent
  BY DEF CloseCommit, SetItemStatusInTx
<1>3. milestone' = MaybeCompleteMilestone(i, status')
  BY DEF CloseCommit
<1>4. /\ parent[i].milestone # NoMilestone
      /\ milestone' = [milestone EXCEPT
                        ![parent[i].milestone[1]][parent[i].milestone[2]] = "done"]
      /\ Kids(parent[i].milestone[1], parent[i].milestone[2], status') \subseteq Terminal
  BY <1>3 DEF MaybeCompleteMilestone
<1>5. parent[i].milestone \in Milestone
  BY <1>1, <1>4 DEF TypeOK
<1>6. p = parent[i].milestone[1] /\ n = parent[i].milestone[2] /\ milestone'[p][n] = "done"
  BY <1>4, <1>5 DEF TypeOK, Rows, Milestone
<1>7. parent[i].milestone = <<p, n>>
  BY <1>5, <1>6 DEF Milestone
<1>8. "done" \in Kids(p, n, status')
  BY <1>1, <1>2, <1>7 DEF Kids, ItemStatus, TypeOK
<1> QED BY <1>4, <1>6, <1>8, FinishedMeansDone

LEMMA RollupTruthStep == TypeOK /\ [Next]_vars => RollupTruth
<1> SUFFICES ASSUME TypeOK, [Next]_vars, NEW p \in Plan, NEW n \in Number,
                    op' # op,
                    milestone[p][n] \notin {Absent, milestone'[p][n]},
                    Kids(p, n, status') # {}
             PROVE  milestone'[p][n] = MilestoneStatusFromChildren(Kids(p, n, status'), plan'[p])
  BY DEF RollupTruth
<1>1. ASSUME NEW q \in Plan, CreatePlan(q) PROVE FALSE
  BY <1>1 DEF CreatePlan
<1>2. ASSUME NEW w \in Process, AddMilestoneInsert(w) PROVE FALSE
  BY <1>2, AddRead DEF AddMilestoneInsert, TypeOK, Rows
<1>3. ASSUME NEW w \in Process, CloseCommit(w)
      PROVE  milestone'[p][n] = MilestoneStatusFromChildren(Kids(p, n, status'), plan'[p])
  BY <1>3, CloseWritesTruth
<1>4. ASSUME NEW w \in Process, ReconcileApply(w)
      PROVE  milestone'[p][n] = MilestoneStatusFromChildren(Kids(p, n, status'), plan'[p])
  <2> DEFINE kids == [m \in Number |-> Kids(p, m, status)]
             drift == op[w].drift[p]
  <2>1. milestone'[p] = ReconciledRow(kids, milestone[p], plan[p], drift)
    BY <1>4 DEF ReconcileApply
  <2>2. PICK b : milestone'[p][n] = IF n \in drift THEN SyncedMilestone(kids[n], b, milestone[p][n])
                                                   ELSE milestone[p][n]
    BY <2>1 DEF ReconciledRow
  <2>3. kids[n] = Kids(p, n, status')
    BY <1>4 DEF ReconcileApply, Kids
  <2>4. milestone'[p][n] = MilestoneStatusFromChildren(Kids(p, n, status'), b)
    BY <2>2, <2>3 DEF SyncedMilestone
  <2> QED BY <2>4, ItemsDecide
<1> QED BY <1>1, <1>2, <1>3, <1>4, TreeSteps

(***************************************************************************)
(* A milestone with items that a close or a reconcile changes gets the     *)
(* status its items call for at that moment, however stale the reads are   *)
(* that made the process write.                                            *)
(***************************************************************************)
THEOREM RollupTruthful == Spec => RollupWritesTruth
<1>1. TypeOK /\ [Next]_vars => [RollupTruth]_vars
  BY RollupTruthStep
<1> QED BY <1>1, TypeCorrect, PTL DEF Spec, RollupWritesTruth
-----------------------------------------------------------------------------
(* Close.                                                                  *)

(***************************************************************************)
(* A process that was closing an item and is idle after a step that wrote  *)
(* to the ledger has committed the close.                                  *)
(***************************************************************************)
LEMMA CloseIsCommit ==
    ASSUME TypeOK, [Next]_vars, NEW w \in Agent, NEW i \in Item,
           Commits(w), op[w] = Closing(i)
    PROVE  CloseCommit(w)
<1> USE DEF Commits
<1>1. w \in Process /\ op[w].kind = "close" /\ op'[w] # op[w] /\ op' # op
  BY DEF Closing, Process
<1>2. ~UNCHANGED ledger
  OBVIOUS
<1>3. ASSUME NEW u \in Process, NEW o, op' = [op EXCEPT ![u] = o] PROVE u = w
  BY <1>1, <1>3 DEF TypeOK
<1>4. ASSUME NEW u \in Agent, AgentStep(u) PROVE CloseCommit(w)
  <2>1. u \in Process
    BY DEF Process
  <2>2. ASSUME AddMilestoneInsert(u) \/ PauseCommit(u) PROVE FALSE
    <3>1. PICK o : op' = [op EXCEPT ![u] = o]
      BY <2>2 DEF AddMilestoneInsert, PauseCommit
    <3>2. op[u].kind # "close"
      BY <2>2 DEF AddMilestoneInsert, PauseCommit
    <3> QED BY <1>1, <1>3, <2>1, <3>1, <3>2
  <2>3. ASSUME CloseCommit(u) PROVE CloseCommit(w)
    <3>1. PICK o : op' = [op EXCEPT ![u] = o]
      BY <2>3 DEF CloseCommit
    <3>2. u = w
      BY <1>3, <2>1, <3>1
    <3> QED BY <2>3, <3>2
  <2>4. ASSUME \/ \E p \in Plan : CreatePlan(p)
               \/ \E j \in Item, p \in Plan \cup {NoPlan}, m \in Milestone \cup {NoMilestone} :
                      AddItem(j, p, m)
               \/ \E j \in Item, c \in Criterion : AddAcceptance(j, c) \/ MeetAcceptance(j, c)
               \/ \E j \in Item, s \in ItemStatus : SetItemStatusExplicit(j, s)
               \/ \E j \in Item : StartItem(j)
               \/ \E m \in Milestone, s \in MilestoneStatus : SetMilestoneStatus(m, s)
        PROVE  FALSE
    BY <1>1, <2>4 DEF CreatePlan, AddItem, AddAcceptance, MeetAcceptance,
                      SetItemStatusExplicit, StartItem, SetMilestoneStatus
  <2>5. ASSUME \/ \E p \in Plan, n \in Number : AddMilestoneRead(u, p, n)
               \/ \E j \in Item : PauseCheck(u, j) \/ CloseCheck(u, j)
        PROVE  FALSE
    BY <1>2, <2>5 DEF AddMilestoneRead, PauseCheck, CloseCheck
  <2> QED BY <1>4, <2>2, <2>3, <2>4, <2>5 DEF AgentStep
<1>5. ASSUME NEW u \in Housekeeper, NEW scopes, ReconcileStep(u, scopes) PROVE FALSE
  <2>1. ReconcileApply(u)
    BY <1>2, <1>5 DEF ReconcileStep, ScanPlans, ScanMilestones, ScanChildren, ScanPlanStatus
  <2>2. op' = [op EXCEPT ![u] = Idle] /\ op[u].kind = "scan" /\ u \in Process
    BY <2>1 DEF ReconcileApply, Process
  <2> QED BY <1>1, <1>3, <2>2
<1>6. ASSUME NEW u \in Housekeeper, HousekeeperStep(u) \/ SinglePlanStep(u) PROVE FALSE
  BY <1>5, <1>6 DEF HousekeeperStep, SinglePlanStep
<1>7. ASSUME ArchiveStep PROVE FALSE
  BY <1>1, <1>7 DEF ArchiveStep, ArchiveItems, ArchiveLog
<1>8. ASSUME NEW u \in Process, Abandon(u) PROVE FALSE
  BY <1>2, <1>8 DEF Abandon
<1>9. ASSUME UNCHANGED vars PROVE FALSE
  BY <1>1, <1>9 DEF vars
<1> QED BY <1>4, <1>6, <1>7, <1>8, <1>9 DEF Next

LEMMA RollupStep == TypeOK /\ [Next]_vars => Rollup
<1> SUFFICES ASSUME TypeOK, [Next]_vars, NEW w \in Agent, NEW i \in Item,
                    Commits(w), op[w] = Closing(i), parent[i].milestone # NoMilestone
             PROVE  LET m == parent[i].milestone
                    IN  /\ Kids(m[1], m[2], status') \subseteq Terminal
                            => milestone'[m[1]][m[2]] = "done"
                        /\ parent[i].plan = m[1]
                            => ~PlanDrifts(milestone'[m[1]], plan'[m[1]])
  BY DEF Rollup
<1> DEFINE m == parent[i].milestone
<1>1. CloseCommit(w) /\ op[w].item = i
  BY CloseIsCommit DEF Closing
<1>2. m \in Milestone /\ m[1] \in Plan /\ m[2] \in Number
  BY DEF TypeOK, Milestone
<1>3. ASSUME Kids(m[1], m[2], status') \subseteq Terminal
      PROVE  milestone'[m[1]][m[2]] = "done"
  <2>1. milestone' = [milestone EXCEPT ![m[1]][m[2]] = "done"]
    BY <1>1, <1>3 DEF CloseCommit, MaybeCompleteMilestone
  <2> QED BY <1>2, <2>1 DEF TypeOK, Rows
<1>4. ASSUME parent[i].plan = m[1]
      PROVE  ~PlanDrifts(milestone'[m[1]], plan'[m[1]])
  <2>1. parent[i].plan # NoPlan
    BY <1>2, <1>4, PlanningAssumption
  <2>2. plan'[m[1]] = SyncedPlan(milestone'[m[1]], plan[m[1]])
    BY <1>1, <1>2, <1>4, <2>1 DEF CloseCommit, TypeOK
  <2> QED BY <2>2, SyncSettlesPlan
<1> QED BY <1>3, <1>4

(***************************************************************************)
(* A close leaves no finished milestone open, and no plan behind its       *)
(* milestones when item and milestone are filed under the same plan.       *)
(***************************************************************************)
THEOREM CloseComplete == Spec => CloseRollsUp
<1>1. TypeOK /\ [Next]_vars => [Rollup]_vars
  BY RollupStep
<1> QED BY <1>1, TypeCorrect, PTL DEF Spec, CloseRollsUp
=============================================================================
