------------------------------ MODULE Planning ------------------------------
(***************************************************************************)
(* The plan tree of one project ledger (internal/domain/planning and the   *)
(* plan verbs of internal/cli) under concurrent devdb processes.           *)
(*                                                                         *)
(* Every invocation of the CLI is a process of its own on a shared SQLite  *)
(* file.  A single statement and a committed transaction are atomic and    *)
(* serializable, so each is one action.  A verb that reads the ledger in   *)
(* one statement and writes it in a later one (close, pause, milestone     *)
(* add, reconcile) takes several actions, and what it has read so far is   *)
(* op[w], the local state of process w.                                    *)
(*                                                                         *)
(* Agents run the editing verbs, housekeepers `plan reconcile --apply`,    *)
(* alone or as part of `ledger housekeeping`.  One process runs one verb,  *)
(* so nothing is lost by keeping the two apart.                            *)
(***************************************************************************)
EXTENDS PlanRollup

CONSTANTS
    Plan,          \* plan slugs that may be created
    MaxItem,       \* bound: plan items ever created
    Criterion,     \* bound: acceptance criteria an item may have
    Agent,         \* processes that run editing verbs
    Housekeeper,   \* processes that run reconcile
    NoPlan,        \* plan_items.plan_id IS NULL
    NoMilestone    \* plan_items.milestone_id IS NULL

Process == Agent \cup Housekeeper
Item == 1..MaxItem
Itself == "item"       \* an item's own row, beside those of its criteria
Milestone == Plan \X Number

ASSUME PlanningAssumption ==
    /\ MaxItem \in Nat
    /\ Agent \cap Housekeeper = {}
    /\ NoPlan \notin Plan
    /\ NoMilestone \notin Milestone
    /\ Itself \notin Criterion

Archived == "archived"   \* the row was moved to archive_entries
NoLog == "none"          \* the item has no status_log row

VARIABLES
    plan,        \* plans.status by slug
    milestone,   \* milestones.status by plan and number
    status,      \* plan_items.status; items are numbered as they are created
    parent,      \* plan_items.plan_id and milestone_id
    acceptance,  \* plan_item_acceptance.status by item and criterion
    logged,      \* status of the item's newest status_log row
    op           \* what each process holds between two of its statements

vars == <<plan, milestone, status, parent, acceptance, logged, op>>
ledger == <<plan, milestone, status, parent, acceptance, logged>>

Live(i) == status[i] \in ItemStatus
MilestoneExists(m) == milestone[m[1]][m[2]] # Absent

\* Statuses of the items under milestone n of plan p, given the items' statuses.
Kids(p, n, st) ==
    {s \in ItemStatus : \E i \in Item : st[i] = s /\ parent[i].milestone = <<p, n>>}

OpenCriteria(i) == {c \in Criterion : acceptance[i][c] = "open"}

-----------------------------------------------------------------------------
(* Local state of a process.                                               *)

Idle == [kind |-> "idle"]
Closing(i) == [kind |-> "close", item |-> i]
Pausing(i) == [kind |-> "pause", item |-> i]
Adding(p, n) == [kind |-> "addMilestone", plan |-> p, number |-> n]

\* A reconcile: planRow are the plan statuses it read first, todo the plans it has
\* still to read, at the plan it is reading, row that plan's milestones as read,
\* next the milestone whose items come next, drift and planDrift its report.
Scan == [kind      : {"scan"},
         planRow   : [Plan -> PlanStatus \cup {Absent}],
         todo      : SUBSET Plan,
         at        : Plan \cup {NoPlan},
         row       : Rows,
         next      : 1..MaxNumber + 1,
         drift     : [Plan -> SUBSET Number],
         planDrift : SUBSET Plan]

OpState ==
    {Idle} \cup {Closing(i) : i \in Item} \cup {Pausing(i) : i \in Item}
    \cup {Adding(m[1], m[2]) : m \in Milestone} \cup Scan

TypeOK ==
    /\ plan \in [Plan -> PlanStatus \cup {Absent}]
    /\ milestone \in [Plan -> Rows]
    /\ status \in [Item -> ItemStatus \cup {Absent, Archived}]
    /\ parent \in [Item -> [plan : Plan \cup {NoPlan},
                            milestone : Milestone \cup {NoMilestone}]]
    /\ acceptance \in [Item -> [Criterion -> {Absent, "open", "met", Archived}]]
    /\ logged \in [Item -> ItemStatus \cup {NoLog}]
    /\ op \in [Process -> OpState]

Init ==
    /\ plan = [p \in Plan |-> Absent]
    /\ milestone = [p \in Plan |-> [n \in Number |-> Absent]]
    /\ status = [i \in Item |-> Absent]
    /\ parent = [i \in Item |-> [plan |-> NoPlan, milestone |-> NoMilestone]]
    /\ acceptance = [i \in Item |-> [c \in Criterion |-> Absent]]
    /\ logged = [i \in Item |-> NoLog]
    /\ op = [w \in Process |-> Idle]

-----------------------------------------------------------------------------
(* Verbs that write with one statement or one transaction.                 *)

\* CreatePlan: the slug is UNIQUE, so a second create of it fails.
CreatePlan(p) ==
    /\ plan[p] = Absent
    /\ plan' = [plan EXCEPT ![p] = "active"]
    /\ UNCHANGED <<milestone, status, parent, acceptance, logged, op>>

\* AddItem, AddStructuredItem and AddLegacyItem: the plan and the milestone are
\* optional, checked one by one by their foreign keys and never against each other.
AddItem(i, p, m) ==
    /\ status[i] = Absent
    /\ \A j \in Item : j < i => status[j] # Absent
    /\ p # NoPlan => plan[p] # Absent
    /\ m # NoMilestone => MilestoneExists(m)
    /\ status' = [status EXCEPT ![i] = "planned"]
    /\ parent' = [parent EXCEPT ![i] = [plan |-> p, milestone |-> m]]
    /\ UNCHANGED <<plan, milestone, acceptance, logged, op>>

\* A criterion is accepted for an item that was archived.
MutatedAddAcceptance(i, c) ==
    /\ status[i] # Absent
    /\ acceptance[i][c] = Absent
    /\ acceptance' = [acceptance EXCEPT ![i][c] = "open"]
    /\ UNCHANGED <<plan, milestone, status, parent, logged, op>>

\* AddAcceptance: allowed at any time, also on a done item.
AddAcceptance(i, c) ==
    /\ Live(i)
    /\ acceptance[i][c] = Absent
    /\ acceptance' = [acceptance EXCEPT ![i][c] = "open"]
    /\ UNCHANGED <<plan, milestone, status, parent, logged, op>>

MeetAcceptance(i, c) ==
    /\ acceptance[i][c] \in {"open", "met"}
    /\ acceptance' = [acceptance EXCEPT ![i][c] = "met"]
    /\ UNCHANGED <<plan, milestone, status, parent, logged, op>>

\* The audit row is written for the first change only.
MutatedSetItemStatus(i, s) ==
    /\ Live(i)
    /\ status' = [status EXCEPT ![i] = s]
    /\ logged' = [logged EXCEPT ![i] = IF @ = NoLog THEN s ELSE @]

\* setItemStatusInTx: the status and its audit row commit together; an item that
\* is gone fails the audit row's foreign key and rolls the update back.
SetItemStatusInTx(i, s) ==
    /\ Live(i)
    /\ status' = [status EXCEPT ![i] = s]
    /\ logged' = [logged EXCEPT ![i] = s]

\* `plan item status`: any status, no acceptance check, no rollup.
SetItemStatusExplicit(i, s) ==
    /\ SetItemStatusInTx(i, s)
    /\ UNCHANGED <<plan, milestone, parent, acceptance, op>>

\* StartItem: from any status, a done item included.
StartItem(i) ==
    /\ SetItemStatusInTx(i, "in_progress")
    /\ UNCHANGED <<plan, milestone, parent, acceptance, op>>

\* `plan milestone status`: a bare UPDATE of the milestone.
SetMilestoneStatus(m, s) ==
    /\ MilestoneExists(m)
    /\ milestone' = [milestone EXCEPT ![m[1]][m[2]] = s]
    /\ UNCHANGED <<plan, status, parent, acceptance, logged, op>>

-----------------------------------------------------------------------------
(* Verbs that read first and write later.                                  *)

\* AddMilestone: n is the --number given, or MAX(number) + 1 read beforehand; any
\* n can be either.
AddMilestoneRead(w, p, n) ==
    /\ op[w] = Idle
    /\ plan[p] # Absent
    /\ op' = [op EXCEPT ![w] = Adding(p, n)]
    /\ UNCHANGED ledger

\* The INSERT; UNIQUE(plan_id, number) lets only the first of two racers in.
AddMilestoneInsert(w) ==
    /\ op[w].kind = "addMilestone"
    /\ milestone[op[w].plan][op[w].number] = Absent
    /\ milestone' = [milestone EXCEPT ![op[w].plan][op[w].number] = "planned"]
    /\ op' = [op EXCEPT ![w] = Idle]
    /\ UNCHANGED <<plan, status, parent, acceptance, logged>>

\* PauseItem reads the status and rejects an item that is not in progress.
PauseCheck(w, i) ==
    /\ op[w] = Idle
    /\ status[i] = "in_progress"
    /\ op' = [op EXCEPT ![w] = Pausing(i)]
    /\ UNCHANGED ledger

\* The transaction writes in_progress again, whatever the status is by now.
PauseCommit(w) ==
    /\ op[w].kind = "pause"
    /\ SetItemStatusInTx(op[w].item, "in_progress")
    /\ op' = [op EXCEPT ![w] = Idle]
    /\ UNCHANGED <<plan, milestone, parent, acceptance>>

\* CloseItem counts the open criteria before it opens its transaction.
CloseCheck(w, i) ==
    /\ op[w] = Idle
    /\ Live(i)
    /\ OpenCriteria(i) = {}
    /\ op' = [op EXCEPT ![w] = Closing(i)]
    /\ UNCHANGED ledger

\* An item marked wontfix keeps the milestone open.
MutatedCompleteIfDone(i, st) ==
    LET m == parent[i].milestone
    IN  IF m # NoMilestone /\ Kids(m[1], m[2], st) \subseteq {"done"}
          THEN [milestone EXCEPT ![m[1]][m[2]] = "done"]
          ELSE milestone

\* An item that was never started does not keep it open.
MutatedCompleteIfStopped(i, st) ==
    LET m == parent[i].milestone
    IN  IF m # NoMilestone /\ "in_progress" \notin Kids(m[1], m[2], st)
          THEN [milestone EXCEPT ![m[1]][m[2]] = "done"]
          ELSE milestone

\* maybeCompleteMilestone: the milestone is done when none of its items is open;
\* st are the item statuses as the transaction sees them.
MaybeCompleteMilestone(i, st) ==
    LET m == parent[i].milestone
    IN  IF m # NoMilestone /\ Kids(m[1], m[2], st) \subseteq Terminal
          THEN [milestone EXCEPT ![m[1]][m[2]] = "done"]
          ELSE milestone

\* The plan is synced before the milestone is completed.
MutatedCloseCommit(w) ==
    LET i == op[w].item
        p == parent[i].plan
    IN  /\ op[w].kind = "close"
        /\ SetItemStatusInTx(i, "done")
        /\ milestone' = MaybeCompleteMilestone(i, status')
        /\ plan' = IF p = NoPlan
                     THEN plan
                     ELSE [plan EXCEPT ![p] = SyncedPlan(milestone[p], @)]
        /\ op' = [op EXCEPT ![w] = Idle]
        /\ UNCHANGED <<parent, acceptance>>

\* The transaction: done, audit row, milestone, then the plan named by the item.
CloseCommit(w) ==
    LET i == op[w].item
        p == parent[i].plan
    IN  /\ op[w].kind = "close"
        /\ SetItemStatusInTx(i, "done")
        /\ milestone' = MaybeCompleteMilestone(i, status')
        /\ plan' = IF p = NoPlan
                     THEN plan
                     ELSE [plan EXCEPT ![p] = SyncedPlan(milestone'[p], @)]
        /\ op' = [op EXCEPT ![w] = Idle]
        /\ UNCHANGED <<parent, acceptance>>

-----------------------------------------------------------------------------
(* plan reconcile --apply: FindPlanTreeDrift reads the tree row by row, each *)
(* query its own snapshot; then one transaction recomputes the drifted rows. *)

NoRow == [n \in Number |-> Absent]

\* The plan rows: every plan, or the one named by --plan.
ScanPlans(w, scope) ==
    /\ op[w] = Idle
    /\ scope # {}
    /\ \A p \in scope : plan[p] # Absent
    /\ op' = [op EXCEPT ![w] =
            [kind |-> "scan", planRow |-> plan, todo |-> scope,
             at |-> NoPlan, row |-> NoRow, next |-> 1,
             drift |-> [p \in Plan |-> {}], planDrift |-> {}]]
    /\ UNCHANGED ledger

\* All milestone rows of the next plan, in one query.
ScanMilestones(w, p) ==
    /\ op[w].kind = "scan"
    /\ op[w].at = NoPlan
    /\ p \in op[w].todo
    /\ op' = [op EXCEPT ![w].at = p, ![w].row = milestone[p], ![w].next = 1]
    /\ UNCHANGED ledger

\* The items of one milestone, against the milestone row read earlier.
ScanChildren(w) ==
    LET p == op[w].at
        n == op[w].next
        drifts == /\ op[w].row[n] # Absent
                  /\ MilestoneDrifts(Kids(p, n, status), plan[p], op[w].row[n])
    IN  /\ op[w].kind = "scan"
        /\ p # NoPlan
        /\ n \in Number
        /\ op' = [op EXCEPT ![w].next = n + 1,
                            ![w].drift[p] = IF drifts THEN @ \cup {n} ELSE @]
        /\ UNCHANGED ledger

\* Only plans marked done are compared with their milestones.
MutatedScanPlanStatus(w) ==
    LET p == op[w].at
        drifts == op[w].planRow[p] = "done" /\ PlanDrifts(milestone[p], op[w].planRow[p])
    IN  /\ op[w].kind = "scan"
        /\ p # NoPlan
        /\ op[w].next = MaxNumber + 1
        /\ op' = [op EXCEPT ![w].todo = @ \ {p},
                            ![w].at = NoPlan,
                            ![w].row = NoRow,
                            ![w].next = 1,
                            ![w].planDrift = IF drifts THEN @ \cup {p} ELSE @]
        /\ UNCHANGED ledger

\* The milestones of the plan once more, against the plan row read first.
ScanPlanStatus(w) ==
    LET p == op[w].at
        drifts == PlanDrifts(milestone[p], op[w].planRow[p])
    IN  /\ op[w].kind = "scan"
        /\ p # NoPlan
        /\ op[w].next = MaxNumber + 1
        /\ op' = [op EXCEPT ![w].todo = @ \ {p},
                            ![w].at = NoPlan,
                            ![w].row = NoRow,
                            ![w].next = 1,
                            ![w].planDrift = IF drifts THEN @ \cup {p} ELSE @]
        /\ UNCHANGED ledger

\* Every reported milestone is taken for one whose completion was missed.
MutatedReconcileApply(w) ==
    /\ op[w].kind = "scan"
    /\ op[w].todo = {}
    /\ milestone' = [p \in Plan |-> [n \in Number |->
            IF n \in op[w].drift[p] THEN "done" ELSE milestone[p][n]]]
    /\ op' = [op EXCEPT ![w] = Idle]
    /\ UNCHANGED <<plan, status, parent, acceptance, logged>>

\* The transaction: it repairs the reported rows from what is stored now, never
\* from the statuses in the report.
ReconcileApply(w) ==
    LET kids(p) == [n \in Number |-> Kids(p, n, status)]
        o == op[w]
    IN  /\ o.kind = "scan"
        /\ o.todo = {}
        /\ milestone' = [p \in Plan |->
                ReconciledRow(kids(p), milestone[p], plan[p], o.drift[p])]
        /\ plan' = [p \in Plan |->
                ReconciledPlan(kids(p), milestone[p], plan[p], o.drift[p],
                               p \in o.planDrift)]
        /\ op' = [op EXCEPT ![w] = Idle]
        /\ UNCHANGED <<status, parent, acceptance, logged>>

-----------------------------------------------------------------------------
(* archive run, the two steps that touch the plan tree, a transaction each. *)

\* The items are deleted first, and ON DELETE CASCADE leaves no criteria to copy.
MutatedArchiveItems(cutoff) ==
    LET gone == {i \in Item : i < cutoff /\ status[i] \in Terminal}
    IN  /\ gone # {}
        /\ status' = [i \in Item |-> IF i \in gone THEN Archived ELSE status[i]]
        /\ acceptance' = [i \in Item |-> [c \in Criterion |->
                IF i \in gone THEN Absent ELSE acceptance[i][c]]]
        /\ logged' = [i \in Item |-> IF i \in gone THEN NoLog ELSE logged[i]]
        /\ UNCHANGED <<plan, milestone, parent, op>>

\* Finished items created before the cutoff leave with all their children.
ArchiveItems(cutoff) ==
    LET gone == {i \in Item : i < cutoff /\ status[i] \in Terminal}
    IN  /\ gone # {}
        /\ status' = [i \in Item |-> IF i \in gone THEN Archived ELSE status[i]]
        /\ acceptance' = [i \in Item |-> [c \in Criterion |->
                IF i \in gone /\ acceptance[i][c] # Absent
                  THEN Archived ELSE acceptance[i][c]]]
        /\ logged' = [i \in Item |-> IF i \in gone THEN NoLog ELSE logged[i]]
        /\ UNCHANGED <<plan, milestone, parent, op>>

\* Audit rows older than the cutoff; aged are the items left with none.
ArchiveLog(aged) ==
    /\ aged # {}
    /\ \A i \in aged : logged[i] # NoLog
    /\ logged' = [i \in Item |-> IF i \in aged THEN NoLog ELSE logged[i]]
    /\ UNCHANGED <<plan, milestone, status, parent, acceptance, op>>

\* A process that is killed, runs out of busy retries, or whose write is refused
\* (foreign key of an archived item, taken milestone number) leaves no trace.
Abandon(w) ==
    /\ op[w] # Idle
    /\ op' = [op EXCEPT ![w] = Idle]
    /\ UNCHANGED ledger

-----------------------------------------------------------------------------
\* A process in the middle of a verb starts no other one.
AgentStep(w) ==
    \/ /\ op[w] = Idle
       /\ \/ \E p \in Plan : CreatePlan(p)
          \/ \E i \in Item, p \in Plan \cup {NoPlan}, m \in Milestone \cup {NoMilestone} :
                AddItem(i, p, m)
          \/ \E i \in Item, c \in Criterion : AddAcceptance(i, c)
          \/ \E i \in Item, c \in Criterion : MeetAcceptance(i, c)
          \/ \E i \in Item, s \in ItemStatus : SetItemStatusExplicit(i, s)
          \/ \E i \in Item : StartItem(i)
          \/ \E m \in Milestone, s \in MilestoneStatus : SetMilestoneStatus(m, s)
    \/ \E p \in Plan, n \in Number : AddMilestoneRead(w, p, n)
    \/ \E i \in Item : PauseCheck(w, i)
    \/ \E i \in Item : CloseCheck(w, i)
    \/ AddMilestoneInsert(w)
    \/ PauseCommit(w)
    \/ CloseCommit(w)

ReconcileStep(w, scopes) ==
    \/ \E scope \in scopes : ScanPlans(w, scope)
    \/ \E p \in Plan : ScanMilestones(w, p)
    \/ ScanChildren(w)
    \/ ScanPlanStatus(w)
    \/ ReconcileApply(w)

\* Housekeeping reconciles every plan, `plan reconcile --plan` a single one.
HousekeeperStep(w) == ReconcileStep(w, {{p \in Plan : plan[p] # Absent}})
SinglePlanStep(w) == ReconcileStep(w, {{p} : p \in Plan})

ArchiveStep ==
    \/ \E cutoff \in 2..MaxItem + 1 : ArchiveItems(cutoff)
    \/ \E aged \in SUBSET Item : ArchiveLog(aged)

Next ==
    \/ \E w \in Agent : AgentStep(w)
    \/ \E w \in Housekeeper : HousekeeperStep(w) \/ SinglePlanStep(w)
    \/ ArchiveStep
    \/ \E w \in Process : Abandon(w)

Spec == Init /\ [][Next]_vars

\* Housekeeping is scheduled (cron, end of session) and keeps being run.
FairSpec == Spec /\ \A w \in Housekeeper : WF_vars(HousekeeperStep(w))

-----------------------------------------------------------------------------
(* Properties.                                                             *)

(***************************************************************************)
(* The newest audit row of an item tells its status, whatever verbs raced  *)
(* to write it (setItemStatusInTx, service.go:135), and an item that has   *)
(* left the ledger has left no audit row behind.                           *)
(***************************************************************************)
AuditMatches ==
    \A i \in Item :
        logged[i] # NoLog => Live(i) /\ logged[i] = status[i]

(***************************************************************************)
(* No live criterion belongs to an item that was archived: the archive     *)
(* takes the children in the same transaction and a late AddAcceptance is  *)
(* refused (archive/service.go:298, service.go:116).                       *)
(***************************************************************************)
NoOrphanCriterion ==
    \A i \in Item, c \in Criterion :
        acceptance[i][c] \in {"open", "met"} => Live(i)

(***************************************************************************)
(* The rows of an item, itself and its criteria, keep the promise of       *)
(* Vault: they are recorded once, leave their tables only for the archive, *)
(* and no process loses one by what it read before (archiveTable and       *)
(* archivePlanItemChildren, archive/service.go:272 and 298).               *)
(***************************************************************************)
Piece == Item \X (Criterion \cup {Itself})

PlaceOf(stored) ==
    IF stored = Absent THEN "nowhere" ELSE IF stored = Archived THEN "archive" ELSE "table"

Where == [x \in Piece |->
    PlaceOf(IF x[2] = Itself THEN status[x[1]] ELSE acceptance[x[1]][x[2]])]

V == INSTANCE Vault WITH Thing <- Piece, where <- Where
ImplementsVault == V!Spec

\* A step that is the commit of the verb process w was in the middle of.
Commits(w) == op[w] # Idle /\ op'[w] = Idle /\ ledger' # ledger

(***************************************************************************)
(* When close or reconcile changes a milestone that has items, it writes   *)
(* the status its items call for at that very moment, however old the      *)
(* reads that led to the write are (reconcile.go:221, service.go:348).     *)
(***************************************************************************)
RollupTruth ==
    \A p \in Plan, n \in Number :
        /\ op' # op
        /\ milestone[p][n] \notin {Absent, milestone'[p][n]}
        /\ Kids(p, n, status') # {}
        => milestone'[p][n] = MilestoneStatusFromChildren(Kids(p, n, status'), plan'[p])

RollupWritesTruth == [][RollupTruth]_vars

(***************************************************************************)
(* A plan's status only ever moves to the one its milestones call for at   *)
(* the end of the same step (syncPlanStatus, reconcile.go:240).            *)
(***************************************************************************)
PlanMoves ==
    \A p \in Plan :
        plan[p] \notin {Absent, plan'[p]}
        => plan'[p] = PlanStatusFromMilestones(milestone'[p])

PlanMovesWithMilestones == [][PlanMoves]_vars

(***************************************************************************)
(* CloseItem leaves no finished milestone open and, for an item filed      *)
(* under the plan its milestone belongs to, no plan behind its milestones  *)
(* (the comment on CloseItem, service.go:296).                             *)
(***************************************************************************)
Rollup ==
    \A w \in Agent, i \in Item :
        LET m == parent[i].milestone
        IN  /\ Commits(w) /\ op[w] = Closing(i)
            /\ m # NoMilestone
            => /\ Kids(m[1], m[2], status') \subseteq Terminal
                    => milestone'[m[1]][m[2]] = "done"
               /\ parent[i].plan = m[1]
                    => ~PlanDrifts(milestone'[m[1]], plan'[m[1]])

CloseRollsUp == [][Rollup]_vars

(***************************************************************************)
(* CloseItem closes only items all of whose criteria are met               *)
(* (service.go:296), whatever happened since it counted them.              *)
(***************************************************************************)
CloseGate ==
    [][\A w \in Agent, i \in Item :
            Commits(w) /\ op[w] = Closing(i) => OpenCriteria(i) = {}]_vars

\* FindPlanTreeDrift would report nothing.
NoDrift ==
    \A p \in Plan : plan[p] # Absent =>
        /\ ~PlanDrifts(milestone[p], plan[p])
        /\ \A n \in Number : milestone[p][n] # Absent =>
                ~MilestoneDrifts(Kids(p, n, status), plan[p], milestone[p][n])

(***************************************************************************)
(* Once nobody edits the ledger, repeated housekeeping leaves it without   *)
(* drift for good, from whatever state the edits left it in.               *)
(***************************************************************************)
QuietLedgerConverges ==
    <>[][\E w \in Housekeeper : HousekeeperStep(w)]_vars => <>[]NoDrift
=============================================================================
