------------------------------- MODULE Records -------------------------------
(***************************************************************************)
(* The flat tables of a project ledger and their archive: feedback, review *)
(* runs and findings, features, reminders and tasks (internal/domain and   *)
(* the verbs of internal/cli), with archive run, archive restore and       *)
(* archive gc (internal/domain/archive).                                   *)
(*                                                                         *)
(* An editing verb is one statement on one row.  The archive verbs are     *)
(* processes: a sweep counts first and then moves table by table, each in  *)
(* a transaction; a restore reads its entries, inserts row by row and      *)
(* deletes the entries at the end; a collection updates and archives row   *)
(* by row without a transaction.  Each may die, or fail and return, after  *)
(* any statement.  Rows are numbered in the order of their created_at.     *)
(* The friction scan of the OpenClaw adapter reads the feedback first and  *)
(* inserts then.  What several reviewers of one run do to each other is in *)
(* Review; the plan tree and its archive are in Planning.                  *)
(***************************************************************************)
EXTENDS Naturals, FiniteSets

CONSTANTS
    MaxRow,     \* bound: rows ever inserted
    MaxCopy,    \* bound: archive entries ever made of one row
    MaxVerbs,   \* bound, for each table: editing verbs after which none works on it
    MaxRuns,    \* bound: restores, collections and sweeps of one table
    MaxCrashes, \* bound: sweeps that die
    Table,      \* the tables used, some of those below
    Sweeper,    \* processes running archive run or ledger housekeeping
    Restorer,   \* processes running archive restore
    Collector,  \* processes running archive gc
    Scanner,    \* processes running the adapter's friction scan
    Line        \* marked lines of the daily memory files

Row == 1..MaxRow
Process == Sweeper \cup Restorer \cup Collector \cup Scanner

AnyTable == {"goals", "feedback", "findings", "runs", "features", "reminders", "tasks"}

ASSUME RecordsAssumption ==
    /\ MaxRow \in Nat
    /\ MaxCopy \in Nat
    /\ MaxVerbs \in [AnyTable -> Nat]
    /\ MaxRuns \in Nat
    /\ MaxCrashes \in Nat
    /\ Table \subseteq AnyTable
    /\ IsFiniteSet(Process)
    /\ Sweeper \cap Restorer = {}
    /\ (Sweeper \cup Restorer) \cap Collector = {}
    /\ (Sweeper \cup Restorer \cup Collector) \cap Scanner = {}
    /\ Row \cap Line = {} /\ 0 \notin Line

NoTable == "none"
NoRef == 0

\* The status column of each table.  "done" stands for wontfix too, and "retired" for
\* resolved, wontfix, accepted and duplicate, which no verb tells apart.  Nothing checks a
\* finding's: `review resolve` stores what it is given, "fixed" stands for any word not
\* listed.  A run is finished when finished_at is not NULL; a feature has no status.
TaskStatus == {"open", "done"}      \* a goal's open is called active
ReminderStatus == {"open", "dismissed"}
FeedbackStatus == {"open", "closed"}
FindingStatus == {"open", "fixed", "retired"}
RunStatus == {"open", "finished"}
Status ==
    TaskStatus \cup ReminderStatus \cup FeedbackStatus \cup FindingStatus \cup RunStatus

\* One more column that verbs change: proposed_fix and context of a feedback,
\* snooze_until of a reminder, approval_status of a task ("decided" stands for
\* approved and rejected).
Note == {"none", "given", "pending", "decided"}

VARIABLES
    table,    \* the table each row was inserted into
    live,     \* the rows that are in their table
    status,   \* status of each row, the last it had when it is not in its table
    note,     \* its other column, likewise
    ref,      \* a finding's run_id; the line in the context of a friction feedback
    archive,  \* archive_entries
    copies,   \* entries made of each row so far
    aged,     \* rows up to this number are older than a session
    verbs,    \* editing verbs so far
    runs,     \* restores, collections and sweeps of one table so far
    crashes,  \* sweeps that died so far
    op        \* what each process holds between two of its statements

vars == <<table, live, status, note, ref, archive, copies, aged, verbs, runs, crashes, op>>
rows == <<table, live, status, note, ref, aged>>
counters == <<verbs, runs, crashes>>

\* payload_json holds the row; row and copy tell the entries apart.
Entry == [row : Row, copy : 1..MaxCopy, status : Status, note : Note]
Payload == [row : Row, status : Status, note : Note]

-----------------------------------------------------------------------------
(* What a process holds.  A sweep: the tables it counted rows in and has   *)
(* still to move, and its cutoff.  A restore: the entries it selected and  *)
(* has not tried yet, those it inserted, and --keep-archive.  A            *)
(* collection: the open feedback and the findings on missing files, each   *)
(* as read, then the rows of one table as read, and the row whose entry is *)
(* the archive while the row is still in its table.  A friction scan: the  *)
(* marked lines that no feedback in the table was made of.                 *)

Idle == [verb |-> "idle"]
Sweep == [verb : {"sweep"}, todo : SUBSET AnyTable, cutoff : 0..MaxRow]
Restore == [verb : {"restore"}, todo : SUBSET Entry, inserted : SUBSET Entry, keep : BOOLEAN]
Collection ==
    [verb : {"gc"}, stage : {"read", "update", "reminders", "tasks"}, cutoff : 0..MaxRow,
     feedback : SUBSET Row, findings : SUBSET Row,
     todo : SUBSET Payload, held : {0} \cup Row]

Friction == [verb : {"friction"}, todo : SUBSET Line]

TypeOK ==
    /\ table \in [Row -> Table \cup {NoTable}]
    /\ live \in SUBSET Row
    /\ status \in [Row -> Status]
    /\ note \in [Row -> Note]
    /\ ref \in [Row -> {NoRef} \cup Row \cup Line]
    /\ archive \in SUBSET Entry
    /\ copies \in [Row -> 0..MaxCopy]
    /\ aged \in 0..MaxRow
    /\ verbs \in Nat
    /\ runs \in 0..MaxRuns
    /\ crashes \in 0..MaxCrashes
    /\ op \in [Process -> {Idle} \cup Sweep \cup Restore \cup Collection \cup Friction]

Init ==
    /\ table = [r \in Row |-> NoTable]
    /\ live = {}
    /\ status = [r \in Row |-> "open"]
    /\ note = [r \in Row |-> "none"]
    /\ ref = [r \in Row |-> NoRef]
    /\ archive = {}
    /\ copies = [r \in Row |-> 0]
    /\ aged = 0
    /\ verbs = 0
    /\ runs = 0
    /\ crashes = 0
    /\ op = [w \in Process |-> Idle]

Used == {r \in Row : table[r] # NoTable}
In(t) == {r \in live : table[r] = t}

Spend(t) == verbs < MaxVerbs[t] /\ verbs' = verbs + 1 /\ UNCHANGED <<runs, crashes>>
Launch == runs < MaxRuns /\ runs' = runs + 1 /\ UNCHANGED <<verbs, crashes>>

-----------------------------------------------------------------------------
(* Verbs on one row.  An UPDATE of a row that has gone to the archive      *)
(* since its id was resolved changes nothing, and the verb reports success.*)

\* INSERT with the next created_at.
NewRow(t, st, nt, of) ==
    /\ t \in Table
    /\ \E r \in Row :
        /\ table[r] = NoTable
        /\ \A s \in 1..(r - 1) : table[s] # NoTable
        /\ table' = [table EXCEPT ![r] = t]
        /\ live' = live \cup {r}
        /\ status' = [status EXCEPT ![r] = st]
        /\ note' = [note EXCEPT ![r] = nt]
        /\ ref' = [ref EXCEPT ![r] = of]
    /\ UNCHANGED <<archive, copies, aged>>

Insert(t, st, nt, of) == Spend(t) /\ NewRow(t, st, nt, of)

Update(r, st, nt) ==
    /\ Spend(table[r])
    /\ status' = [status EXCEPT ![r] = st]
    /\ note' = [note EXCEPT ![r] = nt]
    /\ UNCHANGED <<table, live, ref, archive, copies, aged>>

GoalAdd == Insert("goals", "open", "none", NoRef)
GoalSetStatus(r, st) == r \in In("goals") /\ st \in TaskStatus /\ Update(r, st, note[r])

FeatureAdd == Insert("features", "open", "none", NoRef)

TaskAdd == Insert("tasks", "open", "none", NoRef)
TaskSetStatus(r, st) == r \in In("tasks") /\ st \in TaskStatus /\ Update(r, st, note[r])

\* approval_log is written in the same transaction; no verb reads it for a decision.
LogAction(r, st) == r \in In("tasks") /\ Update(r, status[r], st)

\* Nothing keeps a dismissed reminder from being snoozed.
ReminderAdd == Insert("reminders", "open", "none", NoRef)
Dismiss(r) == r \in In("reminders") /\ Update(r, "dismissed", note[r])
Snooze(r) == r \in In("reminders") /\ Update(r, status[r], "given")
Unsnooze(r) == r \in In("reminders") /\ Update(r, status[r], "none")

\* A markdown import inserts its sections one by one, with the status each names.
FeedbackAdd == Insert("feedback", "open", "none", NoRef)
ImportMarkdownText == \E st \in FeedbackStatus : Insert("feedback", st, "none", NoRef)
Annotate(r) == r \in In("feedback") /\ Update(r, status[r], "given")
CloseFeedback(r) == r \in In("feedback") /\ \E nt \in {"none", "given"} : Update(r, "closed", nt)

StartRun == Insert("runs", "open", "none", NoRef)
AddFinding(of) == of \in In("runs") /\ Insert("findings", "open", "none", of)
FinishRun(r) == r \in In("runs") /\ Update(r, "finished", note[r])
ResolveFinding(r) ==
    r \in In("findings") /\ \E st \in FindingStatus : Update(r, st, note[r])

-----------------------------------------------------------------------------
(* The commands: each opens the ledger, calls one of the above and prints. *)

CmdGoalAdd == GoalAdd
CmdGoalSet(r) == \E st \in TaskStatus : GoalSetStatus(r, st)
CmdFeatureAdd == FeatureAdd
CmdTaskAdd == TaskAdd
CmdTaskDone(r) == TaskSetStatus(r, "done")
CmdTaskStatus(r) == \E st \in TaskStatus : TaskSetStatus(r, st)
CmdApprovalRequest(r) == LogAction(r, "pending")
CmdApprovalApprove(r) == LogAction(r, "decided")
CmdApprovalReject(r) == LogAction(r, "decided")
CmdApprovalWithdraw(r) == LogAction(r, "none")
CmdReminderAdd == ReminderAdd
CmdReminderDismiss(r) == Dismiss(r)
CmdReminderSnooze(r) == Snooze(r)
CmdReminderUnsnooze(r) == Unsnooze(r)
CmdFeedbackAdd == FeedbackAdd
CmdFeedbackImportMarkdown == ImportMarkdownText
CmdFeedbackAnnotate(r) == Annotate(r)
CmdFeedbackClose(r) == CloseFeedback(r)

Unseen == {l \in Line : \A r \in In("feedback") : ref[r] # l}

FrictionRead(w) ==
    /\ op[w] = Idle
    /\ Unseen # {}
    /\ Spend("feedback")
    /\ op' = [op EXCEPT ![w] = [verb |-> "friction", todo |-> Unseen]]
    /\ UNCHANGED <<table, live, status, note, ref, archive, copies, aged>>

\* One feedback.Add after the other.
FrictionAdd(w) ==
    /\ op[w].verb = "friction"
    /\ \E l \in op[w].todo :
        /\ NewRow("feedback", "open", "none", l)
        /\ UNCHANGED counters
        /\ op' = [op EXCEPT ![w] =
               IF op[w].todo = {l} THEN Idle ELSE [op[w] EXCEPT !.todo = @ \ {l}]]

ScanFriction(w) == FrictionRead(w) \/ FrictionAdd(w)

Edit ==
    /\ UNCHANGED op
    /\ \/ CmdGoalAdd \/ CmdFeatureAdd \/ CmdTaskAdd \/ CmdReminderAdd
       \/ CmdFeedbackAdd \/ CmdFeedbackImportMarkdown \/ StartRun
       \/ \E r \in live :
           \/ CmdGoalSet(r) \/ CmdTaskDone(r) \/ CmdTaskStatus(r)
           \/ CmdApprovalRequest(r) \/ CmdApprovalApprove(r)
           \/ CmdApprovalReject(r) \/ CmdApprovalWithdraw(r)
           \/ CmdReminderDismiss(r) \/ CmdReminderSnooze(r) \/ CmdReminderUnsnooze(r)
           \/ CmdFeedbackAnnotate(r) \/ CmdFeedbackClose(r)
           \/ AddFinding(r) \/ FinishRun(r) \/ ResolveFinding(r)

\* Time passes.
Age ==
    /\ aged < MaxRow
    /\ table[aged + 1] # NoTable
    /\ aged' = aged + 1
    /\ UNCHANGED <<table, live, status, note, ref, archive, copies, counters, op>>

-----------------------------------------------------------------------------
(* archive run.  A Mutated... operator is no part of the model: it is a    *)
(* defect the code could have in the operator after it.                    *)

OpenFindings(of) == {f \in In("findings") : ref[f] = of /\ status[f] = "open"}

\* The where clause of each table.
Due(t, cutoff) ==
    CASE t = "goals"     -> {}
      [] t = "feedback"  -> {r \in In(t) : status[r] = "closed" /\ r <= cutoff}
      [] t = "findings"  -> {r \in In(t) : status[r] = "retired"}
      [] t = "runs"      -> {r \in In(t) : status[r] = "finished" /\ OpenFindings(r) = {}}
      [] t = "features"  -> In(t)
      [] t = "reminders" -> {r \in In(t) : status[r] = "dismissed" /\ r <= cutoff}
      [] t = "tasks"     -> {r \in In(t) : status[r] = "done" /\ r <= cutoff}

\* Defect: runs go before their findings.
MutatedFirst(todo) ==
    CHOOSE t \in todo :
        IF "runs" \in todo THEN t = "runs"
        ELSE IF "feedback" \in todo THEN t = "feedback"
        ELSE IF "findings" \in todo THEN t = "findings"
        ELSE IF "features" \in todo THEN t = "features"
        ELSE IF "reminders" \in todo THEN t = "reminders" ELSE t = "tasks"

\* The order of the tables; status_log and plan_items come before reminders.
Place == [goals |-> 0, feedback |-> 1, findings |-> 2, runs |-> 3, features |-> 4, reminders |-> 5, tasks |-> 6]

First(todo) == CHOOSE t \in todo : \A u \in todo : Place[t] <= Place[u]

CopyOf(r, st, nt) == [row |-> r, copy |-> copies[r] + 1, status |-> st, note |-> nt]

\* Counts the rows of every table, or of the one given with --table, and returns early
\* when there are none.
CountRows(w, some) ==
    /\ op[w] = Idle
    /\ \E t \in some : Due(t, aged) # {}
    /\ op' = [op EXCEPT ![w] =
           [verb |-> "sweep", cutoff |-> aged, todo |-> {t \in some : Due(t, aged) # {}}]]
    /\ UNCHANGED <<table, live, status, note, ref, archive, copies, aged>>

SweepAll(w) == CountRows(w, Table) /\ UNCHANGED counters
SweepTable(w) == Launch /\ \E t \in Table : CountRows(w, {t})

\* Some finding still refers to one of the runs: the DELETE breaks the foreign key.
Referenced(t, some) ==
    t = "runs" /\ \E f \in In("findings") : ref[f] \in some

\* Defect: the entries are made of what a retired row usually looks like.
MutatedMoved(some) == {CopyOf(r, "closed", "none") : r \in some}

Moved(some) == {CopyOf(r, status[r], note[r]) : r \in some}

\* One table in one transaction: SELECT, an entry for each row, DELETE by id.
ArchiveTable(w) ==
    /\ op[w].verb = "sweep"
    /\ LET t == First(op[w].todo)
           some == Due(t, op[w].cutoff)
           rest == op[w].todo \ {t}
       IN  /\ ~ Referenced(t, some)
           /\ \A r \in some : copies[r] < MaxCopy
           /\ archive' = archive \cup Moved(some)
           /\ copies' = [r \in Row |-> IF r \in some THEN copies[r] + 1 ELSE copies[r]]
           /\ live' = live \ some
           /\ op' = [op EXCEPT ![w] = IF rest = {} THEN Idle ELSE [@ EXCEPT !.todo = rest]]
    /\ UNCHANGED <<table, status, note, ref, aged, counters>>

\* The transaction rolls back and the sweep returns, leaving the later tables.
ArchiveTableFails(w) ==
    /\ op[w].verb = "sweep"
    /\ Referenced(First(op[w].todo), Due(First(op[w].todo), op[w].cutoff))
    /\ op' = [op EXCEPT ![w] = Idle]
    /\ UNCHANGED <<table, live, status, note, ref, archive, copies, aged, counters>>

-----------------------------------------------------------------------------
(* archive restore.                                                        *)

\* By --id, --source-id, --table, or --since the first entry.
Selection ==
    ({{e} : e \in archive} \cup {{e \in archive : e.row = r} : r \in Row}
     \cup {{e \in archive : table[e.row] = t} : t \in Table} \cup {archive}) \ {{}}

Select(w) ==
    /\ op[w] = Idle
    /\ Launch
    /\ \E some \in Selection, keep \in BOOLEAN :
        op' = [op EXCEPT ![w] =
                  [verb |-> "restore", todo |-> some, inserted |-> {}, keep |-> keep]]
    /\ UNCHANGED <<table, live, status, note, ref, archive, copies, aged>>

\* Runs come before findings and after everything the order does not name.
Turn(e) == IF table[e.row] = "findings" THEN 3 ELSE IF table[e.row] = "runs" THEN 1 ELSE 0

NextEntry(w, e) ==
    /\ op[w].verb = "restore"
    /\ e \in op[w].todo
    /\ \A d \in op[w].todo : Turn(e) <= Turn(d)

\* A finding whose run is not there breaks the foreign key, which OR IGNORE lets stand.
Insertable(r) == table[r] = "findings" => ref[r] \in live

\* Defect: the columns of the payload are taken in another order.
MutatedRestoreRow(w, e) ==
    /\ NextEntry(w, e)
    /\ e.row \notin live
    /\ Insertable(e.row)
    /\ live' = live \cup {e.row}
    /\ status' = [status EXCEPT ![e.row] = e.note]
    /\ note' = [note EXCEPT ![e.row] = e.status]
    /\ op' = [op EXCEPT ![w].todo = @ \ {e}, ![w].inserted = @ \cup {e}]
    /\ UNCHANGED <<table, ref, archive, copies, aged, counters>>

RestoreRow(w, e) ==
    /\ NextEntry(w, e)
    /\ e.row \notin live
    /\ Insertable(e.row)
    /\ live' = live \cup {e.row}
    /\ status' = [status EXCEPT ![e.row] = e.status]
    /\ note' = [note EXCEPT ![e.row] = e.note]
    /\ op' = [op EXCEPT ![w].todo = @ \ {e}, ![w].inserted = @ \cup {e}]
    /\ UNCHANGED <<table, ref, archive, copies, aged, counters>>

\* INSERT OR IGNORE of a row that is there.
RestoreSkip(w, e) ==
    /\ NextEntry(w, e)
    /\ e.row \in live
    /\ op' = [op EXCEPT ![w].todo = @ \ {e}]
    /\ UNCHANGED <<table, live, status, note, ref, archive, copies, aged, counters>>

\* The error returns before the entries of the rows already inserted are deleted.
RestoreFails(w, e) ==
    /\ NextEntry(w, e)
    /\ e.row \notin live
    /\ ~ Insertable(e.row)
    /\ op' = [op EXCEPT ![w] = Idle]
    /\ UNCHANGED <<table, live, status, note, ref, archive, copies, aged, counters>>

\* Defect: the entries are deleted by source_id.
MutatedDeleteEntries(w) ==
    /\ op[w].verb = "restore"
    /\ op[w].todo = {}
    /\ archive' = IF op[w].keep THEN archive
                  ELSE {e \in archive : \A d \in op[w].inserted : e.row # d.row}
    /\ op' = [op EXCEPT ![w] = Idle]
    /\ UNCHANGED <<table, live, status, note, ref, copies, aged, counters>>

DeleteEntries(w) ==
    /\ op[w].verb = "restore"
    /\ op[w].todo = {}
    /\ archive' = IF op[w].keep THEN archive ELSE archive \ op[w].inserted
    /\ op' = [op EXCEPT ![w] = Idle]
    /\ UNCHANGED <<table, live, status, note, ref, copies, aged, counters>>

-----------------------------------------------------------------------------
(* archive gc.  Which findings are on files repo_files does not have is    *)
(* left open.                                                              *)

ReadFeedback(w) ==
    /\ op[w] = Idle
    /\ Launch
    /\ \E cutoff \in 0..aged :
        op' = [op EXCEPT ![w] =
                  [verb |-> "gc", stage |-> "read", cutoff |-> cutoff, todo |-> {}, held |-> 0,
                   feedback |-> {r \in In("feedback") : status[r] = "open" /\ r <= cutoff},
                   findings |-> {}]]
    /\ UNCHANGED <<table, live, status, note, ref, archive, copies, aged>>

ReadFindings(w) ==
    /\ op[w].verb = "gc"
    /\ op[w].stage = "read"
    /\ \E missing \in SUBSET {r \in In("findings") : status[r] = "open"} :
        op' = [op EXCEPT ![w].stage = "update", ![w].findings = missing]
    /\ UNCHANGED <<table, live, status, note, ref, archive, copies, aged, counters>>

\* UPDATE by id, oldest first: whatever the row is by now, its proposed fix stays.
GCClose(w, r) ==
    /\ op[w].verb = "gc"
    /\ op[w].stage = "update"
    /\ r \in op[w].feedback
    /\ \A s \in op[w].feedback : r <= s
    /\ op' = [op EXCEPT ![w].feedback = @ \ {r}]
    /\ status' = IF r \in live THEN [status EXCEPT ![r] = "closed"] ELSE status
    /\ note' = IF r \in live /\ note[r] = "none" THEN [note EXCEPT ![r] = "given"] ELSE note
    /\ UNCHANGED <<table, live, ref, archive, copies, aged, counters>>

GCWontfix(w, r) ==
    /\ op[w].verb = "gc"
    /\ op[w].feedback = {}
    /\ r \in op[w].findings
    /\ op' = [op EXCEPT ![w].findings = @ \ {r}]
    /\ status' = IF r \in live THEN [status EXCEPT ![r] = "retired"] ELSE status
    /\ UNCHANGED <<table, live, note, ref, archive, copies, aged, counters>>

Finished(w) ==
    op[w].feedback = {} /\ op[w].findings = {} /\ op[w].todo = {} /\ op[w].held = 0

\* The next table as read in one SELECT, after the updates or the table before it.
ReadTable(w, stage, next) ==
    /\ op[w].verb = "gc"
    /\ op[w].stage = stage
    /\ Finished(w)
    /\ op' = [op EXCEPT ![w].stage = next,
                        ![w].todo = {[row |-> r, status |-> status[r], note |-> note[r]] :
                                        r \in Due(next, op[w].cutoff)}]
    /\ UNCHANGED <<table, live, status, note, ref, archive, copies, aged, counters>>

\* Defect: no second entry for a row that has one.
MutatedGCInsert(w, p) ==
    /\ op[w].verb = "gc"
    /\ p \in op[w].todo
    /\ op[w].held = 0
    /\ \A q \in op[w].todo : p.row <= q.row
    /\ archive' = archive \cup
           (IF \E e \in archive : e.row = p.row THEN {} ELSE {CopyOf(p.row, p.status, p.note)})
    /\ copies' = [copies EXCEPT ![p.row] = @ + 1]
    /\ op' = [op EXCEPT ![w].todo = @ \ {p}, ![w].held = p.row]
    /\ UNCHANGED rows
    /\ UNCHANGED counters

\* archiveRow, first statement: an entry of the row as it was read.
GCInsert(w, p) ==
    /\ op[w].verb = "gc"
    /\ p \in op[w].todo
    /\ op[w].held = 0
    /\ \A q \in op[w].todo : p.row <= q.row
    /\ copies[p.row] < MaxCopy
    /\ archive' = archive \cup {CopyOf(p.row, p.status, p.note)}
    /\ copies' = [copies EXCEPT ![p.row] = @ + 1]
    /\ op' = [op EXCEPT ![w].todo = @ \ {p}, ![w].held = p.row]
    /\ UNCHANGED rows
    /\ UNCHANGED counters

\* Second statement: DELETE by id.
GCDelete(w) ==
    /\ op[w].verb = "gc"
    /\ op[w].held # 0
    /\ live' = live \ {op[w].held}
    /\ op' = [op EXCEPT ![w].held = 0]
    /\ UNCHANGED <<table, status, note, ref, archive, copies, aged, counters>>

GCEnd(w) ==
    /\ op[w].verb = "gc"
    /\ op[w].stage = "tasks"
    /\ Finished(w)
    /\ op' = [op EXCEPT ![w] = Idle]
    /\ UNCHANGED <<table, live, status, note, ref, archive, copies, aged, counters>>

\* The process is killed, or a statement fails and the verb returns.
Die(w) ==
    /\ op[w] # Idle
    /\ w \in Sweeper => crashes < MaxCrashes
    /\ crashes' = IF w \in Sweeper THEN crashes + 1 ELSE crashes
    /\ op' = [op EXCEPT ![w] = Idle]
    /\ UNCHANGED <<table, live, status, note, ref, archive, copies, aged, verbs, runs>>

-----------------------------------------------------------------------------
RunHousekeeping(w) == SweepAll(w) \/ ArchiveTable(w) \/ ArchiveTableFails(w)
CmdArchiveRun(w) == RunHousekeeping(w) \/ SweepTable(w)

CmdArchiveRestore(w) ==
    \/ Select(w) \/ DeleteEntries(w)
    \/ /\ op[w].verb = "restore"
       /\ \E e \in op[w].todo : RestoreRow(w, e) \/ RestoreSkip(w, e) \/ RestoreFails(w, e)

CmdArchiveGC(w) ==
    \/ ReadFeedback(w) \/ ReadFindings(w) \/ GCDelete(w) \/ GCEnd(w)
    \/ \E r \in Row : GCClose(w, r) \/ GCWontfix(w, r)
    \/ ReadTable(w, "update", "reminders") \/ ReadTable(w, "reminders", "tasks")
    \/ op[w].verb = "gc" /\ \E p \in op[w].todo : GCInsert(w, p)

Next ==
    \/ Edit \/ Age
    \/ \E w \in Sweeper : CmdArchiveRun(w)
    \/ \E w \in Restorer : CmdArchiveRestore(w)
    \/ \E w \in Collector : CmdArchiveGC(w)
    \/ \E w \in Scanner : ScanFriction(w)
    \/ \E w \in Process : Die(w)

Spec == Init /\ [][Next]_vars

\* Time passes, and cron starts ledger housekeeping again and again, whose first step
\* is an archive run; nobody has to use the ledger, restore, collect or crash.
CronSpec == Spec /\ WF_vars(Age) /\ \A w \in Sweeper : WF_vars(RunHousekeeping(w))
-----------------------------------------------------------------------------
(* Properties.                                                             *)

\* Where each row is; a row is in the archive when an entry of it is and the table
\* does not have it.
Where ==
    [r \in Row |->
        IF r \in live THEN "table"
        ELSE IF \E e \in archive : e.row = r THEN "archive" ELSE "nowhere"]

\* A row that was ever inserted is in its table or in the archive, however many
\* sweeps, restores and collections work on it at once, die between two statements
\* or fail in the middle (archive/service.go: Run, Restore, GC).
NothingLost == \A r \in Used : r \in live \/ \E e \in archive : e.row = r

\* What a retired row held last can be had back from the archive: the sweep copies
\* and deletes in one transaction.  Reminders and tasks are left out, because gc
\* archives those from an earlier read.
LatestCopyKept ==
    \A r \in Used :
        table[r] \notin {"reminders", "tasks"} /\ r \notin live =>
            \E e \in archive : e.row = r /\ e.status = status[r] /\ e.note = note[r]

\* The archive keeps the promise of Vault: a row moves between its table and the
\* archive and never gets lost or comes from nowhere twice.
V == INSTANCE Vault WITH Thing <- Row, where <- Where
ImplementsVault == V!Spec

\* A finished run without an open finding has one with an unlisted status: every
\* sweep fails at review_runs and never reaches the tables after it.
Blocked ==
    \E f \in In("findings") :
        /\ status[f] = "fixed"
        /\ ref[f] \in Due("runs", aged)

\* Repeated sweeps empty every table of what is due, unless a finding with an
\* unlisted status blocks them, whatever was restored, collected or left half done
\* before people stopped working on the ledger.
ArchiveDrains == <>[](Blocked \/ \A t \in Table : Due(t, aged) = {})
=============================================================================
