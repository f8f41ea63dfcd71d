---------------------------- MODULE RecordsProofs ----------------------------
(***************************************************************************)
(* Theorems about Records, for any number of rows and processes and any    *)
(* bounds: types, that no row is lost, that the archive has what a retired *)
(* row held last, and that Records implements Vault.                       *)
(***************************************************************************)
EXTENDS Records, FiniteSetTheorems, TLAPS

(***************************************************************************)
(* What processes hold.                                                    *)
(***************************************************************************)
Holding == {Idle} \cup Sweep \cup Restore \cup Collection \cup Friction

Ops == op \in [Process -> Holding]

\* A process now holds x, the others what they held.
Put(w, x) ==
    /\ op' \in [Process -> Holding]
    /\ op'[w] = x
    /\ \A v \in Process \ {w} : op'[v] = op[v]

LEMMA PutHolding ==
    ASSUME Ops, NEW w \in Process, NEW x \in Holding, op' = [op EXCEPT ![w] = x]
    PROVE  Put(w, x)
BY DEF Ops, Put

\* The verb tells the kinds apart.
LEMMA Kinds ==
    ASSUME NEW x \in Holding
    PROVE  /\ x.verb = "sweep" <=> x \in Sweep
           /\ x.verb = "restore" <=> x \in Restore
           /\ x.verb = "gc" <=> x \in Collection
           /\ x.verb = "friction" <=> x \in Friction
           /\ x = Idle => x.verb = "idle"
BY DEF Holding, Idle, Sweep, Restore, Collection, Friction

LEMMA ProcessKinds == Sweeper \cup Restorer \cup Collector \cup Scanner = Process
BY DEF Process

\* A process returns.
LEMMA ReturnPut ==
    ASSUME Ops, NEW w \in Process, op' = [op EXCEPT ![w] = Idle]
    PROVE  Put(w, Idle)
BY PutHolding DEF Holding

(***************************************************************************)
(* The order of the tables.                                                *)
(***************************************************************************)
LEMMA FirstFact ==
    ASSUME NEW todo \in SUBSET AnyTable, todo # {}
    PROVE  First(todo) \in todo
<1>1. \E t \in todo : \A u \in todo : Place[t] <= Place[u]
  <2>1. /\ Place["goals"] = 0 /\ Place["feedback"] = 1 /\ Place["findings"] = 2
        /\ Place["runs"] = 3 /\ Place["features"] = 4 /\ Place["reminders"] = 5
        /\ Place["tasks"] = 6
    BY DEF Place
  <2> HIDE DEF Place
  <2>2. CASE "goals" \in todo
    BY <2>1, <2>2 DEF AnyTable
  <2>3. CASE "goals" \notin todo /\ "feedback" \in todo
    BY <2>1, <2>3 DEF AnyTable
  <2>4. CASE {"goals", "feedback"} \cap todo = {} /\ "findings" \in todo
    BY <2>1, <2>4 DEF AnyTable
  <2>5. CASE {"goals", "feedback", "findings"} \cap todo = {} /\ "runs" \in todo
    BY <2>1, <2>5 DEF AnyTable
  <2>6. CASE {"goals", "feedback", "findings", "runs"} \cap todo = {} /\ "features" \in todo
    BY <2>1, <2>6 DEF AnyTable
  <2>7. CASE /\ {"goals", "feedback", "findings", "runs", "features"} \cap todo = {}
             /\ "reminders" \in todo
    BY <2>1, <2>7 DEF AnyTable
  <2>8. CASE {"goals", "feedback", "findings", "runs", "features", "reminders"} \cap todo = {}
    <3>1. todo = {"tasks"}
      BY <2>8 DEF AnyTable
    <3> QED BY <2>1, <3>1
  <2> QED BY <2>2, <2>3, <2>4, <2>5, <2>6, <2>7, <2>8
<1> QED BY <1>1 DEF First

LEMMA DueIn ==
    ASSUME NEW t \in AnyTable, NEW cutoff
    PROVE  Due(t, cutoff) \subseteq In(t)
BY DEF Due, AnyTable

LEMMA DueLive ==
    ASSUME NEW t \in AnyTable, NEW cutoff
    PROVE  Due(t, cutoff) \subseteq live /\ \A r \in Due(t, cutoff) : table[r] = t
BY DueIn DEF In

(***************************************************************************)
(* What the editing verbs do.                                              *)
(***************************************************************************)

\* A row is inserted.
Adds ==
    /\ \E r \in Row, t \in Table :
        /\ table[r] = NoTable
        /\ table' = [table EXCEPT ![r] = t]
        /\ live' = live \cup {r}
        /\ \A q \in Row \ {r} : status'[q] = status[q] /\ note'[q] = note[q]
    /\ UNCHANGED <<archive, copies>>

\* Rows in their table change; the others keep what they had.
Touches ==
    /\ \A q \in Row \ live : status'[q] = status[q] /\ note'[q] = note[q]
    /\ UNCHANGED <<table, live, archive, copies>>

Columns == status' \in [Row -> Status] /\ note' \in [Row -> Note] /\ UNCHANGED aged

LEMMA NewRowEffect ==
    ASSUME TypeOK, NEW t, NEW st \in Status, NEW nt \in Note, NEW of \in {NoRef} \cup Row \cup Line,
           NewRow(t, st, nt, of)
    PROVE  Adds /\ Columns /\ ref' \in [Row -> {NoRef} \cup Row \cup Line]
           /\ table' \in [Row -> Table \cup {NoTable}] /\ live' \in SUBSET Row
<1>1. PICK r \in Row :
          /\ t \in Table
          /\ table[r] = NoTable
          /\ table' = [table EXCEPT ![r] = t]
          /\ live' = live \cup {r}
          /\ status' = [status EXCEPT ![r] = st]
          /\ note' = [note EXCEPT ![r] = nt]
          /\ ref' = [ref EXCEPT ![r] = of]
          /\ UNCHANGED <<archive, copies, aged>>
  BY DEF NewRow
<1>2. Adds
  BY <1>1 DEF Adds, TypeOK
<1> QED BY <1>1, <1>2 DEF Columns, TypeOK

LEMMA UpdateEffect ==
    ASSUME TypeOK, NEW r \in live, NEW st \in Status, NEW nt \in Note, Update(r, st, nt)
    PROVE  Touches /\ Columns /\ UNCHANGED ref /\ Spend(table[r])
BY DEF Update, Touches, Columns, TypeOK

LEMMA SpendType ==
    ASSUME TypeOK, NEW t, Spend(t)
    PROVE  verbs' \in Nat /\ runs' \in 0..MaxRuns /\ crashes' \in 0..MaxCrashes
BY DEF Spend, TypeOK

LEMMA InsertEffect ==
    ASSUME TypeOK, NEW t, NEW st \in Status, NEW nt \in Note, NEW of \in {NoRef} \cup Row \cup Line,
           Insert(t, st, nt, of)
    PROVE  /\ Adds /\ Columns /\ ref' \in [Row -> {NoRef} \cup Row \cup Line]
           /\ table' \in [Row -> Table \cup {NoTable}] /\ live' \in SUBSET Row
           /\ verbs' \in Nat /\ runs' \in 0..MaxRuns /\ crashes' \in 0..MaxCrashes
BY NewRowEffect, SpendType DEF Insert

StatusSets == TaskStatus \cup ReminderStatus \cup FeedbackStatus \cup FindingStatus \cup RunStatus

LEMMA StatusFacts ==
    /\ \A st \in TaskStatus \cup FeedbackStatus \cup FindingStatus : st \in Status
    /\ "open" \in Status /\ "dismissed" \in Status /\ "finished" \in Status /\ "closed" \in Status
    /\ "done" \in Status /\ "retired" \in Status
    /\ {"none", "given", "pending", "decided"} = Note
BY DEF Status, TaskStatus, ReminderStatus, FeedbackStatus, FindingStatus, RunStatus, Note

Edited ==
    /\ Adds \/ Touches
    /\ Columns
    /\ ref' \in [Row -> {NoRef} \cup Row \cup Line]
    /\ table' \in [Row -> Table \cup {NoTable}] /\ live' \in SUBSET Row
    /\ verbs' \in Nat /\ runs' \in 0..MaxRuns /\ crashes' \in 0..MaxCrashes

LEMMA EditEffect == ASSUME TypeOK, Edit PROVE Edited /\ UNCHANGED op
<1>0. SUFFICES Edited
  BY DEF Edit
<1>1. ASSUME NEW t, NEW st \in Status, NEW nt \in Note, NEW of \in {NoRef} \cup Row \cup Line,
             Insert(t, st, nt, of)
      PROVE  Edited
  BY <1>1, InsertEffect DEF Edited
<1>2. ASSUME NEW r \in live, NEW st \in Status, NEW nt \in Note, Update(r, st, nt)
      PROVE  Edited
  BY <1>2, UpdateEffect, SpendType DEF Edited, TypeOK, Touches
<1>3. \A r \in live : status[r] \in Status /\ note[r] \in Note /\ r \in Row
  BY DEF TypeOK
<1>4. CASE \/ CmdGoalAdd \/ CmdFeatureAdd \/ CmdTaskAdd \/ CmdReminderAdd
           \/ CmdFeedbackAdd \/ CmdFeedbackImportMarkdown \/ StartRun
  <2>1. \E t \in AnyTable, st \in Status : Insert(t, st, "none", NoRef)
    BY <1>4, StatusFacts
       DEF CmdGoalAdd, GoalAdd, CmdFeatureAdd, FeatureAdd, CmdTaskAdd, TaskAdd, CmdReminderAdd,
           ReminderAdd, CmdFeedbackAdd, FeedbackAdd, CmdFeedbackImportMarkdown,
           ImportMarkdownText, StartRun, AnyTable
  <2>2. "none" \in Note /\ NoRef \in {NoRef} \cup Row \cup Line
    BY DEF Note
  <2>3. PICK t \in AnyTable, st \in Status : Insert(t, st, "none", NoRef)
    BY <2>1
  <2> QED BY <1>1, <2>2, <2>3
<1>5. ASSUME NEW r \in live,
             \/ CmdGoalSet(r) \/ CmdTaskDone(r) \/ CmdTaskStatus(r)
             \/ CmdApprovalRequest(r) \/ CmdApprovalApprove(r)
             \/ CmdApprovalReject(r) \/ CmdApprovalWithdraw(r)
      PROVE  Edited
  <2>1. "done" \in TaskStatus
    BY DEF TaskStatus
  <2> QED BY <1>2, <1>3, <1>5, <2>1, StatusFacts
       DEF CmdGoalSet, GoalSetStatus, CmdTaskDone, CmdTaskStatus, TaskSetStatus,
           CmdApprovalRequest, CmdApprovalApprove, CmdApprovalReject, CmdApprovalWithdraw, LogAction
<1>6. ASSUME NEW r \in live,
             \/ CmdReminderDismiss(r) \/ CmdReminderSnooze(r) \/ CmdReminderUnsnooze(r)
             \/ CmdFeedbackAnnotate(r) \/ CmdFeedbackClose(r)
             \/ FinishRun(r) \/ ResolveFinding(r)
      PROVE  Edited
  BY <1>2, <1>3, <1>6, StatusFacts
     DEF CmdReminderDismiss, Dismiss, CmdReminderSnooze, Snooze, CmdReminderUnsnooze, Unsnooze,
         CmdFeedbackAnnotate, Annotate, CmdFeedbackClose, CloseFeedback, FinishRun, ResolveFinding
<1>7. ASSUME NEW r \in live, AddFinding(r) PROVE Edited
  BY <1>1, <1>3, <1>7, StatusFacts DEF AddFinding
<1> QED BY <1>4, <1>5, <1>6, <1>7 DEF Edit

(***************************************************************************)
(* What the archive verbs do to what their process holds.                  *)
(***************************************************************************)
LEMMA CountRowsEffect ==
    ASSUME TypeOK, Ops, NEW w \in Process, NEW some \in SUBSET AnyTable, CountRows(w, some)
    PROVE  op[w] = Idle /\ \E x \in Sweep : Put(w, x) /\ x.todo # {}
<1> DEFINE x == [verb |-> "sweep", cutoff |-> aged, todo |-> {t \in some : Due(t, aged) # {}}]
<1>1. op[w] = Idle /\ op' = [op EXCEPT ![w] = x] /\ x \in Sweep /\ x.todo # {}
  BY DEF CountRows, Sweep, TypeOK
<1> HIDE DEF x
<1>2. Put(w, x)
  BY <1>1, PutHolding DEF Holding
<1> QED BY <1>1, <1>2

LEMMA SweepEffect ==
    ASSUME Ops, NEW w \in Process, op[w].verb = "sweep", op[w].todo # {}
    PROVE  /\ op[w] \in Sweep
           /\ First(op[w].todo) \in op[w].todo /\ First(op[w].todo) \in AnyTable
           /\ \A c : Due(First(op[w].todo), c) \subseteq live
<1>1. op[w] \in Sweep
  BY Kinds DEF Ops
<1>2. op[w].todo \in SUBSET AnyTable
  BY <1>1 DEF Sweep
<1>3. First(op[w].todo) \in op[w].todo
  BY <1>2, FirstFact
<1> QED BY <1>1, <1>2, <1>3, DueLive

LEMMA ArchiveTablePut ==
    ASSUME Ops, NEW w \in Process, op[w].todo # {}, ArchiveTable(w)
    PROVE  op[w] \in Sweep /\ \E x \in {Idle} \cup Sweep : Put(w, x) /\ (x # Idle => x.todo # {})
<1>1. op[w] \in Sweep
  BY SweepEffect DEF ArchiveTable
<1> DEFINE rest == op[w].todo \ {First(op[w].todo)}
           x == IF rest = {} THEN Idle ELSE [op[w] EXCEPT !.todo = rest]
<1>2. op' = [op EXCEPT ![w] = x]
  BY DEF ArchiveTable
<1>3. x \in {Idle} \cup Sweep /\ (x # Idle => x.todo # {})
  BY <1>1 DEF Sweep
<1> HIDE DEF x
<1>4. Put(w, x)
  BY <1>2, <1>3, PutHolding DEF Holding
<1> QED BY <1>1, <1>3, <1>4

LEMMA SelectEffect ==
    ASSUME TypeOK, Ops, NEW w \in Process, Select(w)
    PROVE  op[w] = Idle /\ \E x \in Restore : Put(w, x) /\ x.todo \subseteq archive /\ x.inserted = {}
<1>1. PICK some \in Selection, keep \in BOOLEAN :
          op' = [op EXCEPT ![w] =
                    [verb |-> "restore", todo |-> some, inserted |-> {}, keep |-> keep]]
  BY DEF Select
<1> DEFINE x == [verb |-> "restore", todo |-> some, inserted |-> {}, keep |-> keep]
<1>2. some \subseteq archive
  BY DEF Selection
<1>3. x \in Restore /\ x.todo = some /\ x.inserted = {}
  BY <1>2 DEF Restore, TypeOK
<1>4. op' = [op EXCEPT ![w] = x]
  BY <1>1
<1> HIDE DEF x
<1>5. Put(w, x)
  BY <1>3, <1>4, PutHolding DEF Holding
<1> QED BY <1>2, <1>3, <1>5 DEF Select

LEMMA RestoreRowEffect ==
    ASSUME Ops, NEW w \in Process, NEW e, RestoreRow(w, e)
    PROVE  /\ op[w] \in Restore /\ e \in op[w].todo /\ e \in Entry
           /\ \E x \in Restore : /\ Put(w, x)
                                 /\ x.todo = op[w].todo \ {e}
                                 /\ x.inserted = op[w].inserted \cup {e}
<1>1. op[w] \in Restore /\ e \in op[w].todo
  BY Kinds DEF Ops, RestoreRow, NextEntry
<1>2. e \in Entry
  BY <1>1 DEF Restore
<1> DEFINE x == [op[w] EXCEPT !.todo = @ \ {e}, !.inserted = @ \cup {e}]
<1>3. /\ x \in Restore /\ x.todo = op[w].todo \ {e} /\ x.inserted = op[w].inserted \cup {e}
  BY <1>1, <1>2 DEF Restore
<1>4. op' = [op EXCEPT ![w].todo = @ \ {e}, ![w].inserted = @ \cup {e}]
  BY DEF RestoreRow
<1>5. op' = [op EXCEPT ![w] = x]
  BY <1>4 DEF Ops
<1> HIDE DEF x
<1>6. Put(w, x)
  BY <1>3, <1>5, PutHolding DEF Holding
<1> QED BY <1>1, <1>2, <1>3, <1>6

LEMMA RestoreSkipEffect ==
    ASSUME Ops, NEW w \in Process, NEW e, RestoreSkip(w, e)
    PROVE  /\ op[w] \in Restore
           /\ \E x \in Restore : /\ Put(w, x)
                                 /\ x.todo = op[w].todo \ {e}
                                 /\ x.inserted = op[w].inserted
<1>1. op[w] \in Restore
  BY Kinds DEF Ops, RestoreSkip, NextEntry
<1> DEFINE x == [op[w] EXCEPT !.todo = @ \ {e}]
<1>3. x \in Restore /\ x.todo = op[w].todo \ {e} /\ x.inserted = op[w].inserted
  BY <1>1 DEF Restore
<1>5. op' = [op EXCEPT ![w] = x]
  BY DEF RestoreSkip
<1> HIDE DEF x
<1>6. Put(w, x)
  BY <1>3, <1>5, PutHolding DEF Holding
<1> QED BY <1>1, <1>3, <1>6

LEMMA GCKind ==
    ASSUME Ops, NEW w \in Process, op[w].verb = "gc"
    PROVE  op[w] \in Collection
BY Kinds DEF Ops

\* What one more statement of a collection leaves in its hands.
LEMMA ReadFeedbackEffect ==
    ASSUME TypeOK, Ops, NEW w \in Process, ReadFeedback(w)
    PROVE  op[w] = Idle /\ \E x \in Collection : Put(w, x) /\ x.todo = {} /\ x.held = 0
<1>1. PICK cutoff \in 0..aged :
          op' = [op EXCEPT ![w] =
                    [verb |-> "gc", stage |-> "read", cutoff |-> cutoff, todo |-> {}, held |-> 0,
                     feedback |-> {r \in In("feedback") : status[r] = "open" /\ r <= cutoff},
                     findings |-> {}]]
  BY DEF ReadFeedback
<1> DEFINE some == {r \in In("feedback") : status[r] = "open" /\ r <= cutoff}
<1>2. some \in SUBSET Row
  BY DEF In, TypeOK
<1> HIDE DEF some
<1> DEFINE x == [verb |-> "gc", stage |-> "read", cutoff |-> cutoff, todo |-> {}, held |-> 0,
                 feedback |-> some, findings |-> {}]
<1>3. cutoff \in 0..MaxRow
  BY RecordsAssumption DEF TypeOK
<1>4. x \in Collection /\ x.todo = {} /\ x.held = 0
  BY <1>2, <1>3 DEF Collection
<1>5. op' = [op EXCEPT ![w] = x]
  BY <1>1 DEF some
<1> HIDE DEF x
<1>6. Put(w, x)
  BY <1>4, <1>5, PutHolding DEF Holding
<1> QED BY <1>4, <1>6 DEF ReadFeedback

\* It goes on with the same rows of a table and the same row half archived.
Continues(w) ==
    \E x \in Collection : Put(w, x) /\ x.todo = op[w].todo /\ x.held = op[w].held

LEMMA ReadFindingsEffect ==
    ASSUME TypeOK, Ops, NEW w \in Process, ReadFindings(w)
    PROVE  op[w] \in Collection /\ Continues(w)
<1>1. op[w] \in Collection
  BY GCKind DEF ReadFindings
<1>2. PICK missing \in SUBSET {r \in In("findings") : status[r] = "open"} :
          op' = [op EXCEPT ![w].stage = "update", ![w].findings = missing]
  BY DEF ReadFindings
<1>3. missing \in SUBSET Row
  BY DEF In, TypeOK
<1> DEFINE x == [op[w] EXCEPT !.stage = "update", !.findings = missing]
<1>4. x \in Collection /\ x.todo = op[w].todo /\ x.held = op[w].held
  BY <1>1, <1>3 DEF Collection
<1>5. op' = [op EXCEPT ![w] = x]
  BY <1>2 DEF Ops
<1> HIDE DEF x
<1>6. Put(w, x)
  BY <1>4, <1>5, PutHolding DEF Holding
<1> QED BY <1>1, <1>4, <1>6 DEF Continues

LEMMA GCUpdateEffect ==
    ASSUME TypeOK, Ops, NEW w \in Process, NEW r \in Row, GCClose(w, r) \/ GCWontfix(w, r)
    PROVE  op[w] \in Collection /\ Continues(w) /\ Touches /\ Columns
<1>1. op[w] \in Collection
  BY GCKind DEF GCClose, GCWontfix
<1>2. CASE GCClose(w, r)
  <2> DEFINE x == [op[w] EXCEPT !.feedback = @ \ {r}]
  <2>1. x \in Collection /\ x.todo = op[w].todo /\ x.held = op[w].held
    BY <1>1 DEF Collection
  <2>2. op' = [op EXCEPT ![w] = x]
    BY <1>2 DEF GCClose
  <2> HIDE DEF x
  <2>3. Put(w, x)
    BY <2>1, <2>2, PutHolding DEF Holding
  <2>4. Touches /\ Columns
    BY <1>2, StatusFacts DEF GCClose, Touches, Columns, TypeOK
  <2> QED BY <1>1, <2>1, <2>3, <2>4 DEF Continues
<1>3. CASE GCWontfix(w, r)
  <2> DEFINE x == [op[w] EXCEPT !.findings = @ \ {r}]
  <2>1. x \in Collection /\ x.todo = op[w].todo /\ x.held = op[w].held
    BY <1>1 DEF Collection
  <2>2. op' = [op EXCEPT ![w] = x]
    BY <1>3 DEF GCWontfix
  <2> HIDE DEF x
  <2>3. Put(w, x)
    BY <2>1, <2>2, PutHolding DEF Holding
  <2>4. Touches /\ Columns
    BY <1>3, StatusFacts DEF GCWontfix, Touches, Columns, TypeOK
  <2> QED BY <1>1, <2>1, <2>3, <2>4 DEF Continues
<1> QED BY <1>2, <1>3

LEMMA ReadTableEffect ==
    ASSUME TypeOK, Ops, NEW w \in Process, NEW stage, NEW next \in {"reminders", "tasks"},
           ReadTable(w, stage, next)
    PROVE  /\ op[w] \in Collection
           /\ \E x \in Collection : /\ Put(w, x) /\ x.held = op[w].held
                                    /\ \A p \in x.todo : p.row \in live /\ table[p.row] = next
<1>1. op[w] \in Collection
  BY GCKind DEF ReadTable
<1> DEFINE some == {[row |-> r, status |-> status[r], note |-> note[r]] :
                        r \in Due(next, op[w].cutoff)}
           x == [op[w] EXCEPT !.stage = next, !.todo = some]
<1>2. next \in AnyTable
  BY DEF AnyTable
<1>3. \A r \in Due(next, op[w].cutoff) : r \in live /\ table[r] = next /\ r \in Row
  BY <1>2, DueLive DEF TypeOK
<1>4. some \in SUBSET Payload /\ \A p \in some : p.row \in live /\ table[p.row] = next
  BY <1>3 DEF Payload, TypeOK
<1>5. op' = [op EXCEPT ![w].stage = next, ![w].todo = some]
  BY DEF ReadTable
<1> HIDE DEF some
<1>6. x \in Collection /\ x.todo = some /\ x.held = op[w].held
  BY <1>1, <1>4 DEF Collection
<1>7. op' = [op EXCEPT ![w] = x]
  BY <1>5 DEF Ops
<1> HIDE DEF x
<1>8. Put(w, x)
  BY <1>6, <1>7, PutHolding DEF Holding
<1> QED BY <1>1, <1>4, <1>6, <1>8

LEMMA GCInsertEffect ==
    ASSUME Ops, NEW w \in Process, NEW p, GCInsert(w, p)
    PROVE  /\ op[w] \in Collection /\ p \in op[w].todo /\ p \in Payload /\ op[w].held = 0
           /\ \E x \in Collection : /\ Put(w, x)
                                    /\ x.todo = op[w].todo \ {p}
                                    /\ x.held = p.row
<1>1. op[w] \in Collection /\ p \in op[w].todo /\ op[w].held = 0
  BY GCKind DEF GCInsert
<1>2. p \in Payload
  BY <1>1 DEF Collection
<1> DEFINE x == [op[w] EXCEPT !.todo = @ \ {p}, !.held = p.row]
<1>3. x \in Collection /\ x.todo = op[w].todo \ {p} /\ x.held = p.row
  BY <1>1, <1>2 DEF Collection, Payload
<1>4. op' = [op EXCEPT ![w].todo = @ \ {p}, ![w].held = p.row]
  BY DEF GCInsert
<1>5. op' = [op EXCEPT ![w] = x]
  BY <1>4 DEF Ops
<1> HIDE DEF x
<1>6. Put(w, x)
  BY <1>3, <1>5, PutHolding DEF Holding
<1> QED BY <1>1, <1>2, <1>3, <1>6

LEMMA GCDeleteEffect ==
    ASSUME Ops, NEW w \in Process, GCDelete(w)
    PROVE  /\ op[w] \in Collection /\ op[w].held \in Row
           /\ \E x \in Collection : Put(w, x) /\ x.todo = op[w].todo /\ x.held = 0
<1>1. op[w] \in Collection /\ op[w].held # 0
  BY GCKind DEF GCDelete
<1> DEFINE x == [op[w] EXCEPT !.held = 0]
<1>2. x \in Collection /\ x.todo = op[w].todo /\ x.held = 0 /\ op[w].held \in Row
  BY <1>1 DEF Collection
<1>3. op' = [op EXCEPT ![w] = x]
  BY DEF GCDelete
<1> HIDE DEF x
<1>4. Put(w, x)
  BY <1>2, <1>3, PutHolding DEF Holding
<1> QED BY <1>1, <1>2, <1>4

LEMMA FrictionReadEffect ==
    ASSUME Ops, NEW w \in Process, FrictionRead(w)
    PROVE  op[w] = Idle /\ \E x \in Friction : Put(w, x)
<1> DEFINE x == [verb |-> "friction", todo |-> Unseen]
<1>0. Unseen \in SUBSET Line
  BY DEF Unseen
<1>1. x \in Friction /\ op' = [op EXCEPT ![w] = x]
  BY <1>0 DEF FrictionRead, Friction
<1> HIDE DEF x
<1>2. Put(w, x)
  BY <1>1, PutHolding DEF Holding
<1> QED BY <1>1, <1>2 DEF FrictionRead

LEMMA FrictionAddEffect ==
    ASSUME TypeOK, Ops, NEW w \in Process, FrictionAdd(w)
    PROVE  /\ op[w] \in Friction /\ \E x \in {Idle} \cup Friction : Put(w, x)
           /\ Adds /\ Columns /\ ref' \in [Row -> {NoRef} \cup Row \cup Line]
           /\ table' \in [Row -> Table \cup {NoTable}] /\ live' \in SUBSET Row
           /\ UNCHANGED counters
<1>1. PICK l \in op[w].todo :
          /\ NewRow("feedback", "open", "none", l)
          /\ UNCHANGED counters
          /\ op' = [op EXCEPT ![w] = IF op[w].todo = {l} THEN Idle ELSE [op[w] EXCEPT !.todo = @ \ {l}]]
  BY DEF FrictionAdd
<1>2. op[w] \in Friction
  BY Kinds DEF Ops, FrictionAdd
<1>3. l \in Line
  BY <1>2 DEF Friction
<1> DEFINE x == IF op[w].todo = {l} THEN Idle ELSE [op[w] EXCEPT !.todo = @ \ {l}]
<1>4. x \in {Idle} \cup Friction
  BY <1>2 DEF Friction
<1>5. op' = [op EXCEPT ![w] = x]
  BY <1>1
<1> HIDE DEF x
<1>6. Put(w, x)
  BY <1>4, <1>5, PutHolding DEF Holding
<1> QED BY <1>1, <1>2, <1>3, <1>4, <1>6, NewRowEffect, StatusFacts

\* The steps with which a process returns.
LEMMA EndEffect ==
    ASSUME Ops, NEW w \in Process,
           \/ ArchiveTableFails(w) \/ DeleteEntries(w) \/ GCEnd(w) \/ Die(w)
           \/ \E e : RestoreFails(w, e)
    PROVE  Put(w, Idle)
BY ReturnPut DEF ArchiveTableFails, DeleteEntries, GCEnd, Die, RestoreFails

(***************************************************************************)
(* Types.                                                                  *)
(***************************************************************************)

\* A sweep at work has a table to go.
Sweeping == \A w \in Process : op[w].verb = "sweep" => op[w].todo # {}

LEMMA SweepingPut ==
    ASSUME Ops, Sweeping, NEW w \in Process, NEW x, Put(w, x), x.verb = "sweep" => x.todo # {}
    PROVE  Sweeping'
BY DEF Sweeping, Put

\* The entries of some rows as they are in their table.
LEMMA MovedType ==
    ASSUME TypeOK, NEW some \in SUBSET live, \A r \in some : copies[r] < MaxCopy
    PROVE  Moved(some) \subseteq Entry
<1> SUFFICES ASSUME NEW r \in some PROVE CopyOf(r, status[r], note[r]) \in Entry
  BY DEF Moved
<1>1. r \in Row /\ copies[r] + 1 \in 1..MaxCopy
  BY RecordsAssumption DEF TypeOK
<1> QED BY <1>1 DEF CopyOf, Entry, TypeOK

LEMMA CopiesType ==
    ASSUME TypeOK, NEW r \in Row, copies[r] < MaxCopy
    PROVE  copies[r] + 1 \in 1..MaxCopy /\ copies[r] + 1 \in 0..MaxCopy
BY RecordsAssumption DEF TypeOK

LEMMA CounterType ==
    ASSUME TypeOK
    PROVE  /\ Launch => verbs' \in Nat /\ runs' \in 0..MaxRuns /\ crashes' \in 0..MaxCrashes
           /\ UNCHANGED counters => verbs' \in Nat /\ runs' \in 0..MaxRuns /\ crashes' \in 0..MaxCrashes
BY RecordsAssumption DEF TypeOK, Launch, counters

LEMMA TypeStep == ASSUME TypeOK, Sweeping, Next PROVE TypeOK' /\ Sweeping'
<1>0. Ops
  BY DEF TypeOK, Ops, Holding
<1> DEFINE Counted == verbs' \in Nat /\ runs' \in 0..MaxRuns /\ crashes' \in 0..MaxCrashes
           Still == UNCHANGED <<table, live, status, note, ref, aged>>
           Kept == UNCHANGED <<archive, copies>>
           Moved1 == \E w \in Process, x \in Holding : Put(w, x) /\ (x.verb = "sweep" => x.todo # {})
<1>1. ASSUME Moved1 PROVE op' \in [Process -> Holding] /\ Sweeping'
  BY <1>0, <1>1, SweepingPut DEF Put
<1>2. ASSUME Counted, Still, Kept, Moved1 PROVE TypeOK' /\ Sweeping'
  <2>1. op' \in [Process -> Holding] /\ Sweeping'
    BY <1>1, <1>2
  <2> HIDE DEF Moved1
  <2> QED BY <1>2, <2>1 DEF TypeOK, Holding
<1>3. \A x \in Restore \cup Collection \cup Friction \cup {Idle} : x \in Holding /\ x.verb # "sweep"
  BY DEF Holding, Restore, Collection, Friction, Idle
<1>4. ASSUME NEW w \in Process, NEW x \in Restore \cup Collection \cup Friction \cup {Idle}, Put(w, x)
      PROVE  Moved1
  BY <1>3, <1>4
<1>5. ASSUME NEW w \in Process, NEW x \in Sweep, x.todo # {}, Put(w, x) PROVE Moved1
  BY <1>5 DEF Holding
<1> HIDE DEF Moved1
<1>6. CASE Edit
  <2>1. Edited /\ UNCHANGED op /\ Kept
    BY <1>6, EditEffect DEF Edited, Adds, Touches
  <2> QED BY <2>1 DEF Edited, Columns, TypeOK, Sweeping
<1>7. CASE Age
  <2>1. aged' \in 0..MaxRow
    BY <1>7, RecordsAssumption DEF Age, TypeOK
  <2> QED BY <1>7, <2>1 DEF Age, TypeOK, Sweeping, counters
<1>8. ASSUME NEW w \in Process, SweepAll(w) \/ SweepTable(w) PROVE TypeOK' /\ Sweeping'
  <2>1. PICK some \in SUBSET AnyTable : CountRows(w, some)
    BY <1>8, RecordsAssumption DEF SweepAll, SweepTable
  <2>2. Moved1
    BY <1>0, <1>5, <2>1, CountRowsEffect
  <2>3. Counted
    BY <1>8, CounterType DEF SweepAll, SweepTable
  <2> QED BY <1>2, <2>1, <2>2, <2>3 DEF CountRows
<1>9. ASSUME NEW w \in Process, ArchiveTable(w) PROVE TypeOK' /\ Sweeping'
  <2> DEFINE some == Due(First(op[w].todo), op[w].cutoff)
  <2>1. op[w].todo # {}
    BY <1>9 DEF ArchiveTable, Sweeping
  <2>2. Moved1
    BY <1>0, <1>4, <1>5, <1>9, <2>1, ArchiveTablePut
  <2>3. some \in SUBSET live
    BY <1>0, <1>9, <2>1, SweepEffect DEF ArchiveTable
  <2>4. /\ \A r \in some : copies[r] < MaxCopy
        /\ archive' = archive \cup Moved(some)
        /\ copies' = [r \in Row |-> IF r \in some THEN copies[r] + 1 ELSE copies[r]]
        /\ live' = live \ some
        /\ UNCHANGED <<table, status, note, ref, aged, counters>>
    BY <1>9 DEF ArchiveTable
  <2> HIDE DEF some
  <2>5. archive' \in SUBSET Entry
    BY <2>3, <2>4, MovedType DEF TypeOK
  <2>6. copies' \in [Row -> 0..MaxCopy]
    BY <2>3, <2>4, CopiesType DEF TypeOK
  <2>7. op' \in [Process -> Holding] /\ Sweeping' /\ Counted
    BY <1>1, <2>2, <2>4, CounterType
  <2> QED BY <2>4, <2>5, <2>6, <2>7 DEF TypeOK, Holding
<1>10. ASSUME NEW w \in Process, ArchiveTableFails(w) PROVE TypeOK' /\ Sweeping'
  <2>1. Moved1
    BY <1>0, <1>4, <1>10, EndEffect
  <2> QED BY <1>2, <1>10, <2>1, CounterType DEF ArchiveTableFails
<1>11. ASSUME NEW w \in Process, Select(w) PROVE TypeOK' /\ Sweeping'
  <2>1. Moved1
    BY <1>0, <1>4, <1>11, SelectEffect
  <2> QED BY <1>2, <1>11, <2>1, CounterType DEF Select
<1>12. ASSUME NEW w \in Process, NEW e \in op[w].todo, RestoreRow(w, e) PROVE TypeOK' /\ Sweeping'
  <2>1. Moved1 /\ e \in Entry
    BY <1>0, <1>4, <1>12, RestoreRowEffect
  <2>2. e.row \in Row /\ e.status \in Status /\ e.note \in Note
    BY <2>1 DEF Entry
  <2>3. live' = live \cup {e.row} /\ status' = [status EXCEPT ![e.row] = e.status]
        /\ note' = [note EXCEPT ![e.row] = e.note]
        /\ UNCHANGED <<table, ref, archive, copies, aged, counters>>
    BY <1>12 DEF RestoreRow
  <2>4. op' \in [Process -> Holding] /\ Sweeping' /\ Counted
    BY <1>1, <2>1, <2>3, CounterType
  <2> QED BY <2>2, <2>3, <2>4 DEF TypeOK, Holding
<1>13. ASSUME NEW w \in Process, NEW e \in op[w].todo, RestoreSkip(w, e) PROVE TypeOK' /\ Sweeping'
  <2>1. Moved1
    BY <1>0, <1>4, <1>13, RestoreSkipEffect
  <2> QED BY <1>2, <1>13, <2>1, CounterType DEF RestoreSkip
<1>14. ASSUME NEW w \in Process, NEW e \in op[w].todo, RestoreFails(w, e) PROVE TypeOK' /\ Sweeping'
  <2>1. Moved1
    BY <1>0, <1>4, <1>14, EndEffect
  <2> QED BY <1>2, <1>14, <2>1, CounterType DEF RestoreFails
<1>15. ASSUME NEW w \in Process, DeleteEntries(w) PROVE TypeOK' /\ Sweeping'
  <2>1. Moved1
    BY <1>0, <1>4, <1>15, EndEffect
  <2>2. op' \in [Process -> Holding] /\ Sweeping' /\ Counted
    BY <1>1, <1>15, <2>1, CounterType DEF DeleteEntries
  <2> QED BY <1>15, <2>2 DEF DeleteEntries, TypeOK, Holding
<1>16. ASSUME NEW w \in Process, ReadFeedback(w) PROVE TypeOK' /\ Sweeping'
  <2>1. Moved1
    BY <1>0, <1>4, <1>16, ReadFeedbackEffect
  <2> QED BY <1>2, <1>16, <2>1, CounterType DEF ReadFeedback
<1>17. ASSUME NEW w \in Process, ReadFindings(w) PROVE TypeOK' /\ Sweeping'
  <2>1. Moved1
    BY <1>0, <1>4, <1>17, ReadFindingsEffect DEF Continues
  <2> QED BY <1>2, <1>17, <2>1, CounterType DEF ReadFindings
<1>18. ASSUME NEW w \in Process, NEW r \in Row, GCClose(w, r) \/ GCWontfix(w, r)
       PROVE  TypeOK' /\ Sweeping'
  <2>1. Moved1 /\ Columns /\ Touches
    BY <1>0, <1>4, <1>18, GCUpdateEffect DEF Continues
  <2>2. Counted /\ UNCHANGED ref
    BY <1>18, CounterType DEF GCClose, GCWontfix
  <2>3. op' \in [Process -> Holding] /\ Sweeping'
    BY <1>1, <2>1
  <2> QED BY <2>1, <2>2, <2>3 DEF TypeOK, Holding, Columns, Touches
<1>19. ASSUME NEW w \in Process, NEW stage, NEW next \in {"reminders", "tasks"}, ReadTable(w, stage, next)
       PROVE  TypeOK' /\ Sweeping'
  <2>1. Moved1
    BY <1>0, <1>4, <1>19, ReadTableEffect
  <2> QED BY <1>2, <1>19, <2>1, CounterType DEF ReadTable
<1>20. ASSUME NEW w \in Process, NEW p \in op[w].todo, GCInsert(w, p) PROVE TypeOK' /\ Sweeping'
  <2>1. Moved1 /\ p \in Payload
    BY <1>0, <1>4, <1>20, GCInsertEffect
  <2>2. /\ copies[p.row] < MaxCopy
        /\ archive' = archive \cup {CopyOf(p.row, p.status, p.note)}
        /\ copies' = [copies EXCEPT ![p.row] = @ + 1]
        /\ UNCHANGED rows /\ UNCHANGED counters
    BY <1>20 DEF GCInsert
  <2>3. p.row \in Row /\ p.status \in Status /\ p.note \in Note
    BY <2>1 DEF Payload
  <2>4. copies[p.row] + 1 \in 1..MaxCopy /\ copies[p.row] + 1 \in 0..MaxCopy
    BY <2>2, <2>3, CopiesType
  <2>5. archive' \in SUBSET Entry
    BY <2>2, <2>3, <2>4 DEF CopyOf, Entry, TypeOK
  <2>6. copies' \in [Row -> 0..MaxCopy]
    BY <2>2, <2>3, <2>4 DEF TypeOK
  <2>7. op' \in [Process -> Holding] /\ Sweeping' /\ Counted
    BY <1>1, <2>1, <2>2, CounterType
  <2> QED BY <2>2, <2>5, <2>6, <2>7 DEF TypeOK, Holding, rows
<1>21. ASSUME NEW w \in Process, GCDelete(w) PROVE TypeOK' /\ Sweeping'
  <2>1. Moved1
    BY <1>0, <1>4, <1>21, GCDeleteEffect
  <2>2. op' \in [Process -> Holding] /\ Sweeping' /\ Counted
    BY <1>1, <1>21, <2>1, CounterType DEF GCDelete
  <2> QED BY <1>21, <2>2 DEF GCDelete, TypeOK, Holding
<1>22. ASSUME NEW w \in Process, GCEnd(w) PROVE TypeOK' /\ Sweeping'
  <2>1. Moved1
    BY <1>0, <1>4, <1>22, EndEffect
  <2> QED BY <1>2, <1>22, <2>1, CounterType DEF GCEnd
<1>23. ASSUME NEW w \in Process, FrictionRead(w) PROVE TypeOK' /\ Sweeping'
  <2>1. Moved1
    BY <1>0, <1>4, <1>23, FrictionReadEffect
  <2> QED BY <1>2, <1>23, <2>1, SpendType DEF FrictionRead
<1>24. ASSUME NEW w \in Process, FrictionAdd(w) PROVE TypeOK' /\ Sweeping'
  <2>1. Moved1 /\ Adds /\ Columns /\ ref' \in [Row -> {NoRef} \cup Row \cup Line]
        /\ table' \in [Row -> Table \cup {NoTable}] /\ live' \in SUBSET Row /\ Counted
    BY <1>0, <1>4, <1>24, FrictionAddEffect, CounterType
  <2>2. op' \in [Process -> Holding] /\ Sweeping'
    BY <1>1, <2>1
  <2> QED BY <2>1, <2>2 DEF TypeOK, Holding, Columns, Adds
<1>25. ASSUME NEW w \in Process, Die(w) PROVE TypeOK' /\ Sweeping'
  <2>1. Moved1
    BY <1>0, <1>4, <1>25, EndEffect
  <2>2. Counted
    BY <1>25, RecordsAssumption DEF Die, TypeOK
  <2> QED BY <1>2, <1>25, <2>1, <2>2 DEF Die
<1> QED
  BY <1>6, <1>7, <1>8, <1>9, <1>10, <1>11, <1>12, <1>13, <1>14, <1>15, <1>16, <1>17, <1>18, <1>19,
     <1>20, <1>21, <1>22, <1>23, <1>24, <1>25
     DEF Next, Process, CmdArchiveRun, RunHousekeeping, CmdArchiveRestore, CmdArchiveGC, ScanFriction

(***************************************************************************)
(* Where rows and entries come from.                                       *)
(***************************************************************************)

\* An entry of a row that was recorded, none with a higher number was made.
Known(e) == e.row \in Used /\ e.copy <= copies[e.row]

\* The tables archive gc works on.
Collected(r) == table[r] \in {"reminders", "tasks"}

KnownHeld(x) == \A e \in x.todo \cup x.inserted : Known(e)

CollectedHeld(x) ==
    /\ \A p \in x.todo : Collected(p.row)
    /\ x.held # 0 => Collected(x.held)

Traced ==
    /\ live \subseteq Used
    /\ \A e \in archive : Known(e)
    /\ \A w \in Process : op[w] \in Restore => KnownHeld(op[w])
    /\ \A w \in Process : op[w] \in Collection => CollectedHeld(op[w])

\* A row keeps its table for good and no entry number is used twice.
Grows ==
    \A r \in Row : /\ table[r] # NoTable => table'[r] = table[r]
                   /\ copies[r] <= copies'[r]

LEMMA AddsGrows == ASSUME TypeOK, Adds PROVE Grows
BY DEF Adds, Grows, TypeOK

LEMMA SameGrows == ASSUME TypeOK, UNCHANGED <<table, copies>> PROVE Grows
BY DEF Grows, TypeOK

LEMMA GrowsStep == ASSUME TypeOK, Next PROVE Grows
<1>0. Ops
  BY DEF TypeOK, Ops, Holding
<1>1. CASE Edit
  BY <1>1, EditEffect, AddsGrows, SameGrows DEF Edited, Touches
<1>2. ASSUME NEW w \in Process, ArchiveTable(w) PROVE Grows
  <2>1. PICK some : /\ copies' = [r \in Row |-> IF r \in some THEN copies[r] + 1 ELSE copies[r]]
                    /\ UNCHANGED table
    BY <1>2 DEF ArchiveTable
  <2> QED BY <2>1 DEF Grows, TypeOK
<1>3. ASSUME NEW w \in Process, NEW p \in op[w].todo, GCInsert(w, p) PROVE Grows
  <2>1. p.row \in Row
    BY <1>0, <1>3, GCInsertEffect DEF Payload
  <2> QED BY <1>3, <2>1 DEF GCInsert, rows, Grows, TypeOK
<1>4. ASSUME NEW w \in Process, FrictionAdd(w) PROVE Grows
  BY <1>0, <1>4, FrictionAddEffect, AddsGrows
<1>5. ASSUME NEW w \in Process,
             \/ SweepAll(w) \/ SweepTable(w) \/ ArchiveTableFails(w) \/ Select(w)
             \/ DeleteEntries(w) \/ ReadFeedback(w) \/ ReadFindings(w) \/ GCDelete(w) \/ GCEnd(w)
             \/ FrictionRead(w) \/ Die(w)
             \/ \E e \in op[w].todo : RestoreRow(w, e) \/ RestoreSkip(w, e) \/ RestoreFails(w, e)
             \/ \E r \in Row : GCClose(w, r) \/ GCWontfix(w, r)
             \/ \E stage, next : ReadTable(w, stage, next)
      PROVE  Grows
  BY <1>5, SameGrows
     DEF SweepAll, SweepTable, CountRows, ArchiveTableFails, Select, DeleteEntries, ReadFeedback,
         ReadFindings, GCDelete, GCEnd, FrictionRead, Die, RestoreRow, RestoreSkip, RestoreFails,
         GCClose, GCWontfix, ReadTable
<1>6. CASE Age
  BY <1>6, SameGrows DEF Age
<1> QED
  BY <1>1, <1>2, <1>3, <1>4, <1>5, <1>6
     DEF Next, Process, CmdArchiveRun, RunHousekeeping, CmdArchiveRestore, CmdArchiveGC, ScanFriction

LEMMA UsedGrows == ASSUME Grows PROVE Used \subseteq Used'
BY DEF Used, Grows

LEMMA KnownGrows ==
    ASSUME TypeOK, TypeOK', Grows, NEW e \in Entry, Known(e) PROVE Known(e)'
<1>1. e.row \in Used' /\ e.row \in Row /\ copies[e.row] <= copies'[e.row]
  BY UsedGrows DEF Known, Grows, Entry
<1>2. e.copy \in Nat /\ copies[e.row] \in Nat /\ copies'[e.row] \in Nat
  BY <1>1 DEF Entry, TypeOK
<1> QED BY <1>1, <1>2 DEF Known

LEMMA CollectedGrows ==
    ASSUME Grows, NEW r \in Row, Collected(r) PROVE Collected(r)' /\ r \in Used
BY DEF Collected, Grows, Used, NoTable

\* What a process goes on holding stays traced.
LEMMA HeldGrows ==
    ASSUME TypeOK, TypeOK', Grows
    PROVE  /\ \A x \in Restore : KnownHeld(x) => KnownHeld(x)'
           /\ \A x \in Collection : CollectedHeld(x) => CollectedHeld(x)'
<1>1. ASSUME NEW x \in Restore, KnownHeld(x) PROVE KnownHeld(x)'
  BY <1>1, KnownGrows DEF KnownHeld, Restore
<1>2. ASSUME NEW x \in Collection, CollectedHeld(x) PROVE CollectedHeld(x)'
  <2>1. \A p \in x.todo : p.row \in Row
    BY DEF Collection, Payload
  <2>2. x.held # 0 => x.held \in Row
    BY DEF Collection
  <2> QED BY <1>2, <2>1, <2>2, CollectedGrows DEF CollectedHeld
<1> QED BY <1>1, <1>2

\* One process moves.
LEMMA TracedPut ==
    ASSUME TypeOK, TypeOK', Traced, Grows, live' \subseteq Used',
           \A e \in archive' : e \in archive \/ Known(e)',
           NEW w \in Process, NEW x, Put(w, x),
           x \in Restore => KnownHeld(x)', x \in Collection => CollectedHeld(x)'
    PROVE  Traced'
<1>1. \A e \in archive' : Known(e)'
  BY KnownGrows DEF Traced, TypeOK
<1>2. ASSUME NEW v \in Process, op'[v] \in Restore PROVE KnownHeld(op[v])'
  <2>1. CASE v = w
    BY <1>2, <2>1 DEF Put, KnownHeld
  <2>2. CASE v # w
    <3>1. PICK y : y = op[v]
      OBVIOUS
    <3>2. op'[v] = y /\ y \in Restore /\ KnownHeld(y)
      BY <1>2, <2>2, <3>1 DEF Put, Traced
    <3> QED BY <3>2, HeldGrows DEF KnownHeld
  <2> QED BY <2>1, <2>2
<1>3. ASSUME NEW v \in Process, op'[v] \in Collection PROVE CollectedHeld(op[v])'
  <2>1. CASE v = w
    BY <1>3, <2>1 DEF Put, CollectedHeld
  <2>2. CASE v # w
    <3>1. PICK y : y = op[v]
      OBVIOUS
    <3>2. op'[v] = y /\ y \in Collection /\ CollectedHeld(y)
      BY <1>3, <2>2, <3>1 DEF Put, Traced
    <3> QED BY <3>2, HeldGrows DEF CollectedHeld
  <2> QED BY <2>1, <2>2
<1> QED BY <1>1, <1>2, <1>3 DEF Traced

\* Nobody moves.
LEMMA TracedStill ==
    ASSUME TypeOK, TypeOK', Traced, Grows, live' \subseteq Used', UNCHANGED <<archive, op>>
    PROVE  Traced'
<1>1. \A e \in archive' : Known(e)'
  BY KnownGrows DEF Traced, TypeOK
<1>2. ASSUME NEW v \in Process, op'[v] \in Restore PROVE KnownHeld(op[v])'
  <2>1. PICK y : y = op[v]
    OBVIOUS
  <2>2. op'[v] = y /\ y \in Restore /\ KnownHeld(y)
    BY <1>2, <2>1 DEF Traced
  <2> QED BY <2>2, HeldGrows DEF KnownHeld
<1>3. ASSUME NEW v \in Process, op'[v] \in Collection PROVE CollectedHeld(op[v])'
  <2>1. PICK y : y = op[v]
    OBVIOUS
  <2>2. op'[v] = y /\ y \in Collection /\ CollectedHeld(y)
    BY <1>3, <2>1 DEF Traced
  <2> QED BY <2>2, HeldGrows DEF CollectedHeld
<1> QED BY <1>1, <1>2, <1>3 DEF Traced

LEMMA Apart ==
    /\ \A x \in Sweep \cup Friction \cup {Idle} : x \notin Restore /\ x \notin Collection
    /\ \A x \in Restore : x \notin Collection
BY DEF Sweep, Friction, Idle, Restore, Collection

LEMMA AddsLive ==
    ASSUME TypeOK, Traced, Grows, Adds
    PROVE  live' \subseteq Used' /\ \A r \in Used' \ Used : r \in live'
<1>1. PICK r \in Row, t \in Table :
          table[r] = NoTable /\ table' = [table EXCEPT ![r] = t] /\ live' = live \cup {r}
  BY DEF Adds
<1>2. t # NoTable
  BY RecordsAssumption DEF AnyTable, NoTable
<1> QED BY <1>1, <1>2, UsedGrows DEF Used, TypeOK, Traced

\* The entry a row is archived under.
LEMMA FreshKnown ==
    ASSUME TypeOK, TypeOK', Grows, NEW r \in Used, copies'[r] = copies[r] + 1,
           NEW e, e.row = r, e.copy = copies[r] + 1
    PROVE  Known(e)'
<1>1. r \in Used' /\ copies'[r] \in Nat /\ r \in Row
  BY UsedGrows DEF Used, TypeOK
<1>2. e.row \in Used' /\ e.copy <= copies'[e.row]
  BY <1>1
<1> QED BY <1>2 DEF Known

LEMMA TracedStep == ASSUME TypeOK, Sweeping, Traced, Next PROVE Traced'
<1>0. Ops /\ TypeOK' /\ Grows
  BY TypeStep, GrowsStep DEF TypeOK, Ops, Holding
<1>1. live \subseteq Used' /\ Used \subseteq Used'
  BY <1>0, UsedGrows DEF Traced
<1>2. ASSUME NEW w \in Process, NEW x, Put(w, x), live' \subseteq Used', archive' \subseteq archive,
             x \in Restore => KnownHeld(x), x \in Collection => CollectedHeld(x)
      PROVE  Traced'
  BY <1>0, <1>2, HeldGrows, TracedPut
<1>3. ASSUME NEW w \in Process, NEW x \in Sweep \cup Friction \cup {Idle}, Put(w, x),
             live' \subseteq Used', archive' \subseteq archive
      PROVE  Traced'
  BY <1>2, <1>3, Apart
<1>4. CASE Edit
  BY <1>0, <1>1, <1>4, EditEffect, TracedStill, AddsLive DEF Edited, Adds, Touches
<1>5. CASE Age
  BY <1>0, <1>1, <1>5, TracedStill DEF Age
<1>6. ASSUME NEW w \in Process, SweepAll(w) \/ SweepTable(w) PROVE Traced'
  <2>1. PICK some \in SUBSET AnyTable : CountRows(w, some)
    BY <1>6, RecordsAssumption DEF SweepAll, SweepTable
  <2>2. UNCHANGED <<live, archive>>
    BY <2>1 DEF CountRows
  <2>3. PICK x \in Sweep : Put(w, x)
    BY <1>0, <2>1, CountRowsEffect
  <2> QED BY <1>1, <1>3, <2>2, <2>3
<1>7. ASSUME NEW w \in Process, ArchiveTable(w) PROVE Traced'
  <2>1. op[w].todo # {}
    BY <1>7 DEF ArchiveTable, Sweeping
  <2>2. PICK x \in {Idle} \cup Sweep : Put(w, x)
    BY <1>0, <1>7, <2>1, ArchiveTablePut
  <2>3. PICK some \in SUBSET live :
            /\ archive' = archive \cup Moved(some)
            /\ copies' = [r \in Row |-> IF r \in some THEN copies[r] + 1 ELSE copies[r]]
            /\ live' = live \ some
    BY <1>0, <1>7, <2>1, SweepEffect DEF ArchiveTable
  <2>4. ASSUME NEW e \in archive', e \notin archive PROVE Known(e)'
    <3>1. PICK r \in some : e = CopyOf(r, status[r], note[r])
      BY <2>3, <2>4 DEF Moved
    <3>2. e.row = r /\ e.copy = copies[r] + 1
      BY <3>1 DEF CopyOf
    <3>3. r \in Used /\ copies'[r] = copies[r] + 1
      BY <2>3 DEF Traced, TypeOK
    <3> QED BY <1>0, <3>2, <3>3, FreshKnown
  <2>5. live' \subseteq Used' /\ x \notin Restore /\ x \notin Collection
    BY <1>1, <2>3, Apart
  <2> QED BY <1>0, <2>2, <2>4, <2>5, TracedPut
<1>8. ASSUME NEW w \in Process,
             \/ ArchiveTableFails(w) \/ DeleteEntries(w) \/ GCEnd(w) \/ Die(w)
             \/ \E e \in op[w].todo : RestoreFails(w, e)
      PROVE  Traced'
  <2>1. UNCHANGED live /\ archive' \subseteq archive
    BY <1>8 DEF ArchiveTableFails, DeleteEntries, GCEnd, Die, RestoreFails
  <2>2. Put(w, Idle)
    BY <1>0, <1>8, EndEffect
  <2> QED BY <1>1, <1>3, <2>1, <2>2
<1>9. ASSUME NEW w \in Process, Select(w) PROVE Traced'
  <2>1. PICK x \in Restore : Put(w, x) /\ x.todo \subseteq archive /\ x.inserted = {}
    BY <1>0, <1>9, SelectEffect
  <2>2. KnownHeld(x)
    BY <2>1 DEF KnownHeld, Traced
  <2> QED BY <1>1, <1>2, <1>9, <2>1, <2>2, Apart DEF Select
<1>10. ASSUME NEW w \in Process, NEW e \in op[w].todo, RestoreRow(w, e) PROVE Traced'
  <2>1. PICK x \in Restore : /\ Put(w, x)
                             /\ x.todo = op[w].todo \ {e}
                             /\ x.inserted = op[w].inserted \cup {e}
    BY <1>0, <1>10, RestoreRowEffect
  <2>2. KnownHeld(op[w])
    BY <1>0, <1>10, RestoreRowEffect DEF Traced
  <2>3. KnownHeld(x) /\ e.row \in Used
    BY <2>1, <2>2 DEF KnownHeld, Known
  <2>4. live' \subseteq Used' /\ archive' = archive
    BY <1>1, <1>10, <2>3 DEF RestoreRow
  <2> QED BY <1>2, <2>1, <2>3, <2>4, Apart
<1>11. ASSUME NEW w \in Process, NEW e \in op[w].todo, RestoreSkip(w, e) PROVE Traced'
  <2>1. PICK x \in Restore : /\ Put(w, x)
                             /\ x.todo = op[w].todo \ {e}
                             /\ x.inserted = op[w].inserted
    BY <1>0, <1>11, RestoreSkipEffect
  <2>2. KnownHeld(op[w])
    BY <1>0, <1>11, RestoreSkipEffect DEF Traced
  <2>3. KnownHeld(x)
    BY <2>1, <2>2 DEF KnownHeld
  <2> QED BY <1>1, <1>2, <1>11, <2>1, <2>3, Apart DEF RestoreSkip
<1>12. ASSUME NEW w \in Process, ReadFeedback(w) PROVE Traced'
  <2>1. PICK x \in Collection : Put(w, x) /\ x.todo = {} /\ x.held = 0
    BY <1>0, <1>12, ReadFeedbackEffect
  <2>2. CollectedHeld(x)
    BY <2>1 DEF CollectedHeld
  <2> QED BY <1>1, <1>2, <1>12, <2>1, <2>2, Apart DEF ReadFeedback
<1>13. ASSUME NEW w \in Process, op[w] \in Collection, Continues(w), UNCHANGED <<live, archive>>
       PROVE  Traced'
  <2>1. PICK x \in Collection : Put(w, x) /\ x.todo = op[w].todo /\ x.held = op[w].held
    BY <1>13 DEF Continues
  <2>2. CollectedHeld(x)
    BY <1>13, <2>1 DEF CollectedHeld, Traced
  <2> QED BY <1>1, <1>2, <1>13, <2>1, <2>2, Apart
<1>14. ASSUME NEW w \in Process, ReadFindings(w) PROVE Traced'
  BY <1>0, <1>13, <1>14, ReadFindingsEffect DEF ReadFindings
<1>15. ASSUME NEW w \in Process, NEW r \in Row, GCClose(w, r) \/ GCWontfix(w, r) PROVE Traced'
  BY <1>0, <1>13, <1>15, GCUpdateEffect DEF GCClose, GCWontfix
<1>16. ASSUME NEW w \in Process, NEW stage, NEW next \in {"reminders", "tasks"}, ReadTable(w, stage, next)
       PROVE  Traced'
  <2>1. /\ op[w] \in Collection
        /\ \E x \in Collection : /\ Put(w, x) /\ x.held = op[w].held
                                 /\ \A p \in x.todo : p.row \in live /\ table[p.row] = next
    BY <1>0, <1>16, ReadTableEffect
  <2>2. PICK x \in Collection : /\ Put(w, x) /\ x.held = op[w].held
                                /\ \A p \in x.todo : p.row \in live /\ table[p.row] = next
    BY <2>1
  <2>3. CollectedHeld(x)
    BY <2>1, <2>2 DEF CollectedHeld, Collected, Traced
  <2> QED BY <1>1, <1>2, <1>16, <2>2, <2>3, Apart DEF ReadTable
<1>17. ASSUME NEW w \in Process, NEW p \in op[w].todo, GCInsert(w, p) PROVE Traced'
  <2>1. op[w] \in Collection /\ p \in Payload
    BY <1>0, <1>17, GCInsertEffect
  <2>2. PICK x \in Collection : Put(w, x) /\ x.todo = op[w].todo \ {p} /\ x.held = p.row
    BY <1>0, <1>17, GCInsertEffect
  <2>3. CollectedHeld(x)
    BY <2>1, <2>2 DEF CollectedHeld, Traced
  <2>4. p.row \in Row /\ p.row \in Used
    BY <1>0, <2>1, CollectedGrows DEF Payload, Traced, CollectedHeld
  <2>5. /\ archive' = archive \cup {CopyOf(p.row, p.status, p.note)}
        /\ copies' = [copies EXCEPT ![p.row] = @ + 1]
        /\ UNCHANGED live
    BY <1>17 DEF GCInsert, rows
  <2>6. ASSUME NEW e \in archive', e \notin archive PROVE Known(e)'
    <3>1. e.row = p.row /\ e.copy = copies[p.row] + 1
      BY <2>5, <2>6 DEF CopyOf
    <3>2. copies'[p.row] = copies[p.row] + 1
      BY <2>4, <2>5 DEF TypeOK
    <3> QED BY <1>0, <2>4, <3>1, <3>2, FreshKnown
  <2>7. CollectedHeld(x)' /\ x \notin Restore
    BY <1>0, <2>2, <2>3, HeldGrows, Apart
  <2> QED BY <1>0, <1>1, <2>2, <2>5, <2>6, <2>7, TracedPut
<1>18. ASSUME NEW w \in Process, GCDelete(w) PROVE Traced'
  <2>1. op[w] \in Collection
    BY <1>0, <1>18, GCDeleteEffect
  <2>2. PICK x \in Collection : Put(w, x) /\ x.todo = op[w].todo /\ x.held = 0
    BY <1>0, <1>18, GCDeleteEffect
  <2>3. CollectedHeld(x)
    BY <2>1, <2>2 DEF CollectedHeld, Traced
  <2>4. live' \subseteq live /\ UNCHANGED archive
    BY <1>18 DEF GCDelete
  <2> QED BY <1>1, <1>2, <2>2, <2>3, <2>4, Apart
<1>19. ASSUME NEW w \in Process, FrictionRead(w) PROVE Traced'
  <2>1. PICK x \in Friction : Put(w, x)
    BY <1>0, <1>19, FrictionReadEffect
  <2> QED BY <1>1, <1>3, <1>19, <2>1 DEF FrictionRead
<1>20. ASSUME NEW w \in Process, FrictionAdd(w) PROVE Traced'
  <2>1. Adds /\ \E x \in {Idle} \cup Friction : Put(w, x)
    BY <1>0, <1>20, FrictionAddEffect
  <2>2. PICK x \in {Idle} \cup Friction : Put(w, x)
    BY <2>1
  <2>3. live' \subseteq Used' /\ UNCHANGED archive
    BY <1>0, <2>1, AddsLive DEF Adds
  <2> QED BY <1>3, <2>2, <2>3
<1> QED
  BY <1>4, <1>5, <1>6, <1>7, <1>8, <1>9, <1>10, <1>11, <1>12, <1>14, <1>15, <1>16, <1>17, <1>18,
     <1>19, <1>20
     DEF Next, Process, CmdArchiveRun, RunHousekeeping, CmdArchiveRestore, CmdArchiveGC, ScanFriction

(***************************************************************************)
(* No row is lost.  A collection archives a row and deletes it later from  *)
(* its table, wherever a restore has put it meanwhile, and a restore       *)
(* deletes its entries at the end.  What saves the row is that each of     *)
(* them takes its own entry: a row has an entry no restore is going to     *)
(* delete for every collection that is going to delete it, and one more    *)
(* when it is not in its table.                                            *)
(***************************************************************************)

\* The entries of a row that no restore has inserted.
Free(r) ==
    {e \in archive : e.row = r /\ \A w \in Process : op[w] \in Restore => e \notin op[w].inserted}

Numbers(r) == {c \in 1..MaxCopy : \E e \in Free(r) : e.copy = c}

\* The collections that have archived the row and not deleted it.
Holders(r) == {w \in Process : op[w] \in Collection /\ op[w].held = r}

Safe(r) ==
    IF r \in live THEN Cardinality(Holders(r)) <= Cardinality(Numbers(r))
    ELSE Cardinality(Holders(r)) + 1 <= Cardinality(Numbers(r))

AllSafe == \A r \in Used : Safe(r)

\* A row that is not in its table has one of those that holds what it held last.
Kept ==
    \A r \in Used :
        ~ Collected(r) /\ r \notin live => \E e \in Free(r) : e.status = status[r] /\ e.note = note[r]

LEMMA Sizes ==
    \A r : /\ IsFiniteSet(Holders(r)) /\ Cardinality(Holders(r)) \in Nat
           /\ IsFiniteSet(Numbers(r)) /\ Cardinality(Numbers(r)) \in Nat
<1> TAKE r
<1>1. IsFiniteSet(1..MaxCopy)
  BY RecordsAssumption, FS_Interval
<1>2. Holders(r) \in SUBSET Process /\ Numbers(r) \in SUBSET (1..MaxCopy)
  BY DEF Holders, Numbers
<1>3. IsFiniteSet(Holders(r)) /\ IsFiniteSet(Numbers(r))
  BY <1>1, <1>2, RecordsAssumption, FS_Subset
<1> QED BY <1>3, FS_CardinalityType

LEMMA SizesNext ==
    \A r : /\ IsFiniteSet(Holders(r)') /\ Cardinality(Holders(r)') \in Nat
           /\ IsFiniteSet(Numbers(r)') /\ Cardinality(Numbers(r)') \in Nat
<1> TAKE r
<1>1. IsFiniteSet(1..MaxCopy)
  BY RecordsAssumption, FS_Interval
<1>2. Holders(r)' \in SUBSET Process /\ Numbers(r)' \in SUBSET (1..MaxCopy)
  BY DEF Holders, Numbers
<1>3. IsFiniteSet(Holders(r)') /\ IsFiniteSet(Numbers(r)')
  BY <1>1, <1>2, RecordsAssumption, FS_Subset
<1> QED BY <1>3, FS_CardinalityType

\* Fewer holders and more free entries.
LEMMA Easier ==
    ASSUME NEW r, Holders(r)' \subseteq Holders(r), Free(r) \subseteq Free(r)'
    PROVE  /\ Cardinality(Holders(r)') <= Cardinality(Holders(r))
           /\ Cardinality(Numbers(r)) <= Cardinality(Numbers(r)')
<1>1. Numbers(r) \subseteq Numbers(r)'
  BY DEF Numbers
<1> QED BY <1>1, Sizes, SizesNext, FS_Subset

LEMMA SafeQuiet ==
    ASSUME NEW r, Safe(r), Holders(r)' \subseteq Holders(r), Free(r) \subseteq Free(r)',
           r \in live => r \in live'
    PROVE  Safe(r)'
<1>1. /\ Cardinality(Holders(r)') <= Cardinality(Holders(r))
      /\ Cardinality(Numbers(r)) <= Cardinality(Numbers(r)')
  BY Easier
<1>2. /\ Cardinality(Holders(r)) \in Nat /\ Cardinality(Holders(r)') \in Nat
      /\ Cardinality(Numbers(r)) \in Nat /\ Cardinality(Numbers(r)') \in Nat
  BY Sizes, SizesNext
<1>3. CASE r \in live'
  <2>1. Cardinality(Holders(r)) <= Cardinality(Numbers(r))
    BY <1>2 DEF Safe
  <2>2. Cardinality(Holders(r)') <= Cardinality(Numbers(r)')
    BY <1>1, <1>2, <2>1
  <2> QED BY <1>3, <2>2 DEF Safe
<1>4. CASE r \notin live'
  <2>1. Cardinality(Holders(r)) + 1 <= Cardinality(Numbers(r))
    BY <1>4 DEF Safe
  <2>2. Cardinality(Holders(r)') + 1 <= Cardinality(Numbers(r)')
    BY <1>1, <1>2, <2>1
  <2> QED BY <1>4, <2>2 DEF Safe
<1> QED BY <1>3, <1>4

\* A new row is in its table and nobody holds it.
LEMMA SafeNew ==
    ASSUME NEW r, r \in live', Holders(r)' = {}
    PROVE  Safe(r)'
<1>1. Cardinality(Holders(r)') = 0
  BY FS_EmptySet
<1>2. Cardinality(Numbers(r)') \in Nat
  BY SizesNext
<1>3. Cardinality(Holders(r)') <= Cardinality(Numbers(r)')
  BY <1>1, <1>2
<1> QED BY <1>3 DEF Safe

LEMMA UnusedUnheld == ASSUME Traced, NEW r \in Row \ Used PROVE Holders(r) = {}
<1>1. r # 0
  BY RecordsAssumption DEF Row
<1> QED BY <1>1 DEF Traced, CollectedHeld, Collected, Holders, Used, NoTable

\* Most steps: nobody starts to hold a row, no entry is deleted that was free, and no row
\* leaves its table.
Quiet ==
    /\ \A r \in Row : Holders(r)' \subseteq Holders(r) /\ Free(r) \subseteq Free(r)'
    /\ live \subseteq live'
    /\ \A r \in Used' \ Used : r \in live'
    /\ \A r \in Used \ live : status'[r] = status[r] /\ note'[r] = note[r]

LEMMA QuietSafe ==
    ASSUME Traced, AllSafe, Quiet PROVE AllSafe'
<1> SUFFICES ASSUME NEW r \in Used' PROVE Safe(r)'
  BY DEF AllSafe
<1>1. r \in Row
  BY DEF Used
<1>2. CASE r \in Used
  BY <1>1, <1>2, SafeQuiet DEF AllSafe, Quiet
<1>3. CASE r \notin Used
  <2>1. Holders(r)' = {} /\ r \in live'
    BY <1>1, <1>3, UnusedUnheld DEF Quiet
  <2> QED BY <2>1, SafeNew
<1> QED BY <1>2, <1>3

LEMMA QuietKept ==
    ASSUME Grows, Kept, Quiet PROVE Kept'
<1> SUFFICES ASSUME NEW r \in Used', ~ Collected(r)', r \notin live'
             PROVE  \E e \in Free(r)' : e.status = status'[r] /\ e.note = note'[r]
  BY DEF Kept
<1>1. r \in Row /\ r \in Used /\ r \notin live
  BY DEF Used, Quiet
<1>2. ~ Collected(r)
  BY <1>1, CollectedGrows
<1>3. PICK e \in Free(r) : e.status = status[r] /\ e.note = note[r]
  BY <1>1, <1>2 DEF Kept
<1> QED BY <1>1, <1>3 DEF Quiet

\* Nobody starts to hold a row.
LEMMA PutHolders ==
    ASSUME NEW w \in Process, NEW x, Put(w, x),
           x \in Collection /\ x.held # 0 => op[w] \in Collection /\ x.held = op[w].held
    PROVE  \A r \in Row : Holders(r)' \subseteq Holders(r)
<1> SUFFICES ASSUME NEW r \in Row, NEW v \in Holders(r)' PROVE v \in Holders(r)
  OBVIOUS
<1>1. v \in Process /\ op'[v] \in Collection /\ op'[v].held = r /\ r # 0
  BY RecordsAssumption DEF Holders, Row
<1> QED BY <1>1 DEF Put, Holders

\* No restore inserts a row.
LEMMA PutFree ==
    ASSUME NEW w \in Process, NEW x, Put(w, x), archive \subseteq archive',
           x \in Restore => \/ x.inserted = {}
                            \/ op[w] \in Restore /\ x.inserted = op[w].inserted
    PROVE  \A r \in Row : Free(r) \subseteq Free(r)'
<1> SUFFICES ASSUME NEW r \in Row, NEW e \in Free(r) PROVE e \in Free(r)'
  OBVIOUS
<1>1. ASSUME NEW v \in Process, op'[v] \in Restore PROVE e \notin op'[v].inserted
  BY <1>1 DEF Put, Free
<1> QED BY <1>1 DEF Free

\* An entry of a row with a new number is free.
LEMMA FreshFree ==
    ASSUME TypeOK, Traced, NEW w \in Process, NEW x, Put(w, x), x \notin Restore,
           NEW r \in Row, NEW e \in archive', e.row = r, e.copy = copies[r] + 1
    PROVE  e \in Free(r)'
<1>1. ASSUME NEW v \in Process, op'[v] \in Restore PROVE e \notin op'[v].inserted
  <2>1. op'[v] = op[v] /\ op[v] \in Restore
    BY <1>1 DEF Put
  <2>2. \A d \in op[v].inserted : d.copy <= copies[d.row]
    BY <2>1 DEF Traced, KnownHeld, Known
  <2>3. copies[r] \in Nat
    BY DEF TypeOK
  <2> QED BY <2>1, <2>2, <2>3
<1> QED BY <1>1 DEF Free

\* With it the row has one number more.
LEMMA OneMore ==
    ASSUME TypeOK, Traced, NEW r \in Row, copies[r] < MaxCopy, Free(r) \subseteq Free(r)',
           NEW e \in Free(r)', e.copy = copies[r] + 1
    PROVE  Cardinality(Numbers(r)) + 1 <= Cardinality(Numbers(r)')
<1> DEFINE c == copies[r] + 1
<1>1. c \in 1..MaxCopy /\ copies[r] \in Nat
  BY CopiesType DEF TypeOK
<1>2. c \notin Numbers(r)
  <2>1. \A d \in Free(r) : d.copy <= copies[r]
    BY DEF Free, Traced, Known
  <2> QED BY <1>1, <2>1 DEF Numbers
<1>3. Numbers(r) \cup {c} \subseteq Numbers(r)'
  BY <1>1 DEF Numbers
<1>4. Cardinality(Numbers(r) \cup {c}) = Cardinality(Numbers(r)) + 1
  BY <1>2, Sizes, FS_AddElement
<1> QED BY <1>3, <1>4, SizesNext, FS_Subset

LEMMA QuietStep ==
    ASSUME TypeOK, TypeOK', Sweeping, Traced, Grows, Ops,
           \/ Edit \/ Age
           \/ \E w \in Process :
                \/ SweepAll(w) \/ SweepTable(w) \/ ArchiveTableFails(w) \/ Select(w)
                \/ DeleteEntries(w) \/ ReadFeedback(w) \/ ReadFindings(w) \/ GCEnd(w)
                \/ FrictionRead(w) \/ FrictionAdd(w) \/ Die(w)
                \/ \E e \in op[w].todo : RestoreSkip(w, e) \/ RestoreFails(w, e)
                \/ \E r \in Row : GCClose(w, r) \/ GCWontfix(w, r)
                \/ \E stage : \E next \in {"reminders", "tasks"} : ReadTable(w, stage, next)
    PROVE  Quiet
<1> DEFINE Calm == /\ live \subseteq live'
                   /\ \A r \in Used' \ Used : r \in live'
                   /\ \A r \in Used \ live : status'[r] = status[r] /\ note'[r] = note[r]
           Same == UNCHANGED <<table, live, status, note>>
<1>1. Same => Calm
  BY DEF Used
<1>2. ASSUME Adds PROVE Calm
  <2>1. PICK r \in Row, t \in Table :
            /\ table[r] = NoTable /\ live' = live \cup {r}
            /\ \A q \in Row \ {r} : status'[q] = status[q] /\ note'[q] = note[q]
    BY <1>2 DEF Adds
  <2>2. r \notin Used
    BY <2>1 DEF Used
  <2>3. \A q \in Used \ live : status'[q] = status[q] /\ note'[q] = note[q]
    BY <2>1, <2>2 DEF Used
  <2> QED BY <1>2, <2>1, <2>3, AddsLive
<1>3. Touches => Calm
  BY DEF Touches, Used
<1>4. ASSUME Calm, UNCHANGED <<archive, op>> PROVE Quiet
  BY <1>4 DEF Quiet, Holders, Free
<1>5. ASSUME NEW w \in Process, NEW x \in Sweep \cup Friction \cup {Idle}, Put(w, x), Calm,
             archive \subseteq archive'
      PROVE  Quiet
  BY <1>5, Apart, PutHolders, PutFree DEF Quiet
<1>6. ASSUME NEW w \in Process, NEW x \in Restore, Put(w, x), Calm, archive \subseteq archive',
             x.inserted = {} \/ (op[w] \in Restore /\ x.inserted = op[w].inserted)
      PROVE  Quiet
  BY <1>6, Apart, PutHolders, PutFree DEF Quiet
<1>7. ASSUME NEW w \in Process, NEW x \in Collection, Put(w, x), Calm, archive \subseteq archive',
             x.held = 0 \/ (op[w] \in Collection /\ x.held = op[w].held)
      PROVE  Quiet
  BY <1>7, Apart, PutHolders, PutFree DEF Quiet
<1>8. CASE Edit
  BY <1>2, <1>3, <1>4, <1>8, EditEffect DEF Edited, Adds, Touches
<1>9. CASE Age
  BY <1>1, <1>4, <1>9 DEF Age
<1>10. ASSUME NEW w \in Process, SweepAll(w) \/ SweepTable(w) PROVE Quiet
  <2>1. PICK some \in SUBSET AnyTable : CountRows(w, some)
    BY <1>10, RecordsAssumption DEF SweepAll, SweepTable
  <2>2. Same /\ UNCHANGED archive
    BY <2>1 DEF CountRows
  <2>3. PICK x \in Sweep : Put(w, x)
    BY <2>1, CountRowsEffect
  <2> HIDE DEF Calm
  <2> QED BY <1>1, <1>5, <2>2, <2>3
<1>11. ASSUME NEW w \in Process,
              \/ ArchiveTableFails(w) \/ GCEnd(w) \/ Die(w)
              \/ \E e \in op[w].todo : RestoreFails(w, e)
       PROVE  Quiet
  <2>1. Same /\ UNCHANGED archive
    BY <1>11 DEF ArchiveTableFails, GCEnd, Die, RestoreFails
  <2>2. Put(w, Idle)
    BY <1>11, EndEffect
  <2> HIDE DEF Calm
  <2> QED BY <1>1, <1>5, <2>1, <2>2
<1>12. ASSUME NEW w \in Process, Select(w) PROVE Quiet
  <2>1. PICK x \in Restore : Put(w, x) /\ x.inserted = {}
    BY <1>12, SelectEffect
  <2>2. Same /\ UNCHANGED archive
    BY <1>12 DEF Select
  <2> HIDE DEF Calm
  <2> QED BY <1>1, <1>6, <2>1, <2>2
<1>13. ASSUME NEW w \in Process, NEW e \in op[w].todo, RestoreSkip(w, e) PROVE Quiet
  <2>1. op[w] \in Restore /\ \E x \in Restore : Put(w, x) /\ x.inserted = op[w].inserted
    BY <1>13, RestoreSkipEffect
  <2>2. Same /\ UNCHANGED archive
    BY <1>13 DEF RestoreSkip
  <2> HIDE DEF Calm
  <2> QED BY <1>1, <1>6, <2>1, <2>2
<1>14. ASSUME NEW w \in Process, DeleteEntries(w) PROVE Quiet
  <2>1. op[w] \in Restore
    BY <1>14, Kinds DEF DeleteEntries, Ops
  <2>2. Put(w, Idle)
    BY <1>14, EndEffect
  <2>3. Same /\ (archive' = archive \/ archive' = archive \ op[w].inserted)
    BY <1>14 DEF DeleteEntries
  <2>4. \A r \in Row : Holders(r)' \subseteq Holders(r)
    BY <2>2, Apart, PutHolders
  <2>5. ASSUME NEW r \in Row, NEW e \in Free(r) PROVE e \in Free(r)'
    <3>1. e \in archive'
      BY <2>1, <2>3 DEF Free
    <3>2. ASSUME NEW v \in Process, op'[v] \in Restore PROVE e \notin op'[v].inserted
      <4>1. v # w /\ op'[v] = op[v]
        BY <2>2, <3>2, Apart DEF Put
      <4> QED BY <3>2, <4>1 DEF Free
    <3> QED BY <3>1, <3>2 DEF Free
  <2> QED BY <1>1, <2>3, <2>4, <2>5 DEF Quiet
<1>15. ASSUME NEW w \in Process, ReadFeedback(w) PROVE Quiet
  <2>1. PICK x \in Collection : Put(w, x) /\ x.held = 0
    BY <1>15, ReadFeedbackEffect
  <2>2. Same /\ UNCHANGED archive
    BY <1>15 DEF ReadFeedback
  <2> HIDE DEF Calm
  <2> QED BY <1>1, <1>7, <2>1, <2>2
<1>16. ASSUME NEW w \in Process, op[w] \in Collection, Continues(w), Calm, UNCHANGED archive
       PROVE  Quiet
  <2>1. PICK x \in Collection : Put(w, x) /\ x.held = op[w].held
    BY <1>16 DEF Continues
  <2> HIDE DEF Calm
  <2> QED BY <1>7, <1>16, <2>1
<1>17. ASSUME NEW w \in Process, ReadFindings(w) PROVE Quiet
  BY <1>1, <1>16, <1>17, ReadFindingsEffect DEF ReadFindings
<1>18. ASSUME NEW w \in Process, NEW r \in Row, GCClose(w, r) \/ GCWontfix(w, r) PROVE Quiet
  BY <1>3, <1>16, <1>18, GCUpdateEffect DEF Touches
<1>19. ASSUME NEW w \in Process, NEW stage, NEW next \in {"reminders", "tasks"}, ReadTable(w, stage, next)
       PROVE  Quiet
  <2>1. op[w] \in Collection /\ \E x \in Collection : Put(w, x) /\ x.held = op[w].held
    BY <1>19, ReadTableEffect
  <2>2. Same /\ UNCHANGED archive
    BY <1>19 DEF ReadTable
  <2> HIDE DEF Calm
  <2> QED BY <1>1, <1>7, <2>1, <2>2
<1>20. ASSUME NEW w \in Process, FrictionRead(w) PROVE Quiet
  <2>1. PICK x \in Friction : Put(w, x)
    BY <1>20, FrictionReadEffect
  <2>2. Same /\ UNCHANGED archive
    BY <1>20 DEF FrictionRead
  <2> HIDE DEF Calm
  <2> QED BY <1>1, <1>5, <2>1, <2>2
<1>21. ASSUME NEW w \in Process, FrictionAdd(w) PROVE Quiet
  <2>1. Adds /\ \E x \in {Idle} \cup Friction : Put(w, x)
    BY <1>21, FrictionAddEffect
  <2>2. UNCHANGED archive
    BY <2>1 DEF Adds
  <2> HIDE DEF Calm
  <2> QED BY <1>2, <1>5, <2>1, <2>2
<1> QED
  BY <1>8, <1>9, <1>10, <1>11, <1>12, <1>13, <1>14, <1>15, <1>17, <1>18, <1>19, <1>20, <1>21

\* A sweep takes rows from their table and makes a new entry of each.
LEMMA ArchiveTableSafe ==
    ASSUME TypeOK, TypeOK', Sweeping, Traced, Grows, AllSafe, Kept, Ops,
           NEW w \in Process, ArchiveTable(w)
    PROVE  AllSafe' /\ Kept'
<1>1. op[w].todo # {}
  BY DEF ArchiveTable, Sweeping
<1>2. PICK x \in {Idle} \cup Sweep : Put(w, x)
  BY <1>1, ArchiveTablePut
<1>3. PICK some \in SUBSET live :
          /\ \A r \in some : copies[r] < MaxCopy
          /\ archive' = archive \cup Moved(some)
          /\ live' = live \ some
          /\ UNCHANGED <<table, status, note>>
  BY <1>1, SweepEffect DEF ArchiveTable
<1>4. \A r \in Row : Holders(r)' \subseteq Holders(r) /\ Free(r) \subseteq Free(r)'
  BY <1>2, <1>3, Apart, PutHolders, PutFree
<1>5. Used' = Used
  BY <1>3 DEF Used
<1>6. ASSUME NEW r \in some
      PROVE  /\ r \in Row
             /\ \E e \in Free(r)' : e.status = status[r] /\ e.note = note[r] /\ e.copy = copies[r] + 1
  <2>1. r \in Row /\ CopyOf(r, status[r], note[r]) \in archive'
    BY <1>3 DEF Moved, TypeOK
  <2>2. PICK e \in archive' : e = CopyOf(r, status[r], note[r])
    BY <2>1
  <2>3. e.row = r /\ e.status = status[r] /\ e.note = note[r] /\ e.copy = copies[r] + 1
    BY <2>2 DEF CopyOf
  <2>4. e \in Free(r)'
    BY <1>2, <2>1, <2>3, Apart, FreshFree
  <2> QED BY <2>1, <2>3, <2>4
<1>7. ASSUME NEW r \in Used PROVE Safe(r)'
  <2>1. r \in Row
    BY DEF Used
  <2>2. CASE r \notin some
    BY <1>3, <1>4, <1>7, <2>1, <2>2, SafeQuiet DEF AllSafe
  <2>3. CASE r \in some
    <3>1. PICK e \in Free(r)' : e.copy = copies[r] + 1
      BY <1>6, <2>3
    <3>2. Cardinality(Numbers(r)) + 1 <= Cardinality(Numbers(r)')
      BY <1>3, <1>4, <2>1, <2>3, <3>1, OneMore
    <3>3. Cardinality(Holders(r)') <= Cardinality(Holders(r))
      BY <1>4, <2>1, Easier
    <3>4. Cardinality(Holders(r)) <= Cardinality(Numbers(r))
      BY <1>3, <1>7, <2>3 DEF AllSafe, Safe
    <3>5. Cardinality(Holders(r)') + 1 <= Cardinality(Numbers(r)')
      BY <3>2, <3>3, <3>4, Sizes, SizesNext
    <3> QED BY <1>3, <2>3, <3>5 DEF Safe
  <2> QED BY <2>2, <2>3
<1>8. ASSUME NEW r \in Used, ~ Collected(r), r \notin live'
      PROVE  \E e \in Free(r)' : e.status = status[r] /\ e.note = note[r]
  <2>1. CASE r \in some
    BY <1>6, <2>1
  <2>2. CASE r \notin some
    <3>1. r \in Row /\ r \notin live
      BY <1>3, <1>8, <2>2 DEF Used
    <3>2. PICK e \in Free(r) : e.status = status[r] /\ e.note = note[r]
      BY <1>8, <3>1 DEF Kept
    <3> QED BY <1>4, <3>1, <3>2
  <2> QED BY <2>1, <2>2
<1>9. AllSafe'
  BY <1>5, <1>7 DEF AllSafe
<1>10. Kept'
  BY <1>3, <1>5, <1>8 DEF Kept, Collected
<1> QED BY <1>9, <1>10

\* A restore puts a row into its table and takes one entry.
LEMMA RestoreRowSafe ==
    ASSUME TypeOK, TypeOK', Traced, AllSafe, Kept, Ops, NEW w \in Process, NEW d, RestoreRow(w, d)
    PROVE  AllSafe' /\ Kept'
<1>1. op[w] \in Restore /\ d \in Entry
  BY RestoreRowEffect
<1>2. PICK x \in Restore : Put(w, x) /\ x.inserted = op[w].inserted \cup {d}
  BY RestoreRowEffect
<1>3. PICK r \in Row : r = d.row
  BY <1>1 DEF Entry
<1>4. /\ r \notin live /\ live' = live \cup {r} /\ UNCHANGED <<table, archive>>
      /\ \A q \in Row \ {r} : status'[q] = status[q] /\ note'[q] = note[q]
  BY <1>3 DEF RestoreRow, TypeOK
<1>5. Used' = Used
  BY <1>4 DEF Used
<1>6. \A q \in Row : Holders(q)' \subseteq Holders(q)
  BY <1>2, Apart, PutHolders
<1>7. ASSUME NEW q \in Row, NEW e \in Free(q), e # d PROVE e \in Free(q)'
  <2>1. ASSUME NEW v \in Process, op'[v] \in Restore PROVE e \notin op'[v].inserted
    BY <1>1, <1>2, <1>7, <2>1 DEF Put, Free
  <2> QED BY <1>4, <2>1 DEF Free
<1>8. \A q \in Row \ {r} : Free(q) \subseteq Free(q)'
  BY <1>3, <1>7 DEF Free
<1>9. ASSUME NEW q \in Used PROVE Safe(q)'
  <2>1. q \in Row
    BY DEF Used
  <2>2. CASE q # r
    BY <1>4, <1>6, <1>8, <2>1, <2>2, SafeQuiet DEF AllSafe
  <2>3. CASE q = r
    <3>1. Numbers(r) \ {d.copy} \subseteq Numbers(r)'
      BY <1>7 DEF Numbers
    <3>2. Cardinality(Numbers(r)) - 1 <= Cardinality(Numbers(r) \ {d.copy})
      BY Sizes, FS_RemoveElement
    <3>3. Cardinality(Numbers(r) \ {d.copy}) <= Cardinality(Numbers(r)')
      BY <3>1, SizesNext, FS_Subset
    <3>4. /\ Cardinality(Numbers(r) \ {d.copy}) \in Nat
          /\ Cardinality(Holders(r)') <= Cardinality(Holders(r))
      BY <1>6, Sizes, FS_RemoveElement, FS_Subset, FS_CardinalityType
    <3>5. Cardinality(Holders(r)) + 1 <= Cardinality(Numbers(r))
      BY <1>4, <1>9, <2>3 DEF AllSafe, Safe
    <3>6. Cardinality(Holders(r)') <= Cardinality(Numbers(r)')
      BY <3>2, <3>3, <3>4, <3>5, Sizes, SizesNext
    <3> QED BY <1>4, <2>3, <3>6 DEF Safe
  <2> QED BY <2>2, <2>3
<1>10. ASSUME NEW q \in Used, ~ Collected(q), q \notin live'
       PROVE  \E e \in Free(q)' : e.status = status'[q] /\ e.note = note'[q]
  <2>1. q \in Row /\ q \notin live /\ q # r
    BY <1>4, <1>10 DEF Used
  <2>2. PICK e \in Free(q) : e.status = status[q] /\ e.note = note[q]
    BY <1>10, <2>1 DEF Kept
  <2> QED BY <1>4, <1>8, <2>1, <2>2
<1>11. AllSafe'
  BY <1>5, <1>9 DEF AllSafe
<1>12. Kept'
  BY <1>4, <1>5, <1>10 DEF Kept, Collected
<1> QED BY <1>11, <1>12

\* A collection makes an entry of a row and holds the row.
LEMMA GCInsertSafe ==
    ASSUME TypeOK, TypeOK', Traced, Grows, AllSafe, Kept, Ops,
           NEW w \in Process, NEW p, GCInsert(w, p)
    PROVE  AllSafe' /\ Kept'
<1>1. op[w] \in Collection /\ p \in Payload /\ op[w].held = 0
  BY GCInsertEffect
<1>2. PICK x \in Collection : Put(w, x) /\ x.held = p.row
  BY GCInsertEffect
<1>3. PICK r \in Row : r = p.row
  BY <1>1 DEF Payload
<1>4. /\ copies[r] < MaxCopy
      /\ archive' = archive \cup {CopyOf(r, p.status, p.note)}
      /\ UNCHANGED <<table, live, status, note>>
  BY <1>3 DEF GCInsert, rows
<1>5. Used' = Used
  BY <1>4 DEF Used
<1>6. \A q \in Row : Free(q) \subseteq Free(q)'
  BY <1>2, <1>4, Apart, PutFree
<1>7. \A q \in Row \ {r} : Holders(q)' \subseteq Holders(q)
  BY <1>2, <1>3 DEF Put, Holders
<1>8. Holders(r)' \subseteq Holders(r) \cup {w}
  BY <1>2 DEF Put, Holders
<1>9. PICK e \in Free(r)' : e.copy = copies[r] + 1
  <2>1. PICK e \in archive' : e = CopyOf(r, p.status, p.note)
    BY <1>4
  <2>2. e.row = r /\ e.copy = copies[r] + 1
    BY <2>1 DEF CopyOf
  <2> QED BY <1>2, <2>2, Apart, FreshFree
<1>10. ASSUME NEW q \in Used PROVE Safe(q)'
  <2>1. q \in Row
    BY DEF Used
  <2>2. CASE q # r
    BY <1>4, <1>6, <1>7, <2>1, <2>2, SafeQuiet DEF AllSafe
  <2>3. CASE q = r
    <3>1. Cardinality(Numbers(r)) + 1 <= Cardinality(Numbers(r)')
      <4>1. copies[r] < MaxCopy /\ Free(r) \subseteq Free(r)'
        BY <1>4, <1>6
      <4> QED BY <1>9, <4>1, OneMore
    <3>2. /\ IsFiniteSet(Holders(r) \cup {w})
          /\ Cardinality(Holders(r) \cup {w}) <= Cardinality(Holders(r)) + 1
          /\ Cardinality(Holders(r) \cup {w}) \in Nat
      <4>1. IsFiniteSet(Holders(r)) /\ Cardinality(Holders(r)) \in Nat
        BY Sizes
      <4>2. /\ IsFiniteSet(Holders(r) \cup {w})
            /\ \/ Cardinality(Holders(r) \cup {w}) = Cardinality(Holders(r))
               \/ Cardinality(Holders(r) \cup {w}) = Cardinality(Holders(r)) + 1
        BY <4>1, FS_AddElement
      <4> QED BY <4>1, <4>2
    <3>3. Cardinality(Holders(r)') <= Cardinality(Holders(r) \cup {w})
      BY <1>8, <3>2, FS_Subset
    <3>4. CASE r \in live
      <4>1. Cardinality(Holders(r)) <= Cardinality(Numbers(r))
        BY <1>10, <2>3, <3>4 DEF AllSafe, Safe
      <4>2. Cardinality(Holders(r)') <= Cardinality(Numbers(r)')
        BY <3>1, <3>2, <3>3, <4>1, Sizes, SizesNext
      <4> QED BY <1>4, <2>3, <3>4, <4>2 DEF Safe
    <3>5. CASE r \notin live
      <4>1. Cardinality(Holders(r)) + 1 <= Cardinality(Numbers(r))
        BY <1>10, <2>3, <3>5 DEF AllSafe, Safe
      <4>2. Cardinality(Holders(r)') + 1 <= Cardinality(Numbers(r)')
        BY <3>1, <3>2, <3>3, <4>1, Sizes, SizesNext
      <4> QED BY <1>4, <2>3, <3>5, <4>2 DEF Safe
    <3> QED BY <3>4, <3>5
  <2> QED BY <2>2, <2>3
<1>11. AllSafe'
  BY <1>5, <1>10 DEF AllSafe
<1>12. Kept'
  BY <1>4, <1>5, <1>6 DEF Kept, Collected, Used
<1> QED BY <1>11, <1>12

\* It deletes the row from its table, wherever that has come from, and lets go of it.
LEMMA GCDeleteSafe ==
    ASSUME TypeOK, TypeOK', Traced, Grows, AllSafe, Kept, Ops, NEW w \in Process, GCDelete(w)
    PROVE  AllSafe' /\ Kept'
<1>1. op[w] \in Collection
  BY GCDeleteEffect
<1>2. PICK x \in Collection : Put(w, x) /\ x.held = 0
  BY GCDeleteEffect
<1>3. PICK r \in Row : r = op[w].held
  BY GCDeleteEffect
<1>4. live' = live \ {r} /\ UNCHANGED <<table, status, note, archive>>
  BY <1>3 DEF GCDelete
<1>5. Used' = Used /\ Collected(r) /\ r # 0
  BY <1>1, <1>3, <1>4, RecordsAssumption DEF Used, Traced, CollectedHeld, Row
<1>6. \A q \in Row : Free(q) \subseteq Free(q)' /\ Holders(q)' \subseteq Holders(q)
  BY <1>2, <1>4, Apart, PutFree, PutHolders
<1>7. w \in Holders(r) /\ Holders(r)' \subseteq Holders(r) \ {w}
  BY <1>1, <1>2, <1>3, <1>5, <1>6 DEF Put, Holders
<1>8. ASSUME NEW q \in Used PROVE Safe(q)'
  <2>1. q \in Row
    BY DEF Used
  <2>2. CASE q # r
    BY <1>4, <1>6, <2>1, <2>2, SafeQuiet DEF AllSafe
  <2>3. CASE q = r
    <3>1. /\ Cardinality(Holders(r) \ {w}) = Cardinality(Holders(r)) - 1
          /\ IsFiniteSet(Holders(r) \ {w})
      BY <1>7, Sizes, FS_RemoveElement
    <3>2. Cardinality(Holders(r)') <= Cardinality(Holders(r) \ {w})
      BY <1>7, <3>1, FS_Subset
    <3>3. Cardinality(Numbers(r)) <= Cardinality(Numbers(r)')
      BY <1>6, Easier
    <3>4. Cardinality(Holders(r)) <= Cardinality(Numbers(r))
      <4>1. CASE r \in live
        BY <1>8, <2>3, <4>1 DEF AllSafe, Safe
      <4>2. CASE r \notin live
        BY <1>8, <2>3, <4>2, Sizes DEF AllSafe, Safe
      <4> QED BY <4>1, <4>2
    <3>5. Cardinality(Holders(r)') + 1 <= Cardinality(Numbers(r)')
      BY <3>1, <3>2, <3>3, <3>4, Sizes, SizesNext
    <3> QED BY <1>4, <2>3, <3>5 DEF Safe
  <2> QED BY <2>2, <2>3
<1>9. AllSafe'
  BY <1>5, <1>8 DEF AllSafe
<1>10. Kept'
  BY <1>4, <1>5, <1>6 DEF Kept, Collected, Used
<1> QED BY <1>9, <1>10

LEMMA SafeStep ==
    ASSUME TypeOK, TypeOK', Sweeping, Traced, AllSafe, Kept, Next
    PROVE  AllSafe' /\ Kept'
<1>0. Ops /\ Grows
  BY GrowsStep DEF TypeOK, Ops, Holding
<1>1. Quiet => AllSafe' /\ Kept'
  BY <1>0, QuietSafe, QuietKept
<1>2. ASSUME NEW w \in Process, ArchiveTable(w) PROVE AllSafe' /\ Kept'
  BY <1>0, <1>2, ArchiveTableSafe
<1>3. ASSUME NEW w \in Process, NEW e \in op[w].todo, RestoreRow(w, e) PROVE AllSafe' /\ Kept'
  BY <1>0, <1>3, RestoreRowSafe
<1>4. ASSUME NEW w \in Process, NEW p \in op[w].todo, GCInsert(w, p) PROVE AllSafe' /\ Kept'
  BY <1>0, <1>4, GCInsertSafe
<1>5. ASSUME NEW w \in Process, GCDelete(w) PROVE AllSafe' /\ Kept'
  BY <1>0, <1>5, GCDeleteSafe
<1>6. \/ Quiet
      \/ \E w \in Process :
            \/ ArchiveTable(w) \/ GCDelete(w)
            \/ \E e \in op[w].todo : RestoreRow(w, e)
            \/ \E p \in op[w].todo : GCInsert(w, p)
  <2>1. CASE Edit \/ Age
    BY <1>0, <2>1, QuietStep
  <2>2. ASSUME NEW w \in Process, CmdArchiveRun(w) PROVE Quiet \/ ArchiveTable(w)
    BY <1>0, <2>2, QuietStep DEF CmdArchiveRun, RunHousekeeping
  <2>3. ASSUME NEW w \in Process, CmdArchiveRestore(w)
        PROVE  Quiet \/ \E e \in op[w].todo : RestoreRow(w, e)
    BY <1>0, <2>3, QuietStep DEF CmdArchiveRestore
  <2>4. ASSUME NEW w \in Process, CmdArchiveGC(w)
        PROVE  Quiet \/ GCDelete(w) \/ \E p \in op[w].todo : GCInsert(w, p)
    <3>1. CASE ReadTable(w, "update", "reminders") \/ ReadTable(w, "reminders", "tasks")
      <4>1. \E stage : \E next \in {"reminders", "tasks"} : ReadTable(w, stage, next)
        BY <3>1
      <4> QED BY <1>0, <4>1, QuietStep
    <3>2. CASE \/ ReadFeedback(w) \/ ReadFindings(w) \/ GCEnd(w)
               \/ \E r \in Row : GCClose(w, r) \/ GCWontfix(w, r)
      BY <1>0, <3>2, QuietStep
    <3> QED BY <2>4, <3>1, <3>2 DEF CmdArchiveGC
  <2>5. ASSUME NEW w \in Process, ScanFriction(w) \/ Die(w) PROVE Quiet
    BY <1>0, <2>5, QuietStep DEF ScanFriction
  <2> QED BY <2>1, <2>2, <2>3, <2>4, <2>5 DEF Next, Process
<1> QED BY <1>1, <1>2, <1>3, <1>4, <1>5, <1>6

(***************************************************************************)
(* The theorems.                                                           *)
(***************************************************************************)
Inv == TypeOK /\ Sweeping /\ Traced /\ AllSafe /\ Kept

LEMMA InitInv == ASSUME Init PROVE Inv
<1>1. TypeOK
  BY RecordsAssumption, StatusFacts DEF Init, TypeOK, Note, Row
<1>2. Used = {}
  BY DEF Init, Used
<1>3. Sweeping
  BY DEF Init, Sweeping, Idle
<1>4. Traced
  BY <1>2, Apart DEF Init, Traced
<1>5. AllSafe /\ Kept
  BY <1>2 DEF AllSafe, Kept
<1> QED BY <1>1, <1>3, <1>4, <1>5 DEF Inv

LEMMA InvNext == ASSUME Inv, [Next]_vars PROVE Inv'
<1>1. CASE Next
  <2>1. TypeOK' /\ Sweeping'
    BY <1>1, TypeStep DEF Inv
  <2>2. Traced'
    BY <1>1, TracedStep DEF Inv
  <2>3. AllSafe' /\ Kept'
    BY <1>1, <2>1, SafeStep DEF Inv
  <2> QED BY <2>1, <2>2, <2>3 DEF Inv
<1>2. CASE UNCHANGED vars
  <2>1. TypeOK' /\ Sweeping'
    BY <1>2 DEF vars, Inv, TypeOK, Sweeping
  <2>2. Traced'
    BY <1>2, <2>1, SameGrows, TracedStill DEF vars, Inv, Traced, Used
  <2>3. Quiet
    BY <1>2 DEF vars, Quiet, Holders, Free, Used
  <2>4. AllSafe' /\ Kept'
    BY <1>2, <2>3, SameGrows, QuietSafe, QuietKept DEF vars, Inv
  <2> QED BY <2>1, <2>2, <2>4 DEF Inv
<1> QED BY <1>1, <1>2

LEMMA Invariance == Spec => []Inv
BY InitInv, InvNext, PTL DEF Spec

LEMMA InvNothingLost == ASSUME Inv PROVE NothingLost
<1> SUFFICES ASSUME NEW r \in Used, r \notin live PROVE \E e \in archive : e.row = r
  BY DEF NothingLost
<1>1. Cardinality(Holders(r)) + 1 <= Cardinality(Numbers(r))
  BY DEF Inv, AllSafe, Safe
<1>2. Cardinality(Numbers(r)) # 0
  BY <1>1, Sizes
<1>3. Numbers(r) # {}
  BY <1>2, FS_EmptySet
<1> QED BY <1>3 DEF Numbers, Free

\* Every row, entry and process state has its type (internal/domain/archive and the
\* verbs on the flat tables).
THEOREM TypeCorrect == Spec => []TypeOK
BY Invariance, PTL DEF Inv

\* A row that was ever recorded is in its table or in the archive, with any number of
\* sweeps, restores and collections at once, each of which may die or fail after any
\* statement (archive.Service: Run, Restore, GC).
THEOREM NothingLostCorrect == Spec => []NothingLost
BY Invariance, InvNothingLost, PTL

\* The archive has an entry with what a row held last when it went, reminders and
\* tasks apart (archive.Service).
THEOREM LatestCorrect == Spec => []LatestCopyKept
<1>1. ASSUME Inv PROVE LatestCopyKept
  BY <1>1 DEF Inv, Kept, Collected, Free, LatestCopyKept
<1> QED BY <1>1, Invariance, PTL

(***************************************************************************)
(* The archive is the vault.                                               *)
(***************************************************************************)

\* Where a row is, with what the invariant says of rows that are not in their table.
Whereabouts ==
    [r \in Row |-> IF r \in live THEN "table" ELSE IF r \in Used THEN "archive" ELSE "nowhere"]

LEMMA WhereIs == Inv => Where = Whereabouts
<1> SUFFICES ASSUME Inv PROVE Where = Whereabouts
  OBVIOUS
<1>1. \A r \in Used : r \in live \/ \E e \in archive : e.row = r
  BY InvNothingLost DEF NothingLost
<1>2. \A e \in archive : e.row \in Used
  BY DEF Inv, Traced, Known
<1> QED BY <1>1, <1>2 DEF Where, Whereabouts

\* What a step does to the tables as a whole.
Recorded == \E r \in Row \ Used : live' = live \cup {r} /\ Used' = Used \cup {r}
Returned == \E r \in Used \ live : live' = live \cup {r} /\ Used' = Used
Shelved == \E some \in SUBSET live : live' = live \ some /\ Used' = Used
Stays == live' = live /\ Used' = Used

LEMMA AddsRecorded == ASSUME TypeOK, Adds PROVE Recorded
<1>1. PICK r \in Row, t \in Table :
          table[r] = NoTable /\ table' = [table EXCEPT ![r] = t] /\ live' = live \cup {r}
  BY DEF Adds
<1>2. t # NoTable
  BY RecordsAssumption DEF AnyTable, NoTable
<1>3. r \notin Used /\ Used' = Used \cup {r}
  BY <1>1, <1>2 DEF Used, TypeOK
<1> QED BY <1>1, <1>3 DEF Recorded

LEMMA StepKinds == ASSUME Inv, Next PROVE Recorded \/ Returned \/ Shelved \/ Stays
<1>0. TypeOK /\ Ops /\ Sweeping
  BY DEF Inv, TypeOK, Ops, Holding
<1>1. CASE Edit
  BY <1>0, <1>1, EditEffect, AddsRecorded DEF Edited, Touches, Stays, Used
<1>2. CASE Age
  BY <1>2 DEF Age, Stays, Used
<1>3. ASSUME NEW w \in Process, ArchiveTable(w) PROVE Shelved
  <2>1. op[w].todo # {}
    BY <1>0, <1>3 DEF ArchiveTable, Sweeping
  <2>2. PICK some \in SUBSET live : live' = live \ some /\ UNCHANGED table
    BY <1>0, <1>3, <2>1, SweepEffect DEF ArchiveTable
  <2> QED BY <2>2 DEF Shelved, Used
<1>4. ASSUME NEW w \in Process, NEW e \in op[w].todo, RestoreRow(w, e) PROVE Returned
  <2>1. e.row \in Used
    BY <1>0, <1>4, RestoreRowEffect DEF Inv, Traced, KnownHeld, Known
  <2> QED BY <1>4, <2>1 DEF RestoreRow, Returned, Used
<1>5. ASSUME NEW w \in Process, GCDelete(w) PROVE Shelved
  <2>1. PICK some : some = {op[w].held} \cap live
    OBVIOUS
  <2>2. some \in SUBSET live /\ live' = live \ some /\ Used' = Used
    BY <1>5, <2>1 DEF GCDelete, Used
  <2> QED BY <2>2 DEF Shelved
<1>6. ASSUME NEW w \in Process, FrictionAdd(w) PROVE Recorded
  BY <1>0, <1>6, FrictionAddEffect, AddsRecorded
<1>7. ASSUME NEW w \in Process,
             \/ SweepAll(w) \/ SweepTable(w) \/ ArchiveTableFails(w) \/ Select(w)
             \/ DeleteEntries(w) \/ ReadFeedback(w) \/ ReadFindings(w) \/ GCEnd(w)
             \/ FrictionRead(w) \/ Die(w)
             \/ \E e \in op[w].todo : RestoreSkip(w, e) \/ RestoreFails(w, e)
             \/ \E r \in Row : GCClose(w, r) \/ GCWontfix(w, r)
             \/ \E stage, next : ReadTable(w, stage, next)
             \/ \E p \in op[w].todo : GCInsert(w, p)
      PROVE  Stays
  <2>1. UNCHANGED <<live, table>>
    BY <1>7
       DEF SweepAll, SweepTable, CountRows, ArchiveTableFails, Select, DeleteEntries, ReadFeedback,
           ReadFindings, GCEnd, FrictionRead, Die, RestoreSkip, RestoreFails, GCClose, GCWontfix,
           ReadTable, GCInsert, rows
  <2> QED BY <2>1 DEF Stays, Used
<1> QED
  BY <1>1, <1>2, <1>3, <1>4, <1>5, <1>6, <1>7
     DEF Next, Process, CmdArchiveRun, RunHousekeeping, CmdArchiveRestore, CmdArchiveGC, ScanFriction

LEMMA VaultInit == ASSUME Init PROVE V!Init
BY DEF Init, V!Init, Where

LEMMA VaultStep == ASSUME Inv, Inv', [Next]_vars PROVE [V!Next]_Where
<1>1. Where = Whereabouts /\ Where' = Whereabouts'
  <2>1. (Inv => Where = Whereabouts)'
    BY WhereIs, PTL
  <2> QED BY <2>1, WhereIs
<1>2. live \subseteq Used /\ Used \subseteq Row
  BY DEF Inv, Traced, Used
<1>3. CASE UNCHANGED vars
  <2>1. Where' = Where
    BY <1>3 DEF vars, Where
  <2> QED BY <2>1
<1>4. CASE Recorded
  <2>1. PICK r \in Row \ Used : live' = live \cup {r} /\ Used' = Used \cup {r}
    BY <1>4 DEF Recorded
  <2>2. Where[r] = "nowhere" /\ Where' = [Where EXCEPT ![r] = "table"]
    BY <1>1, <1>2, <2>1 DEF Whereabouts
  <2> QED BY <2>2 DEF V!Next, V!Record
<1>5. CASE Returned
  <2>1. PICK r \in Used \ live : live' = live \cup {r} /\ Used' = Used
    BY <1>5 DEF Returned
  <2>2. r \in Row /\ Where[r] = "archive" /\ Where' = [Where EXCEPT ![r] = "table"]
    BY <1>1, <1>2, <2>1 DEF Whereabouts
  <2> QED BY <2>2 DEF V!Next, V!Return
<1>6. CASE Shelved
  <2>1. PICK some \in SUBSET live : live' = live \ some /\ Used' = Used
    BY <1>6 DEF Shelved
  <2>2. /\ some \in SUBSET Row
        /\ \A r \in some : Where[r] = "table"
        /\ Where' = [r \in Row |-> IF r \in some THEN "archive" ELSE Where[r]]
    BY <1>1, <1>2, <2>1 DEF Whereabouts
  <2> QED BY <2>2 DEF V!Next, V!Shelve
<1>7. CASE Stays
  <2>1. Whereabouts' = Whereabouts
    BY <1>7 DEF Stays, Whereabouts
  <2> QED BY <1>1, <2>1
<1> QED BY <1>3, <1>4, <1>5, <1>6, <1>7, StepKinds

\* Whatever the processes do to the tables and the archive, seen from outside a row is
\* recorded once, and then moves between its table and the archive (archive.Service).
THEOREM Refinement == Spec => ImplementsVault
BY Invariance, VaultInit, VaultStep, PTL DEF Spec, ImplementsVault, V!Spec
=============================================================================
