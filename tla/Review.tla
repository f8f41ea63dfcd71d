-------------------------------- MODULE Review --------------------------------
(***************************************************************************)
(* Review runs and findings (internal/domain/review, the review verbs of   *)
(* internal/cli and the heuristics run of internal/domain/grasscutter).    *)
(*                                                                         *)
(* Several agents review at once.  Nothing here is a transaction: adding a *)
(* finding reads the run, counts the findings of the file and inserts;     *)
(* finishing reads the run, counts the files and updates.  An agent may    *)
(* die, or fail and return, between any two statements.  The archive is    *)
(* here as what its sweeps take away and its restore brings back; Records  *)
(* has both in full.                                                       *)
(***************************************************************************)
EXTENDS Integers, FiniteSets

CONSTANTS
    Run,          \* run ids
    File,         \* paths findings are about
    NoFile,       \* a finding without --file
    Agent,        \* processes
    Cap,          \* tierCap of the run's tier
    MaxFinding    \* bound: findings ever inserted

ASSUME ReviewAssumption ==
    /\ IsFiniteSet(Agent) /\ Agent # {}
    /\ Cap \in Nat \ {0}
    /\ MaxFinding \in Nat
    /\ NoFile \notin File

VARIABLES
    run,         \* review_runs: "none" before the insert, "open" while finished_at is NULL
    finding,     \* review_findings: how many rows of each kind
    stored,      \* archive_entries: findings of a run and file that are not in the table
    made,        \* findings added so far
    op,          \* what each agent holds between two statements
    late,        \* history: findings each run got after it was finished
    heuristic,   \* history: runs opened by suggest-cuts
    abandoned    \* history: those whose process died or failed

vars == <<run, finding, stored, made, op, late, heuristic, abandoned>>

RunStatus == {"none", "open", "finished", "archived"}

\* What tells findings apart here, so the table is a bag of these.  uncapped is history:
\* inserted by addFindingUncapped or brought back by the archive's restore, neither of
\* which counts.
Finding ==
    [run : Run, file : File \cup {NoFile}, status : {"open", "retired"}, uncapped : BOOLEAN]

Filed == Run \X (File \cup {NoFile})

\* An id may be given in full or as a prefix that matches one run only; one that
\* matches none or several is an error of every verb.
Given == {"id", "prefix"}

Idle == [verb |-> "idle"]
Adder == {"finding", "import", "force", "cut"}
AddStep == {"next", "check", "count", "insert", "insertForced"}
FinishStep == {"finish", "update"}
Busy ==
    [verb : Adder \cup {"finish"}, run : Run, given : Given,
     file : File \cup {NoFile}, step : AddStep \cup FinishStep]

TypeOK ==
    /\ run \in [Run -> RunStatus]
    /\ finding \in [Finding -> Nat]
    /\ stored \in [Filed -> Nat]
    /\ made \in 0..MaxFinding
    /\ op \in [Agent -> {Idle} \cup Busy]
    /\ late \in [Run -> Nat]
    /\ heuristic \subseteq Run
    /\ abandoned \subseteq Run

Init ==
    /\ run = [r \in Run |-> "none"]
    /\ finding = [x \in Finding |-> 0]
    /\ stored = [k \in Filed |-> 0]
    /\ made = 0
    /\ op = [a \in Agent |-> Idle]
    /\ late = [r \in Run |-> 0]
    /\ heuristic = {}
    /\ abandoned = {}

histories == <<late, heuristic, abandoned>>
ledger == <<run, finding, stored, made>>

At(a, step) == op[a] # Idle /\ op[a].step = step
Goto(a, step) == op' = [op EXCEPT ![a].step = step]
Return(a) == op' = [op EXCEPT ![a] = Idle]

-----------------------------------------------------------------------------
(* Opening a run, and what the verbs begin with.                           *)

StartRun(r) ==
    /\ run[r] = "none"
    /\ run' = [run EXCEPT ![r] = "open"]
    /\ UNCHANGED <<finding, stored, made>>

Begin(a, verb, r, given, f, step) ==
    /\ op[a] = Idle
    /\ op' = [op EXCEPT ![a] =
           [verb |-> verb, run |-> r, given |-> given, file |-> f, step |-> step]]

CmdReviewStart(a, r) == op[a] = Idle /\ StartRun(r) /\ UNCHANGED <<op, histories>>

CmdReviewFinding(a, r) ==
    /\ \E given \in Given, f \in File \cup {NoFile} : Begin(a, "finding", r, given, f, "check")
    /\ UNCHANGED <<ledger, histories>>

CmdReviewImport(a, r) ==
    /\ \E given \in Given, verb \in {"import", "force"} :
           Begin(a, verb, r, given, NoFile, "next")
    /\ UNCHANGED <<ledger, histories>>

CmdReviewFinish(a, r) ==
    /\ \E given \in Given : Begin(a, "finish", r, given, NoFile, "finish")
    /\ UNCHANGED <<ledger, histories>>

\* suggest-cuts without --dry-run: grasscutter.Run opens a run of its own.
CmdInventorySuggestCuts(a, r) ==
    /\ StartRun(r)
    /\ Begin(a, "cut", r, "id", NoFile, "next")
    /\ heuristic' = heuristic \cup {r}
    /\ UNCHANGED <<late, abandoned>>

-----------------------------------------------------------------------------
(* Adding findings.  A Mutated... operator is no part of the model: it is  *)
(* a defect the code could have in the operator after it.                  *)

\* The loops of ImportFindings and grasscutter.Run take their next item, or end; the
\* latter finishes its run.
NextItem(a) ==
    /\ At(a, "next")
    /\ \E f \in File \cup {NoFile} : op' = [op EXCEPT ![a].file = f, ![a].step = "check"]
    /\ UNCHANGED <<ledger, histories>>

EndItems(a) ==
    /\ At(a, "next")
    /\ IF op[a].verb = "cut" THEN Goto(a, "finish") ELSE Return(a)
    /\ UNCHANGED <<ledger, histories>>

\* Where each caller of AddFinding goes after the insert or ErrCapExceeded, and where
\* after another error; ErrRunNotFound and ErrRunFinished end an import.
GoOn(a) == IF op[a].verb = "finding" THEN Return(a) ELSE Goto(a, "next")

\* Defect: the heuristics return on an error without finishing their run.
MutatedFail(a, fatal) ==
    IF op[a].verb \in {"finding", "cut"} \/ fatal THEN Return(a) ELSE Goto(a, "next")

Fail(a, fatal) ==
    IF op[a].verb = "cut" THEN Goto(a, "finish")
    ELSE IF op[a].verb = "finding" \/ fatal THEN Return(a) ELSE Goto(a, "next")

\* Defect: a finished run is as good as an open one.
MutatedGetRun(a) ==
    /\ At(a, "check")
    /\ IF run[op[a].run] \in {"open", "finished"} THEN Goto(a, "count") ELSE Fail(a, TRUE)
    /\ UNCHANGED <<ledger, histories>>

GetRun(a) ==
    /\ At(a, "check")
    /\ IF run[op[a].run] = "open" THEN Goto(a, "count") ELSE Fail(a, TRUE)
    /\ UNCHANGED <<ledger, histories>>

\* A principle the tier does not have, or another word not allowed.
ValidateFinding(a) ==
    /\ At(a, "count")
    /\ Fail(a, FALSE)
    /\ UNCHANGED <<ledger, histories>>

\* How many findings of a file are in a run, the uncapped ones apart.
Rows(r, f, uncapped) ==
    finding[[run |-> r, file |-> f, status |-> "open", uncapped |-> uncapped]] +
    finding[[run |-> r, file |-> f, status |-> "retired", uncapped |-> uncapped]]

\* WHERE run_id = ? AND file_path = ?: with the words as given, so a prefix counts
\* nothing, and neither does a finding without a file (= NULL).
Existing(a) ==
    IF op[a].given = "prefix" \/ op[a].file = NoFile THEN 0
    ELSE Rows(op[a].run, op[a].file, FALSE) + Rows(op[a].run, op[a].file, TRUE)

\* Defect: one finding too many.
MutatedCountFindings(a) ==
    /\ At(a, "count")
    /\ IF Existing(a) <= Cap THEN Goto(a, "insert")
       ELSE IF op[a].verb = "force" THEN Goto(a, "insertForced") ELSE GoOn(a)
    /\ UNCHANGED <<ledger, histories>>

CountFindings(a) ==
    /\ At(a, "count")
    /\ IF Existing(a) < Cap THEN Goto(a, "insert")
       ELSE IF op[a].verb = "force" THEN Goto(a, "insertForced") ELSE GoOn(a)
    /\ UNCHANGED <<ledger, histories>>

\* FOREIGN KEY (run_id): a prefix names no run, and an archived run is gone.
RunExists(a) == op[a].given = "id" /\ run[op[a].run] \in {"open", "finished"}

NewFinding(a, uncapped) ==
    [run |-> op[a].run, file |-> op[a].file, status |-> "open", uncapped |-> uncapped]

Insert(a, new) ==
    /\ made < MaxFinding
    /\ made' = made + 1
    /\ finding' = [finding EXCEPT ![new] = @ + 1]
    /\ late' = IF run[op[a].run] = "finished" THEN [late EXCEPT ![op[a].run] = @ + 1] ELSE late
    /\ UNCHANGED <<run, stored, heuristic, abandoned>>

InsertFinding(a) ==
    /\ At(a, "insert")
    /\ RunExists(a)
    /\ Insert(a, NewFinding(a, FALSE))
    /\ GoOn(a)

\* addFindingUncapped does not look at finished_at again.
AddFindingUncapped(a) ==
    /\ At(a, "insertForced")
    /\ RunExists(a)
    /\ Insert(a, NewFinding(a, TRUE))
    /\ GoOn(a)

InsertFails(a) ==
    /\ At(a, "insert") \/ At(a, "insertForced")
    /\ ~ RunExists(a)
    /\ Fail(a, FALSE)
    /\ UNCHANGED <<ledger, histories>>

AddFinding(a) == GetRun(a) \/ ValidateFinding(a) \/ CountFindings(a) \/ InsertFinding(a)

-----------------------------------------------------------------------------
(* Finishing.                                                              *)

FinishRead(a) ==
    /\ At(a, "finish")
    /\ IF run[op[a].run] = "open" THEN Goto(a, "update") ELSE Return(a)
    /\ UNCHANGED <<ledger, histories>>

\* The count of distinct paths for files_reviewed, which no verb reads for a decision,
\* comes in between.
\* UPDATE ... WHERE id = ?, with the id as given; success whatever it hits.
FinishUpdate(a) ==
    /\ At(a, "update")
    /\ run' = IF RunExists(a) THEN [run EXCEPT ![op[a].run] = "finished"] ELSE run
    /\ Return(a)
    /\ UNCHANGED <<finding, stored, made, late, heuristic, abandoned>>

FinishRun(a) == FinishRead(a) \/ FinishUpdate(a)

-----------------------------------------------------------------------------
(* Single statements.                                                      *)

\* Defect: the row is not looked up first.
MutatedResolveFinding(x) ==
    /\ \E st \in {"open", "retired"} \ {x.status} :
        finding' = [finding EXCEPT ![x] = @ - 1, ![[x EXCEPT !.status = st]] = @ + 1]
    /\ UNCHANGED <<run, stored, made, op, histories>>

\* Any status can follow any other.
ResolveFinding(x) ==
    /\ finding[x] > 0
    /\ \E st \in {"open", "retired"} \ {x.status} :
        finding' = [finding EXCEPT ![x] = @ - 1, ![[x EXCEPT !.status = st]] = @ + 1]
    /\ UNCHANGED <<run, stored, made, op, histories>>

Present == {x \in Finding : finding[x] > 0}

Retired(k, uncapped) ==
    finding[[run |-> k[1], file |-> k[2], status |-> "retired", uncapped |-> uncapped]]

\* The sweep takes the findings that are no longer open.
ArchiveFindings ==
    /\ finding' = [x \in Finding |-> IF x.status = "open" THEN finding[x] ELSE 0]
    /\ stored' = [k \in Filed |->
           stored[k] + Retired(k, FALSE) + Retired(k, TRUE)]
    /\ UNCHANGED <<run, made, op, histories>>

\* The runs that are finished and have no open finding; with any finding left the
\* foreign key rolls the sweep back.
ArchiveRuns ==
    /\ LET due == {r \in Run : /\ run[r] = "finished"
                               /\ \A x \in Present : x.run = r => x.status # "open"}
       IN  /\ \A x \in Present : x.run \notin due
           /\ run' = [r \in Run |-> IF r \in due THEN "archived" ELSE run[r]]
    /\ UNCHANGED <<finding, stored, made, op, histories>>

\* archive restore inserts the rows it has chosen one by one, as they were when they
\* were swept; nothing counts them.  Without its run the row is refused.
RestoreFinding(k) ==
    /\ stored[k] > 0
    /\ run[k[1]] \in {"open", "finished"}
    /\ stored' = [stored EXCEPT ![k] = @ - 1]
    /\ finding' = [finding EXCEPT
           ![[run |-> k[1], file |-> k[2], status |-> "retired", uncapped |-> TRUE]] = @ + 1]
    /\ UNCHANGED <<run, made, op, histories>>

RestoreRun(r) ==
    /\ run[r] = "archived"
    /\ run' = [run EXCEPT ![r] = "finished"]
    /\ UNCHANGED <<finding, stored, made, op, histories>>

\* The process is killed, or a statement fails and the verb returns.
Die(a) ==
    /\ op[a] # Idle
    /\ Return(a)
    /\ abandoned' = IF op[a].verb = "cut" THEN abandoned \cup {op[a].run} ELSE abandoned
    /\ UNCHANGED <<ledger, late, heuristic>>

-----------------------------------------------------------------------------
AgentStep(a) ==
    \/ \E r \in Run :
        \/ CmdReviewStart(a, r) \/ CmdReviewFinding(a, r) \/ CmdReviewImport(a, r)
        \/ CmdReviewFinish(a, r) \/ CmdInventorySuggestCuts(a, r)
    \/ NextItem(a) \/ EndItems(a) \/ AddFinding(a)
    \/ AddFindingUncapped(a) \/ InsertFails(a) \/ FinishRun(a) \/ Die(a)

Next ==
    \/ \E a \in Agent : AgentStep(a)
    \/ \E x \in Finding : ResolveFinding(x)
    \/ ArchiveFindings \/ ArchiveRuns
    \/ \E k \in Filed : RestoreFinding(k)
    \/ \E r \in Run : RestoreRun(r)

Spec == Init /\ [][Next]_vars
-----------------------------------------------------------------------------
(* Properties.                                                             *)

\* The count and the insert of AddFinding are two statements (service.go:217, :235), so
\* the cap is not exact; but the findings that it let in exceed it by at most one for
\* each other agent, however often they try, whatever --force-cap adds and whatever the
\* archive takes away and brings back, which goes past the cap (archive/service.go:673).
CapBounded ==
    \A r \in Run, f \in File : Rows(r, f, FALSE) <= Cap + Cardinality(Agent) - 1

\* AddFinding has looked at finished_at before it inserts: a finished run still gets a
\* finding from every agent on its way, none of them twice, imports included, and none
\* from the agent that finished it.  What the archive puts back was added before.
LateBounded == \A r \in Run : late[r] <= Cardinality(Agent) - 1

\* A run that suggest-cuts opened does not stay open behind it: an error in the middle,
\* another agent's finish or the archive still lead to a finished run, unless the
\* process died or a statement failed (grasscutter/run.go:66-80).
HeuristicRunsEnd ==
    \A r \in heuristic :
        run[r] = "open" =>
            r \in abandoned \/ \E a \in Agent : op[a] # Idle /\ op[a].verb = "cut" /\ op[a].run = r
=============================================================================
