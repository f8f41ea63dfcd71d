---------------------------- MODULE Verification ----------------------------
(***************************************************************************)
(* The verification ledger (internal/domain/verification): outcomes of     *)
(* test commands with the inventory rows they ran over, and the question   *)
(* whether an earlier pass may be reused.  It composes the runs with the   *)
(* inventory, whose scans go on while runs are recorded.                   *)
(*                                                                         *)
(* `verify record` is one process that inserts the run, reads the inputs,  *)
(* inserts them row by row and finishes the run, with no transaction       *)
(* around it; it may die between any two statements.  All runs are of one  *)
(* command: runs of different commands never meet.                         *)
(***************************************************************************)
EXTENDS Inventory, FiniteSets

CONSTANTS
    Run,           \* runs, each with the process that records it
    Broad,         \* paths whose role is fixture, config, dependency or tooling
    CandidateLimit, \* runs that findLatestRun looks at
    MaxDismissals  \* bound: runs dismissed

ASSUME VerificationAssumption ==
    /\ Broad \subseteq File
    /\ IsFiniteSet(Run)
    /\ CandidateLimit \in Nat
    /\ MaxDismissals \in Nat

VARIABLES
    run,       \* verification_runs, with the progress of its recorder
    inputs,    \* verification_inputs: the rows of each run
    collected  \* what the recorder of each run read from repo_files

runVars == <<run, inputs, collected>>
vars == <<inventoryVars, runVars>>

\* A scope of "." covers every row of repo_files, another one those under its paths.
Scope == {"full", "sub"}
InScope(scope) == IF scope = "full" THEN File ELSE Sub

Status == {"pending", "passed", "failed"}
Input == File \X Hash

\* open: inserted, no inputs read; adding: between two inputs; finished: UPDATE done
\* and failures not yet replaced; closed: the command has ended or died.
RunRow == [step : {"none", "open", "adding", "finished", "closed"}, scope : Scope,
           status : Status, startedAt : Nat, finishedAt : Nat, failures : BOOLEAN,
           dismissed : BOOLEAN]

NoRun == [step |-> "none", scope |-> "full", status |-> "pending", startedAt |-> 0,
          finishedAt |-> 0, failures |-> FALSE, dismissed |-> FALSE]

TypeOK ==
    /\ InventoryTypeOK
    /\ run \in [Run -> RunRow]
    /\ inputs \in [Run -> SUBSET Input]
    /\ collected \in [Run -> SUBSET Input]

Init ==
    /\ InventoryInit
    /\ run = [r \in Run |-> NoRun]
    /\ inputs = [r \in Run |-> {}]
    /\ collected = [r \in Run |-> {}]

Recorded(r) == run[r].step # "none"
Finished(r) == run[r].finishedAt # 0

-----------------------------------------------------------------------------
(* A Mutated... operator is no part of the model: it is a defect the code   *)
(* could have in the operator after it, which a property must detect.      *)

\* Defect: files without a row become inputs as well.
MutatedCollectInputs(scope) == {<<f, repoFiles[f]>> : f \in InScope(scope)}

\* CollectInputsForScope: the rows of repo_files in a scope, by one SELECT.
CollectInputs(scope) ==
    {<<f, repoFiles[f]>> : f \in {g \in InScope(scope) : repoFiles[g] # Absent}}

RecordRun(r, scope, status) ==
    /\ run[r].step = "none"
    /\ starts < MaxStarts
    /\ starts' = starts + 1
    /\ clock' = clock + 1
    /\ run' = [run EXCEPT ![r] = [NoRun EXCEPT !.step = "open", !.scope = scope,
                                     !.status = status, !.startedAt = clock + 1]]
    /\ UNCHANGED <<disk, repoFiles, events, scan, edits, inputs, collected>>

\* Without --inputs, whose triples are taken as given and left out here.
ResolveInputs(r) ==
    /\ run[r].step = "open"
    /\ collected' = [collected EXCEPT ![r] = CollectInputs(run[r].scope)]
    /\ run' = [run EXCEPT ![r].step = "adding"]
    /\ UNCHANGED <<inventoryVars, inputs>>

\* AddInputs inserts one row after the other, each in a statement of its own.
AddInput(r, i) ==
    /\ run[r].step = "adding"
    /\ i \in collected[r] \ inputs[r]
    /\ inputs' = [inputs EXCEPT ![r] = @ \cup {i}]
    /\ UNCHANGED <<inventoryVars, run, collected>>

FinishRun(r) ==
    /\ run[r].step = "adding"
    /\ inputs[r] = collected[r]
    /\ clock' = clock + 1
    /\ run' = [run EXCEPT ![r].finishedAt = clock + 1,
           ![r].step = IF run[r].status = "failed" THEN "finished" ELSE "closed"]
    /\ UNCHANGED <<disk, repoFiles, events, scan, edits, starts, inputs, collected>>

\* The failures of a failed run are parsed and inserted after it has been finished.
ReplaceFailures(r) ==
    /\ run[r].step = "finished"
    /\ run' = [run EXCEPT ![r].failures = TRUE, ![r].step = "closed"]
    /\ UNCHANGED <<inventoryVars, inputs, collected>>

\* The recorder dies or a statement fails; without --finished the command ends once
\* the inputs are in.  What it has written stays.
EndRecord(r) ==
    /\ run[r].step \in {"open", "adding", "finished"}
    /\ run' = [run EXCEPT ![r].step = "closed"]
    /\ UNCHANGED <<inventoryVars, inputs, collected>>

Dismiss(r) ==
    /\ Recorded(r)
    /\ ~ run[r].dismissed
    /\ Cardinality({q \in Run : run[q].dismissed}) < MaxDismissals
    /\ run' = [run EXCEPT ![r].dismissed = TRUE]
    /\ UNCHANGED <<inventoryVars, inputs, collected>>

InventoryStep == InventoryNext /\ UNCHANGED runVars

Next ==
    \/ InventoryStep
    \/ \E r \in Run :
        \/ \E scope \in Scope, status \in Status : RecordRun(r, scope, status)
        \/ ResolveInputs(r)
        \/ \E i \in collected[r] : AddInput(r, i)
        \/ FinishRun(r)
        \/ ReplaceFailures(r)
        \/ EndRecord(r)
        \/ Dismiss(r)

Spec == Init /\ [][Next]_vars

-----------------------------------------------------------------------------
(* The reuse decision, as a query would find it between two steps.         *)

\* Defect: runs are ordered by their start.
MutatedStamped(r) == run[r].startedAt

\* ORDER BY COALESCE(finished_at, started_at, created_at) DESC
Stamped(r) == IF Finished(r) THEN run[r].finishedAt ELSE run[r].startedAt

OfScope(r, scope) == Recorded(r) /\ run[r].scope = scope

\* LIMIT: fewer than CandidateLimit runs of the scope are newer.
Candidate(r, scope) ==
    /\ OfScope(r, scope)
    /\ Cardinality({q \in Run : OfScope(q, scope) /\ Stamped(q) > Stamped(r)})
          < CandidateLimit

\* Defect: the sizes of the two maps are not compared.
MutatedMatches(r, scope, expected) == inputs[r] \subseteq expected /\ Candidate(r, scope)

Matches(r, scope, expected) == inputs[r] = expected /\ Candidate(r, scope)

\* findLatestRun: the newest candidate with exactly the expected inputs.
IsLatest(r, scope, expected) ==
    /\ Matches(r, scope, expected)
    /\ \A q \in Run : Stamped(q) > Stamped(r) => ~ Matches(q, scope, expected)

LaterEvents(r) == {e \in events : e.createdAt > Stamped(r)}

\* EvaluateFreshness: the inputs are as recorded, and of the later events on other
\* files only those on broad ones are passed over, and only by a run of some paths.
StillFresh(r) ==
    /\ inputs[r] # {}
    /\ \A i \in inputs[r] : repoFiles[i[1]] = i[2]
    /\ \A e \in LaterEvents(r) :
        \/ \E i \in inputs[r] : i[1] = e.path
        \/ e.path \in Broad /\ run[r].scope # "full"

\* EvaluateReuse: a pass is reused when its inputs are fresh and no event is later.
EvaluateReuse(r, scope, expected) ==
    /\ run[r].status = "passed"
    /\ IsLatest(r, scope, expected)
    /\ StillFresh(r)
    /\ LaterEvents(r) = {}

\* `verify query` offers r for reuse: it asks with the inputs the scope has now.
Reused(r, scope) == EvaluateReuse(r, scope, CollectInputs(scope))

\* The hub's snapshot: the run of any scope that finished last passed and is fresh.
HubFresh(r) ==
    /\ Finished(r)
    /\ \A q \in Run : run[q].finishedAt <= run[r].finishedAt
    /\ run[r].status = "passed"
    /\ StillFresh(r)

-----------------------------------------------------------------------------
(* Properties                                                              *)

\* A pass that a query offers for reuse was recorded, when its recorder finished,
\* over exactly the rows the scope has now: no file is new, gone or different, whatever
\* scans did while the recorder was still inserting (service.go:126, :542).
\* A recorder that died can have left fewer inputs than it had read; hence Finished.
ReuseCoversInventory ==
    \A r \in Run, scope \in Scope :
        Finished(r) /\ Reused(r, scope) => collected[r] = CollectInputs(scope)

\* A pass is not offered over the head of a failure: when another finished run of the
\* scope failed later, over the rows the scope has now, the query does not answer with
\* the older pass (service.go:518), though each run reaches the ledger in many pieces.
FailureHeard ==
    \A q, r \in Run, scope \in Scope :
        /\ run[q].status = "failed" /\ run[q].scope = scope
        /\ Finished(q) /\ run[q].finishedAt > Stamped(r)
        /\ Reused(r, scope)
        => collected[q] # CollectInputs(scope)

\* A row of repo_files changes together with an event that says what it changed to.  Scans
\* are not serialised (inventory/service.go:49 reads the rows, :113 begins to write), so one
\* that overlaps another can change a row silently, but only by taking it back to what
\* it had read itself: what the other scan made of the row is undone, and no event says so.
ChangesRecorded ==
    [][\A f \in File : repoFiles'[f] # repoFiles[f] =>
          \/ \E e \in events' \ events : e.path = f /\ e.hash = repoFiles'[f]
          \/ \E s \in Scanner :
                /\ scan[s].step = "compared" /\ scan'[s] = Idle
                /\ repoFiles'[f] = scan[s].existing[f]]_vars

\* SPEC.md:242 lets a pass count only while no file of a broad role outside its inputs
\* has changed since it finished.  The hub's verdict passes over exactly those files
\* when the run was of some paths (service.go:350).
BroadChangeIsStale ==
    \A r \in Run : HubFresh(r) =>
        \A e \in LaterEvents(r) : e.path \in Broad => \E i \in inputs[r] : i[1] = e.path
=============================================================================
