------------------------- MODULE VerificationProofs -------------------------
(***************************************************************************)
(* Theorems about Verification and the Inventory it composes, for any      *)
(* number of files, scanners and runs: types, what a reused pass covers,   *)
(* and that no change of a row goes unrecorded but one that is undone.      *)
(***************************************************************************)
EXTENDS Verification, FiniteSetTheorems, TLAPS

(***************************************************************************)
(* Types.                                                                  *)
(***************************************************************************)
LEMMA HashOfType == \A content \in Content : HashOf(content) \in Hash
BY DEF HashOf, Content, Hash

LEMMA ScanRead ==
    ASSUME InventoryTypeOK, NEW s \in Scanner, scan[s].step # "idle"
    PROVE  scan[s] \in Scan
BY DEF InventoryTypeOK, Idle

LEMMA WrittenType ==
    ASSUME InventoryTypeOK, NEW o \in Scan
    PROVE  Written(o) \in Listing
BY DEF InventoryTypeOK, Scan, Listing, Written, Added, Seen, Removed

LEMMA LoggedType ==
    ASSUME NEW o \in Scan
    PROVE  LoggedEvents(o) \subseteq Event
BY DEF Scan, Listing, LoggedEvents, Changed, Event

LEMMA CollectType ==
    ASSUME InventoryTypeOK, NEW scope \in Scope
    PROVE  CollectInputs(scope) \in SUBSET Input
BY InventoryAssumption DEF InventoryTypeOK, Listing, CollectInputs, InScope, Input

LEMMA InitTypes == Init => TypeOK
<1> SUFFICES ASSUME Init PROVE TypeOK
  OBVIOUS
<1> USE DEF Init, InventoryInit
<1>1. repoFiles \in Listing
  BY InventoryAssumption, HashOfType DEF Listing
<1>2. events \subseteq Event
  BY InventoryAssumption, HashOfType DEF Event
<1>3. scan \in [Scanner -> {Idle} \cup Scan]
  OBVIOUS
<1>4. edits \in 0..MaxEdits /\ starts \in 0..MaxStarts /\ clock \in Nat
  BY InventoryAssumption
<1>5. NoRun \in RunRow
  BY DEF NoRun, RunRow, Scope, Status
<1> QED BY <1>1, <1>2, <1>3, <1>4, <1>5 DEF TypeOK, InventoryTypeOK

LEMMA InventoryTypes == InventoryTypeOK /\ InventoryNext => InventoryTypeOK'
<1> SUFFICES ASSUME InventoryTypeOK, InventoryNext PROVE InventoryTypeOK'
  OBVIOUS
<1>1. ASSUME NEW f \in File, NEW content \in Content \cup {Absent}, Edit(f, content)
      PROVE  InventoryTypeOK'
  BY <1>1, InventoryAssumption DEF Edit, InventoryTypeOK
<1>2. ASSUME NEW s \in Scanner, NEW paths \in ScanPaths, ScanInventory(s, paths)
      PROVE  InventoryTypeOK'
  <2> DEFINE records == [f \in File |-> IF f \in paths /\ disk[f] # Absent
                                        THEN HashOf(disk[f]) ELSE Absent]
  <2>1. records \in Listing /\ Nothing \in Listing
    BY HashOfType DEF InventoryTypeOK, Listing, Nothing
  <2>2. paths \in SUBSET File
    BY InventoryAssumption DEF ScanPaths
  <2>3. [step |-> "read", paths |-> paths, at |-> 0, existing |-> Nothing,
         records |-> records] \in Scan
    BY <2>1, <2>2 DEF Scan
  <2>4. scan' \in [Scanner -> {Idle} \cup Scan]
    BY <1>2, <2>3 DEF ScanInventory, InventoryTypeOK
  <2>5. starts' \in 0..MaxStarts
    BY <1>2, InventoryAssumption DEF ScanInventory, InventoryTypeOK
  <2> QED BY <1>2, <2>4, <2>5 DEF ScanInventory, InventoryTypeOK
<1>3. ASSUME NEW s \in Scanner, Stamp(s)
      PROVE  InventoryTypeOK'
  <2>1. scan[s] \in Scan
    BY <1>3, ScanRead DEF Stamp
  <2>c. clock + 1 \in Nat
    BY DEF InventoryTypeOK
  <2>2. [scan[s] EXCEPT !.step = "stamped", !.at = clock + 1] \in Scan
    BY <2>1, <2>c DEF Scan
  <2>3. scan' \in [Scanner -> {Idle} \cup Scan]
    BY <1>3, <2>2 DEF Stamp, InventoryTypeOK
  <2> QED BY <1>3, <2>3 DEF Stamp, InventoryTypeOK
<1>4. ASSUME NEW s \in Scanner, ReadExisting(s)
      PROVE  InventoryTypeOK'
  <2>1. scan[s] \in Scan
    BY <1>4, ScanRead DEF ReadExisting
  <2>2. [scan[s] EXCEPT !.step = "compared", !.existing = repoFiles] \in Scan
    BY <2>1 DEF Scan, InventoryTypeOK
  <2>3. scan' \in [Scanner -> {Idle} \cup Scan]
    BY <1>4, <2>2 DEF ReadExisting, InventoryTypeOK
  <2> QED BY <1>4, <2>3 DEF ReadExisting, InventoryTypeOK
<1>5. ASSUME NEW s \in Scanner, CommitScan(s)
      PROVE  InventoryTypeOK'
  <2>1. scan[s] \in Scan
    BY <1>5, ScanRead DEF CommitScan
  <2>2. repoFiles' \in Listing /\ events' \subseteq Event
    BY <1>5, <2>1, WrittenType, LoggedType DEF CommitScan, InventoryTypeOK
  <2>3. scan' \in [Scanner -> {Idle} \cup Scan]
    BY <1>5 DEF CommitScan, InventoryTypeOK
  <2> QED BY <1>5, <2>2, <2>3 DEF CommitScan, InventoryTypeOK
<1>6. ASSUME NEW s \in Scanner, GiveUp(s)
      PROVE  InventoryTypeOK'
  BY <1>6 DEF GiveUp, InventoryTypeOK
<1> QED BY <1>1, <1>2, <1>3, <1>4, <1>5, <1>6 DEF InventoryNext

(***************************************************************************)
(* A run's row after any step of its recorder.                             *)
(***************************************************************************)
LEMMA RunTypes ==
    ASSUME TypeOK, NEW r \in Run,
           \/ \E scope \in Scope, status \in Status : RecordRun(r, scope, status)
           \/ ResolveInputs(r)
           \/ \E i \in collected[r] : AddInput(r, i)
           \/ FinishRun(r)
           \/ ReplaceFailures(r)
           \/ EndRecord(r)
           \/ Dismiss(r)
    PROVE  TypeOK'
<1> USE DEF TypeOK
<1>r. run[r] \in RunRow
  OBVIOUS
<1>c. clock + 1 \in Nat
  BY DEF InventoryTypeOK
<1>1. ASSUME NEW scope \in Scope, NEW status \in Status, RecordRun(r, scope, status)
      PROVE  TypeOK'
  <2>1. [NoRun EXCEPT !.step = "open", !.scope = scope, !.status = status,
                      !.startedAt = clock + 1] \in RunRow
    BY <1>c DEF NoRun, RunRow
  <2>2. run' \in [Run -> RunRow]
    BY <1>1, <2>1 DEF RecordRun
  <2>3. starts' \in 0..MaxStarts
    <3>1. starts < MaxStarts /\ starts' = starts + 1
      BY <1>1 DEF RecordRun
    <3>2. starts \in 0..MaxStarts
      BY DEF InventoryTypeOK
    <3> QED BY <3>1, <3>2, InventoryAssumption
  <2> QED BY <1>1, <1>c, <2>2, <2>3 DEF RecordRun, InventoryTypeOK
<1>2. CASE ResolveInputs(r)
  <2>1. CollectInputs(run[r].scope) \in SUBSET Input
    BY <1>r, CollectType DEF RunRow
  <2>2. collected' \in [Run -> SUBSET Input]
    BY <1>2, <2>1 DEF ResolveInputs
  <2>3. [run[r] EXCEPT !.step = "adding"] \in RunRow
    BY <1>r DEF RunRow
  <2>4. run' \in [Run -> RunRow]
    BY <1>2, <2>3 DEF ResolveInputs
  <2> QED BY <1>2, <2>2, <2>4 DEF ResolveInputs, inventoryVars, InventoryTypeOK
<1>3. ASSUME NEW i \in collected[r], AddInput(r, i)
      PROVE  TypeOK'
  <2>1. inputs[r] \cup {i} \in SUBSET Input
    OBVIOUS
  <2>2. inputs' \in [Run -> SUBSET Input]
    BY <1>3, <2>1 DEF AddInput
  <2> QED BY <1>3, <2>2 DEF AddInput, inventoryVars, InventoryTypeOK
<1>4. CASE FinishRun(r)
  <2>1. [run[r] EXCEPT !.finishedAt = clock + 1,
            !.step = IF run[r].status = "failed" THEN "finished" ELSE "closed"] \in RunRow
    BY <1>r, <1>c DEF RunRow
  <2>2. run' \in [Run -> RunRow]
    BY <1>4, <2>1 DEF FinishRun
  <2> QED BY <1>4, <1>c, <2>2 DEF FinishRun, InventoryTypeOK
<1>5. CASE ReplaceFailures(r)
  <2>1. [run[r] EXCEPT !.failures = TRUE, !.step = "closed"] \in RunRow
    BY <1>r DEF RunRow
  <2>2. run' \in [Run -> RunRow]
    BY <1>5, <2>1 DEF ReplaceFailures
  <2> QED BY <1>5, <2>2 DEF ReplaceFailures, inventoryVars, InventoryTypeOK
<1>6. CASE EndRecord(r)
  <2>1. [run[r] EXCEPT !.step = "closed"] \in RunRow
    BY <1>r DEF RunRow
  <2>2. run' \in [Run -> RunRow]
    BY <1>6, <2>1 DEF EndRecord
  <2> QED BY <1>6, <2>2 DEF EndRecord, inventoryVars, InventoryTypeOK
<1>7. CASE Dismiss(r)
  <2>1. [run[r] EXCEPT !.dismissed = TRUE] \in RunRow
    BY <1>r DEF RunRow
  <2>2. run' \in [Run -> RunRow]
    BY <1>7, <2>1 DEF Dismiss
  <2> QED BY <1>7, <2>2 DEF Dismiss, inventoryVars, InventoryTypeOK
<1> QED BY <1>1, <1>2, <1>3, <1>4, <1>5, <1>6, <1>7

LEMMA StepTypes == TypeOK /\ [Next]_vars => TypeOK'
<1> SUFFICES ASSUME TypeOK, [Next]_vars PROVE TypeOK'
  OBVIOUS
<1>1. CASE InventoryStep
  BY <1>1, InventoryTypes DEF InventoryStep, runVars, TypeOK
<1>2. CASE UNCHANGED vars
  BY <1>2 DEF vars, inventoryVars, runVars, TypeOK, InventoryTypeOK
<1> QED BY <1>1, <1>2, RunTypes DEF Next

(***************************************************************************)
(* Every row of the ledger and of the inventory is well-formed, however    *)
(* scans, edits and recorders interleave.                                  *)
(***************************************************************************)
THEOREM TypeCorrect == Spec => []TypeOK
BY InitTypes, StepTypes, PTL DEF Spec

(***************************************************************************)
(* A run is finished only after its inputs are in: what the recorder read  *)
(* and what a query finds are the same from then on.                       *)
(***************************************************************************)
FinishedIsWhole ==
    \A r \in Run : Finished(r) =>
        run[r].step \in {"finished", "closed"} /\ inputs[r] = collected[r]

LEMMA WholeStep == TypeOK /\ FinishedIsWhole /\ [Next]_vars => FinishedIsWhole'
<1> SUFFICES ASSUME TypeOK, FinishedIsWhole, [Next]_vars, NEW r \in Run, Finished(r)'
             PROVE  run'[r].step \in {"finished", "closed"} /\ inputs'[r] = collected'[r]
  BY DEF FinishedIsWhole
<1> USE DEF TypeOK, FinishedIsWhole, Finished
<1>1. ASSUME NEW q \in Run, NEW scope \in Scope, NEW status \in Status,
             RecordRun(q, scope, status)
      PROVE  run'[r].step \in {"finished", "closed"} /\ inputs'[r] = collected'[r]
  BY <1>1 DEF RecordRun, NoRun
<1>2. ASSUME NEW q \in Run, ResolveInputs(q)
      PROVE  run'[r].step \in {"finished", "closed"} /\ inputs'[r] = collected'[r]
  BY <1>2 DEF ResolveInputs, RunRow
<1>3. ASSUME NEW q \in Run, NEW i \in collected[q], AddInput(q, i)
      PROVE  run'[r].step \in {"finished", "closed"} /\ inputs'[r] = collected'[r]
  BY <1>3 DEF AddInput
<1>4. ASSUME NEW q \in Run, FinishRun(q)
      PROVE  run'[r].step \in {"finished", "closed"} /\ inputs'[r] = collected'[r]
  BY <1>4 DEF FinishRun, RunRow
<1>5. ASSUME NEW q \in Run, ReplaceFailures(q) \/ EndRecord(q) \/ Dismiss(q)
      PROVE  run'[r].step \in {"finished", "closed"} /\ inputs'[r] = collected'[r]
  BY <1>5 DEF ReplaceFailures, EndRecord, Dismiss, RunRow
<1>6. CASE InventoryStep \/ UNCHANGED vars
  BY <1>6 DEF InventoryStep, vars, runVars
<1> QED BY <1>1, <1>2, <1>3, <1>4, <1>5, <1>6 DEF Next

LEMMA WholeAlways == Spec => []FinishedIsWhole
<1>1. Init => FinishedIsWhole
  BY DEF Init, FinishedIsWhole, Finished, NoRun
<1> QED BY <1>1, WholeStep, TypeCorrect, PTL DEF Spec

(***************************************************************************)
(* A pass offered for reuse was recorded over exactly the present rows of  *)
(* its scope, for any number of runs recorded and scans made at once.      *)
(***************************************************************************)
THEOREM ReuseCorrect == Spec => []ReuseCoversInventory
<1>1. FinishedIsWhole => ReuseCoversInventory
  BY DEF FinishedIsWhole, ReuseCoversInventory, Reused, EvaluateReuse, IsLatest, Matches
<1> QED BY <1>1, WholeAlways, PTL

(***************************************************************************)
(* Fewer runs are newer than a newer run, so the limit on candidates never *)
(* cuts off the newer of two.                                              *)
(***************************************************************************)
LEMMA NewerIsCandidate ==
    ASSUME TypeOK, NEW scope \in Scope, NEW q \in Run, NEW r \in Run,
           Candidate(r, scope), OfScope(q, scope), Stamped(q) > Stamped(r)
    PROVE  Candidate(q, scope)
<1> DEFINE Newer(v) == {u \in Run : OfScope(u, scope) /\ Stamped(u) > Stamped(v)}
<1>1. \A v \in Run : Stamped(v) \in Nat
  BY DEF TypeOK, RunRow, Stamped
<1>2. Newer(q) \subseteq Newer(r)
  BY <1>1
<1>3. IsFiniteSet(Newer(r))
  BY VerificationAssumption, FS_Subset
<1>4. Cardinality(Newer(q)) <= Cardinality(Newer(r))
  BY <1>2, <1>3, FS_Subset
<1>5. Cardinality(Newer(q)) \in Nat /\ Cardinality(Newer(r)) \in Nat
  BY <1>2, <1>3, FS_Subset, FS_CardinalityType
<1>6. Cardinality(Newer(r)) < CandidateLimit
  BY DEF Candidate
<1>7. Cardinality(Newer(q)) < CandidateLimit
  BY <1>4, <1>5, <1>6, VerificationAssumption
<1> QED BY <1>7 DEF Candidate

(***************************************************************************)
(* A query never answers with a pass when a run that finished later failed *)
(* over the same rows, whatever the limit on candidates.                   *)
(***************************************************************************)
THEOREM FailureCorrect == Spec => []FailureHeard
<1>1. TypeOK /\ FinishedIsWhole => FailureHeard
  <2> SUFFICES ASSUME TypeOK, FinishedIsWhole, NEW q \in Run, NEW r \in Run,
                      NEW scope \in Scope, run[q].scope = scope, Finished(q),
                      run[q].finishedAt > Stamped(r), Reused(r, scope),
                      collected[q] = CollectInputs(scope)
               PROVE  FALSE
    BY DEF FailureHeard
  <2>1. Stamped(q) > Stamped(r)
    BY DEF Stamped
  <2>2. OfScope(q, scope)
    BY DEF FinishedIsWhole, OfScope, Recorded
  <2>3. IsLatest(r, scope, CollectInputs(scope))
    BY DEF Reused, EvaluateReuse
  <2>4. Candidate(q, scope)
    BY <2>1, <2>2, <2>3, NewerIsCandidate DEF IsLatest, Matches
  <2>5. Matches(q, scope, CollectInputs(scope))
    BY <2>4 DEF FinishedIsWhole, Matches
  <2> QED BY <2>1, <2>3, <2>5 DEF IsLatest
<1> QED BY <1>1, WholeAlways, TypeCorrect, PTL

(***************************************************************************)
(* Two scans never share a time stamp, and no event has the stamp of a     *)
(* scan that has not committed: what a commit logs is new in the log.      *)
(***************************************************************************)
Dated(s) == scan[s].step \in {"stamped", "compared"}

StampsAreNew ==
    /\ \A e \in events : e.createdAt <= clock
    /\ \A s \in Scanner : Dated(s) =>
          /\ scan[s].at <= clock
          /\ \A e \in events : e.createdAt # scan[s].at
          /\ \A t \in Scanner \ {s} : Dated(t) => scan[t].at # scan[s].at

LEMMA StampsInit == Init => StampsAreNew
<1> SUFFICES ASSUME Init PROVE StampsAreNew
  OBVIOUS
<1>1. \A e \in events : e.createdAt = 0
  BY DEF Init, InventoryInit
<1>2. \A s \in Scanner : ~ Dated(s)
  BY DEF Init, InventoryInit, Idle, Dated
<1>3. clock = 0
  BY DEF Init, InventoryInit
<1> QED BY <1>1, <1>2, <1>3 DEF StampsAreNew

LEMMA StampsStep == TypeOK /\ StampsAreNew /\ [Next]_vars => StampsAreNew'
<1> SUFFICES ASSUME TypeOK, StampsAreNew, [Next]_vars PROVE StampsAreNew'
  OBVIOUS
<1> USE DEF StampsAreNew, Dated
<1>t. /\ clock \in Nat
      /\ scan \in [Scanner -> {Idle} \cup Scan]
      /\ \A e \in events : e.createdAt \in Nat
  BY DEF TypeOK, InventoryTypeOK, Event
<1>a. \A s \in Scanner : Dated(s) => scan[s].at \in Nat
  BY <1>t DEF Idle, Scan
<1>1. ASSUME UNCHANGED <<events, scan>>, clock' \in {clock, clock + 1}
      PROVE  StampsAreNew'
  BY <1>1, <1>t, <1>a
<1>2. ASSUME NEW f \in File, NEW content \in Content \cup {Absent}, Edit(f, content)
      PROVE  StampsAreNew'
  BY <1>1, <1>2 DEF Edit
<1>3. ASSUME NEW s \in Scanner, NEW paths \in ScanPaths, ScanInventory(s, paths)
      PROVE  StampsAreNew'
  BY <1>3, <1>t DEF ScanInventory
<1>4. ASSUME NEW s \in Scanner, Stamp(s)
      PROVE  StampsAreNew'
  <2>1. scan[s] \in Scan
    BY <1>4, <1>t DEF Stamp, Idle
  <2>2. scan'[s].at = clock + 1
    BY <1>4, <1>t, <2>1 DEF Stamp, Scan
  <2>3. \A t \in Scanner \ {s} : scan'[t] = scan[t]
    BY <1>4, <1>t DEF Stamp
  <2> QED BY <1>4, <1>t, <1>a, <2>2, <2>3 DEF Stamp
<1>5. ASSUME NEW s \in Scanner, ReadExisting(s)
      PROVE  StampsAreNew'
  <2>1. scan[s] \in Scan
    BY <1>5, <1>t DEF ReadExisting, Idle
  <2>2. Dated(s) /\ scan'[s].at = scan[s].at
    BY <1>5, <1>t, <2>1 DEF ReadExisting, Scan
  <2>3. \A t \in Scanner \ {s} : scan'[t] = scan[t]
    BY <1>5, <1>t DEF ReadExisting
  <2> QED BY <1>5, <1>t, <2>2, <2>3 DEF ReadExisting
<1>6. ASSUME NEW s \in Scanner, CommitScan(s)
      PROVE  StampsAreNew'
  <2>1. Dated(s)
    BY <1>6 DEF CommitScan
  <2>2. scan'[s] = Idle /\ \A t \in Scanner \ {s} : scan'[t] = scan[t]
    BY <1>6, <1>t DEF CommitScan
  <2>3. \A e \in events' : e \in events \/ e.createdAt = scan[s].at
    BY <1>6 DEF CommitScan, LoggedEvents
  <2>4. clock' = clock
    BY <1>6 DEF CommitScan
  <2> QED BY <1>t, <2>1, <2>2, <2>3, <2>4 DEF Idle
<1>7. ASSUME NEW s \in Scanner, GiveUp(s)
      PROVE  StampsAreNew'
  BY <1>7, <1>t DEF GiveUp, Idle
<1>8. ASSUME NEW r \in Run, NEW scope \in Scope, NEW status \in Status,
             RecordRun(r, scope, status)
      PROVE  StampsAreNew'
  BY <1>1, <1>8 DEF RecordRun
<1>9. ASSUME NEW r \in Run, FinishRun(r)
      PROVE  StampsAreNew'
  BY <1>1, <1>9 DEF FinishRun
<1>10. ASSUME NEW r \in Run, NEW i \in collected[r], AddInput(r, i)
       PROVE  StampsAreNew'
  BY <1>1, <1>10 DEF AddInput, inventoryVars
<1>11. ASSUME NEW r \in Run,
              ResolveInputs(r) \/ ReplaceFailures(r) \/ EndRecord(r) \/ Dismiss(r)
       PROVE  StampsAreNew'
  BY <1>1, <1>11 DEF ResolveInputs, ReplaceFailures, EndRecord, Dismiss, inventoryVars
<1>12. CASE UNCHANGED vars
  BY <1>1, <1>12 DEF vars, inventoryVars
<1> QED BY <1>2, <1>3, <1>4, <1>5, <1>6, <1>7, <1>8, <1>9, <1>10, <1>11, <1>12
        DEF Next, InventoryStep, InventoryNext

(***************************************************************************)
(* What a commit does to a row: it differs from what the scan had read,    *)
(* and then the scan logs it, or it does not, and then the row goes back   *)
(* to what the scan had read.                                              *)
(***************************************************************************)
RowsLogged ==
    \A f \in File : repoFiles'[f] # repoFiles[f] =>
        \/ \E e \in events' \ events : e.path = f /\ e.hash = repoFiles'[f]
        \/ \E s \in Scanner :
              /\ scan[s].step = "compared" /\ scan'[s] = Idle
              /\ repoFiles'[f] = scan[s].existing[f]

LEMMA CommitLogs ==
    ASSUME TypeOK, StampsAreNew, NEW s \in Scanner, CommitScan(s)
    PROVE  RowsLogged
<1> SUFFICES ASSUME NEW f \in File, repoFiles'[f] # repoFiles[f]
             PROVE  \/ \E e \in events' \ events : e.path = f /\ e.hash = repoFiles'[f]
                    \/ repoFiles'[f] = scan[s].existing[f]
  <2>1. scan[s].step = "compared" /\ scan'[s] = Idle
    BY DEF CommitScan, TypeOK, InventoryTypeOK
  <2> QED BY <2>1 DEF RowsLogged
<1> DEFINE o == scan[s]
           e == [path |-> f, hash |-> o.records[f], createdAt |-> o.at]
<1>1. repoFiles'[f] = Written(o)[f]
  BY DEF CommitScan
<1>2. f \in o.paths /\ repoFiles'[f] = o.records[f]
  BY <1>1 DEF Written, Added, Seen, Removed
<1>3. CASE f \notin Changed(o)
  BY <1>2, <1>3 DEF Changed
<1>4. CASE f \in Changed(o)
  <2>1. e \in events'
    BY <1>4 DEF CommitScan, LoggedEvents
  <2>2. e \notin events
    <3>1. \A d \in events : d.createdAt # o.at
      BY DEF CommitScan, StampsAreNew, Dated
    <3>2. e.createdAt = o.at
      OBVIOUS
    <3> QED BY <3>1, <3>2
  <2> QED BY <1>2, <2>1, <2>2
<1> QED BY <1>3, <1>4

LEMMA StepLogs == TypeOK /\ StampsAreNew /\ [Next]_vars => RowsLogged
<1> SUFFICES ASSUME TypeOK, StampsAreNew, [Next]_vars PROVE RowsLogged
  OBVIOUS
<1>1. ASSUME NEW s \in Scanner, CommitScan(s)
      PROVE  RowsLogged
  BY <1>1, CommitLogs
<1>2. ASSUME UNCHANGED repoFiles PROVE RowsLogged
  BY <1>2 DEF RowsLogged
<1>3. ASSUME InventoryNext, \A s \in Scanner : ~ CommitScan(s)
      PROVE  UNCHANGED repoFiles
  BY <1>3 DEF InventoryNext, Edit, ScanInventory, Stamp, ReadExisting, GiveUp
<1>4. ASSUME Next, ~ InventoryStep
      PROVE  UNCHANGED repoFiles
  BY <1>4 DEF Next, RecordRun, ResolveInputs, AddInput, FinishRun, ReplaceFailures,
              EndRecord, Dismiss, inventoryVars
<1>5. CASE UNCHANGED vars
  BY <1>2, <1>5 DEF vars, inventoryVars
<1> QED BY <1>1, <1>2, <1>3, <1>4, <1>5 DEF InventoryStep

(***************************************************************************)
(* However many scans run at once, whatever is edited or recorded          *)
(* meanwhile, a row of repo_files changes only with an event that says so  *)
(* or back to what the committing scan had read.                           *)
(***************************************************************************)
THEOREM ChangesCorrect == Spec => ChangesRecorded
<1>1. Spec => []StampsAreNew
  BY StampsInit, StampsStep, TypeCorrect, PTL DEF Spec
<1>2. TypeOK /\ StampsAreNew /\ [Next]_vars => [RowsLogged]_vars
  BY StepLogs
<1> QED BY <1>1, <1>2, TypeCorrect, PTL DEF Spec, ChangesRecorded, RowsLogged
=============================================================================
