---------------------------- MODULE ReviewProofs ----------------------------
(***************************************************************************)
(* Theorems about Review, for any number of runs, files and agents and any *)
(* cap: types, how far the cap and a finished run can be exceeded, and     *)
(* that heuristic runs end.                                                *)
(***************************************************************************)
EXTENDS Review, FiniteSetTheorems, TLAPS

(***************************************************************************)
(* What a step of an agent does to what it holds.                          *)
(***************************************************************************)

\* It becomes idle, or goes on with the same words to one of the steps S.
Moves(a, S) ==
    /\ \A b \in Agent \ {a} : op'[b] = op[b]
    /\ \/ op'[a] = Idle
       \/ /\ op'[a] \in Busy /\ op'[a].step \in S
          /\ op'[a].verb = op[a].verb /\ op'[a].run = op[a].run
          /\ op'[a].given = op[a].given /\ op'[a].file = op[a].file

Ops == op \in [Agent -> {Idle} \cup Busy]

LEMMA AtBusy == ASSUME Ops, NEW a \in Agent, op[a] # Idle PROVE op[a] \in Busy
BY DEF Ops

LEMMA IdleBusy == Idle \notin Busy
<1>1. ASSUME Idle \in Busy PROVE FALSE
  <2>1. Idle.verb \in Adder \cup {"finish"}
    BY <1>1 DEF Busy
  <2> QED BY <2>1 DEF Idle, Adder
<1> QED BY <1>1

LEMMA GotoMoves ==
    ASSUME Ops, NEW a \in Agent, op[a] # Idle, NEW step \in AddStep \cup FinishStep, Goto(a, step)
    PROVE  Moves(a, {step}) /\ op'[a] \in Busy
<1>1. op[a] \in Busy
  BY AtBusy
<1>2. op' = [op EXCEPT ![a] = [op[a] EXCEPT !.step = step]]
  BY DEF Goto
<1>3. /\ [op[a] EXCEPT !.step = step] \in Busy
      /\ [op[a] EXCEPT !.step = step].step = step
      /\ [op[a] EXCEPT !.step = step].verb = op[a].verb
      /\ [op[a] EXCEPT !.step = step].run = op[a].run
      /\ [op[a] EXCEPT !.step = step].given = op[a].given
      /\ [op[a] EXCEPT !.step = step].file = op[a].file
  BY <1>1 DEF Busy
<1>4. op'[a] = [op[a] EXCEPT !.step = step] /\ \A b \in Agent \ {a} : op'[b] = op[b]
  BY <1>2 DEF Ops
<1> QED BY <1>3, <1>4 DEF Moves

LEMMA ReturnMoves ==
    ASSUME Ops, NEW a \in Agent, Return(a), NEW S
    PROVE  Moves(a, S) /\ op'[a] = Idle
BY DEF Ops, Return, Moves

LEMMA MovesMore ==
    ASSUME NEW a \in Agent, NEW S, NEW T, S \subseteq T, Moves(a, S)
    PROVE  Moves(a, T)
BY DEF Moves

LEMMA GoOnMoves ==
    ASSUME Ops, NEW a \in Agent, op[a] # Idle, GoOn(a)
    PROVE  Moves(a, {"next"}) /\ (op[a].verb = "cut" => op'[a] \in Busy)
<1>1. CASE Return(a) /\ op[a].verb # "cut"
  BY <1>1, ReturnMoves
<1>2. CASE Goto(a, "next")
  BY <1>2, GotoMoves DEF AddStep
<1> QED BY <1>1, <1>2 DEF GoOn

LEMMA FailMoves ==
    ASSUME Ops, NEW a \in Agent, op[a] # Idle, NEW fatal \in BOOLEAN, Fail(a, fatal)
    PROVE  Moves(a, {"next", "finish"}) /\ (op[a].verb = "cut" => op'[a] \in Busy)
<1>1. CASE Return(a) /\ op[a].verb # "cut"
  BY <1>1, ReturnMoves
<1>2. CASE Goto(a, "next")
  BY <1>2, GotoMoves DEF AddStep, Moves
<1>3. CASE Goto(a, "finish")
  BY <1>3, GotoMoves DEF FinishStep, Moves
<1> QED BY <1>1, <1>2, <1>3 DEF Fail

\* The steps of an agent in the middle of a verb that leave the ledger alone, and where
\* they lead.
LEMMA QuietSteps ==
    ASSUME Ops, NEW a \in Agent
    PROVE  /\ EndItems(a) => op[a] # Idle /\ op[a].step = "next" /\ Moves(a, {"finish"})
                             /\ (op[a].verb = "cut" => op'[a] \in Busy)
           /\ GetRun(a) => /\ op[a] # Idle /\ op[a].step = "check"
                           /\ Moves(a, {"count", "next", "finish"})
                           /\ (op[a].verb = "cut" => op'[a] \in Busy)
                           /\ op'[a] = Idle \/ op'[a].step # "count" \/ run[op[a].run] = "open"
           /\ ValidateFinding(a) => op[a] # Idle /\ op[a].step = "count"
                                    /\ Moves(a, {"next", "finish"})
                                    /\ (op[a].verb = "cut" => op'[a] \in Busy)
           /\ CountFindings(a) => /\ op[a] # Idle /\ op[a].step = "count"
                                  /\ Moves(a, {"insert", "insertForced", "next"})
                                  /\ (op[a].verb = "cut" => op'[a] \in Busy)
                                  /\ op'[a] = Idle \/ op'[a].step # "insert" \/ Existing(a) < Cap
           /\ InsertFails(a) => /\ op[a] # Idle /\ op[a].step \in {"insert", "insertForced"}
                                /\ Moves(a, {"next", "finish"})
                                /\ (op[a].verb = "cut" => op'[a] \in Busy)
           /\ FinishRead(a) => /\ op[a] # Idle /\ op[a].step = "finish"
                               /\ Moves(a, {"update"})
                               /\ (op'[a] = Idle => run[op[a].run] # "open")
<1> USE DEF At, AddStep, FinishStep
<1>1. EndItems(a) => op[a] # Idle /\ op[a].step = "next" /\ Moves(a, {"finish"})
                     /\ (op[a].verb = "cut" => op'[a] \in Busy)
  BY GotoMoves, ReturnMoves DEF EndItems
<1>2. ASSUME GetRun(a)
      PROVE  /\ op[a] # Idle /\ op[a].step = "check" /\ Moves(a, {"count", "next", "finish"})
             /\ (op[a].verb = "cut" => op'[a] \in Busy)
             /\ op'[a] = Idle \/ op'[a].step # "count" \/ run[op[a].run] = "open"
  <2>1. CASE run[op[a].run] = "open"
    BY <1>2, <2>1, GotoMoves, MovesMore DEF GetRun
  <2>2. CASE Fail(a, TRUE)
    BY <1>2, <2>2, FailMoves, MovesMore DEF GetRun, Moves
  <2> QED BY <1>2, <2>1, <2>2 DEF GetRun
<1>3. ValidateFinding(a) => op[a] # Idle /\ op[a].step = "count" /\ Moves(a, {"next", "finish"})
                            /\ (op[a].verb = "cut" => op'[a] \in Busy)
  BY FailMoves DEF ValidateFinding
<1>4. ASSUME CountFindings(a)
      PROVE  /\ op[a] # Idle /\ op[a].step = "count"
             /\ Moves(a, {"insert", "insertForced", "next"})
             /\ (op[a].verb = "cut" => op'[a] \in Busy)
             /\ op'[a] = Idle \/ op'[a].step # "insert" \/ Existing(a) < Cap
  <2>1. CASE Existing(a) < Cap
    BY <1>4, <2>1, GotoMoves, MovesMore DEF CountFindings
  <2>2. CASE Goto(a, "insertForced")
    BY <1>4, <2>2, GotoMoves, MovesMore DEF CountFindings, Moves
  <2>3. CASE GoOn(a)
    BY <1>4, <2>3, GoOnMoves, MovesMore DEF CountFindings, Moves
  <2> QED BY <1>4, <2>1, <2>2, <2>3 DEF CountFindings
<1>5. InsertFails(a) => /\ op[a] # Idle /\ op[a].step \in {"insert", "insertForced"}
                        /\ Moves(a, {"next", "finish"}) /\ (op[a].verb = "cut" => op'[a] \in Busy)
  BY FailMoves DEF InsertFails
<1>6. ASSUME FinishRead(a)
      PROVE  /\ op[a] # Idle /\ op[a].step = "finish" /\ Moves(a, {"update"})
             /\ (op'[a] = Idle => run[op[a].run] # "open")
  <2>1. CASE run[op[a].run] = "open"
    BY <1>6, <2>1, GotoMoves, IdleBusy DEF FinishRead
  <2> QED BY <1>6, <2>1, ReturnMoves DEF FinishRead
<1> QED BY <1>1, <1>2, <1>3, <1>4, <1>5, <1>6

LEMMA NextItemEffect ==
    ASSUME Ops, NEW a \in Agent, NextItem(a)
    PROVE  /\ op[a] # Idle /\ op'[a] \in Busy /\ op'[a].step = "check"
           /\ op'[a].verb = op[a].verb /\ op'[a].run = op[a].run /\ op'[a].given = op[a].given
           /\ \A b \in Agent \ {a} : op'[b] = op[b]
<1>1. PICK f \in File \cup {NoFile} : op' = [op EXCEPT ![a].file = f, ![a].step = "check"]
  BY DEF NextItem
<1> DEFINE new == [op[a] EXCEPT !.file = f, !.step = "check"]
<1>2. op' = [op EXCEPT ![a] = new]
  BY <1>1 DEF Ops
<1>3. op[a] \in Busy
  BY AtBusy DEF NextItem, At
<1>4. /\ new \in Busy /\ new.step = "check" /\ new.verb = op[a].verb /\ new.run = op[a].run
      /\ new.given = op[a].given
  BY <1>3 DEF Busy, AddStep
<1>5. op'[a] = new /\ \A b \in Agent \ {a} : op'[b] = op[b]
  BY <1>2 DEF Ops
<1> HIDE DEF new
<1> QED BY <1>4, <1>5 DEF NextItem, At

LEMMA BeginEffect ==
    ASSUME Ops, NEW a \in Agent, NEW verb \in Adder \cup {"finish"}, NEW r \in Run, NEW given \in Given,
           NEW f \in File \cup {NoFile}, NEW step \in AddStep \cup FinishStep,
           Begin(a, verb, r, given, f, step)
    PROVE  /\ op[a] = Idle /\ op'[a] \in Busy /\ op'[a].step = step /\ op'[a].verb = verb
           /\ op'[a].run = r /\ op'[a].given = given
           /\ \A b \in Agent \ {a} : op'[b] = op[b]
           /\ op' \in [Agent -> {Idle} \cup Busy]
<1> DEFINE new == [verb |-> verb, run |-> r, given |-> given, file |-> f, step |-> step]
<1>1. new \in Busy /\ new.step = step /\ new.verb = verb /\ new.run = r /\ new.given = given
  BY DEF Busy
<1>2. op[a] = Idle /\ op' = [op EXCEPT ![a] = new]
  BY DEF Begin
<1> HIDE DEF new
<1> QED BY <1>1, <1>2 DEF Ops

\* The verbs that only read their words.
LEMMA BeginSteps ==
    ASSUME Ops, NEW a \in Agent, NEW r \in Run,
           CmdReviewFinding(a, r) \/ CmdReviewImport(a, r) \/ CmdReviewFinish(a, r)
    PROVE  /\ op[a] = Idle /\ op'[a] \in Busy /\ op'[a].step \in {"next", "check", "finish"}
           /\ op'[a].verb # "cut"
           /\ \A b \in Agent \ {a} : op'[b] = op[b]
           /\ op' \in [Agent -> {Idle} \cup Busy]
           /\ UNCHANGED <<ledger, histories>>
<1> USE DEF Adder, AddStep, FinishStep
<1>1. CASE CmdReviewFinding(a, r)
  <2>1. PICK given \in Given, f \in File \cup {NoFile} : Begin(a, "finding", r, given, f, "check")
    BY <1>1 DEF CmdReviewFinding
  <2> QED BY <1>1, <2>1, BeginEffect DEF CmdReviewFinding
<1>2. CASE CmdReviewImport(a, r)
  <2>1. PICK given \in Given, verb \in {"import", "force"} : Begin(a, verb, r, given, NoFile, "next")
    BY <1>2 DEF CmdReviewImport
  <2>2. verb # "cut"
    OBVIOUS
  <2> QED BY <1>2, <2>1, <2>2, BeginEffect DEF CmdReviewImport
<1>3. CASE CmdReviewFinish(a, r)
  <2>1. PICK given \in Given : Begin(a, "finish", r, given, NoFile, "finish")
    BY <1>3 DEF CmdReviewFinish
  <2> QED BY <1>3, <2>1, BeginEffect DEF CmdReviewFinish
<1> QED BY <1>1, <1>2, <1>3

LEMMA CutEffect ==
    ASSUME Ops, NEW a \in Agent, NEW r \in Run, CmdInventorySuggestCuts(a, r)
    PROVE  /\ op[a] = Idle /\ op'[a] \in Busy /\ op'[a].step = "next" /\ op'[a].verb = "cut"
           /\ op'[a].run = r /\ op'[a].given = "id"
           /\ \A b \in Agent \ {a} : op'[b] = op[b]
           /\ op' \in [Agent -> {Idle} \cup Busy]
BY BeginEffect DEF CmdInventorySuggestCuts, Adder, AddStep, Given

(***************************************************************************)
(* Types.                                                                  *)
(***************************************************************************)
LEMMA NewFindingType ==
    ASSUME TypeOK, NEW a \in Agent, op[a] # Idle, NEW uncapped \in BOOLEAN
    PROVE  NewFinding(a, uncapped) \in Finding /\ op[a].run \in Run
BY AtBusy DEF TypeOK, Ops, NewFinding, Finding, Busy

LEMMA InsertType ==
    ASSUME TypeOK, NEW a \in Agent, op[a] # Idle, NEW uncapped \in BOOLEAN,
           Insert(a, NewFinding(a, uncapped)), op' \in [Agent -> {Idle} \cup Busy]
    PROVE  TypeOK'
<1>1. made' \in 0..MaxFinding
  BY ReviewAssumption DEF TypeOK, Insert
<1> QED BY <1>1, NewFindingType DEF TypeOK, Insert

\* One finding moves from a kind to the one with the other status.
LEMMA ResolveEffect ==
    ASSUME TypeOK, NEW x \in Finding, ResolveFinding(x)
    PROVE  \E y \in Finding :
               /\ y # x /\ y.run = x.run /\ y.file = x.file /\ y.uncapped = x.uncapped
               /\ finding[x] > 0
               /\ finding' = [z \in Finding |-> IF z = x THEN finding[x] - 1
                                                ELSE IF z = y THEN finding[y] + 1 ELSE finding[z]]
<1>1. PICK st \in {"open", "retired"} \ {x.status} :
          finding' = [finding EXCEPT ![x] = @ - 1, ![[x EXCEPT !.status = st]] = @ + 1]
  BY DEF ResolveFinding
<1> DEFINE y == [x EXCEPT !.status = st]
<1>2. y \in Finding /\ y # x /\ y.run = x.run /\ y.file = x.file /\ y.uncapped = x.uncapped
  BY DEF Finding
<1>3. finding' = [finding EXCEPT ![x] = @ - 1, ![y] = @ + 1]
  BY <1>1
<1> HIDE DEF y
<1>4. finding' = [z \in Finding |-> IF z = x THEN finding[x] - 1
                                   ELSE IF z = y THEN finding[y] + 1 ELSE finding[z]]
  BY <1>2, <1>3 DEF TypeOK
<1> QED BY <1>2, <1>4 DEF ResolveFinding

\* The row that restore brings back.
RestoredFinding(k) == [run |-> k[1], file |-> k[2], status |-> "retired", uncapped |-> TRUE]

LEMMA RestoredType ==
    ASSUME NEW k \in Filed
    PROVE  RestoredFinding(k) \in Finding
<1>1. k[1] \in Run /\ k[2] \in File \cup {NoFile}
  BY DEF Filed
<1> QED BY <1>1 DEF RestoredFinding, Finding

LEMMA OpType ==
    ASSUME Ops, NEW a \in Agent, op[a] # Idle,
           \/ GoOn(a) \/ Return(a)
           \/ \E fatal \in BOOLEAN : Fail(a, fatal)
           \/ \E step \in AddStep \cup FinishStep : Goto(a, step)
    PROVE  op' \in [Agent -> {Idle} \cup Busy]
<1>1. CASE Return(a)
  BY <1>1 DEF Return, Ops
<1>2. ASSUME NEW step \in AddStep \cup FinishStep, Goto(a, step)
      PROVE  op' \in [Agent -> {Idle} \cup Busy]
  <2>1. op[a] \in Busy
    BY AtBusy
  <2>2. [op[a] EXCEPT !.step = step] \in Busy
    BY <2>1 DEF Busy
  <2> QED BY <1>2, <2>2 DEF Goto, Ops
<1> QED BY <1>1, <1>2 DEF GoOn, Fail, AddStep, FinishStep

LEMMA TypeStep == ASSUME TypeOK, Next PROVE TypeOK'
<1>0. Ops
  BY DEF TypeOK, Ops
<1> DEFINE OpsNext == op' \in [Agent -> {Idle} \cup Busy]
<1>1. ASSUME OpsNext, UNCHANGED <<ledger, histories>> PROVE TypeOK'
  BY <1>1 DEF TypeOK, ledger, histories
<1>2. ASSUME NEW a \in Agent, NEW r \in Run, CmdReviewStart(a, r) PROVE TypeOK'
  BY <1>2 DEF CmdReviewStart, StartRun, TypeOK, RunStatus, histories
<1>3. ASSUME NEW a \in Agent, NEW r \in Run,
             CmdReviewFinding(a, r) \/ CmdReviewImport(a, r) \/ CmdReviewFinish(a, r)
      PROVE  TypeOK'
  BY <1>0, <1>1, <1>3, BeginSteps
<1>4. ASSUME NEW a \in Agent, NEW r \in Run, CmdInventorySuggestCuts(a, r) PROVE TypeOK'
  <2>1. OpsNext
    BY <1>0, <1>4, CutEffect
  <2> QED BY <1>4, <2>1 DEF CmdInventorySuggestCuts, StartRun, TypeOK, RunStatus
<1>5. ASSUME NEW a \in Agent, NextItem(a) PROVE TypeOK'
  <2>1. OpsNext
    <3>1. op'[a] \in Busy
      BY <1>0, <1>5, NextItemEffect
    <3> QED BY <1>0, <1>5, <3>1 DEF NextItem, Ops
  <2> QED BY <1>1, <1>5, <2>1 DEF NextItem
<1>6. ASSUME NEW a \in Agent,
             EndItems(a) \/ GetRun(a) \/ ValidateFinding(a) \/ CountFindings(a) \/ InsertFails(a)
             \/ FinishRead(a)
      PROVE  TypeOK'
  <2>1. op[a] # Idle
    BY <1>6 DEF EndItems, GetRun, ValidateFinding, CountFindings, InsertFails, FinishRead, At
  <2>2. OpsNext
    BY <1>0, <1>6, <2>1, OpType
       DEF EndItems, GetRun, ValidateFinding, CountFindings, InsertFails, FinishRead, AddStep, FinishStep
  <2> QED BY <1>1, <1>6, <2>2
       DEF EndItems, GetRun, ValidateFinding, CountFindings, InsertFails, FinishRead
<1>7. ASSUME NEW a \in Agent, InsertFinding(a) \/ AddFindingUncapped(a) PROVE TypeOK'
  <2>1. op[a] # Idle /\ OpsNext
    BY <1>0, <1>7, OpType DEF InsertFinding, AddFindingUncapped, At
  <2> QED BY <1>7, <2>1, InsertType DEF InsertFinding, AddFindingUncapped
<1>8. ASSUME NEW a \in Agent, FinishUpdate(a) PROVE TypeOK'
  <2>1. op[a] # Idle /\ OpsNext
    BY <1>0, <1>8, OpType DEF FinishUpdate, At
  <2> QED BY <1>8, <2>1 DEF FinishUpdate, TypeOK, RunStatus
<1>9. ASSUME NEW a \in Agent, Die(a) PROVE TypeOK'
  <2>1. op[a] # Idle /\ OpsNext /\ op[a] \in Busy
    BY <1>0, <1>9, OpType, AtBusy DEF Die
  <2>2. op[a].run \in Run
    BY <2>1 DEF Busy
  <2> QED BY <1>9, <2>1, <2>2 DEF Die, TypeOK, ledger
<1>10. ASSUME NEW x \in Finding, ResolveFinding(x) PROVE TypeOK'
  <2>1. PICK y \in Finding :
            /\ finding[x] > 0
            /\ finding' = [z \in Finding |-> IF z = x THEN finding[x] - 1
                                             ELSE IF z = y THEN finding[y] + 1 ELSE finding[z]]
    BY <1>10, ResolveEffect
  <2>2. finding \in [Finding -> Nat]
    BY DEF TypeOK
  <2>3. finding' \in [Finding -> Nat]
    BY <2>1, <2>2
  <2> QED BY <1>10, <2>3 DEF ResolveFinding, TypeOK, histories
<1>11. CASE ArchiveFindings
  <2>1. stored' \in [Filed -> Nat]
    <3>1. ASSUME NEW k \in Filed, NEW uncapped \in BOOLEAN PROVE Retired(k, uncapped) \in Nat
      <4>1. k[1] \in Run /\ k[2] \in File \cup {NoFile}
        BY DEF Filed
      <4>2. [run |-> k[1], file |-> k[2], status |-> "retired", uncapped |-> uncapped] \in Finding
        BY <4>1 DEF Finding
      <4> QED BY <4>2 DEF Retired, TypeOK
    <3>2. \A k \in Filed : stored[k] + Retired(k, FALSE) + Retired(k, TRUE) \in Nat
      <4> SUFFICES ASSUME NEW k \in Filed
                   PROVE  stored[k] + Retired(k, FALSE) + Retired(k, TRUE) \in Nat
        OBVIOUS
      <4>1. stored[k] \in Nat
        BY DEF TypeOK
      <4>2. PICK m \in Nat : m = Retired(k, FALSE)
        BY <3>1
      <4>3. PICK n \in Nat : n = Retired(k, TRUE)
        BY <3>1
      <4>4. stored[k] + m + n \in Nat
        BY <4>1
      <4> QED BY <4>2, <4>3, <4>4, Zenon
    <3> QED BY <1>11, <3>2 DEF ArchiveFindings
  <2>2. finding' \in [Finding -> Nat]
    BY <1>11 DEF ArchiveFindings, TypeOK
  <2> QED BY <1>11, <2>1, <2>2 DEF ArchiveFindings, TypeOK, histories
<1>12. CASE ArchiveRuns
  BY <1>12 DEF ArchiveRuns, TypeOK, RunStatus, histories
<1>13. ASSUME NEW k \in Filed, RestoreFinding(k) PROVE TypeOK'
  <2>1. RestoredFinding(k) \in Finding /\ finding' = [finding EXCEPT ![RestoredFinding(k)] = @ + 1]
    BY <1>13, RestoredType DEF RestoreFinding, RestoredFinding
  <2>2. finding' \in [Finding -> Nat]
    BY <2>1 DEF TypeOK
  <2>3. stored' \in [Filed -> Nat]
    BY <1>13 DEF RestoreFinding, TypeOK
  <2> QED BY <1>13, <2>2, <2>3 DEF RestoreFinding, TypeOK, histories
<1>14. ASSUME NEW r \in Run, RestoreRun(r) PROVE TypeOK'
  BY <1>14 DEF RestoreRun, TypeOK, RunStatus, histories
<1> QED
  BY <1>2, <1>3, <1>4, <1>5, <1>6, <1>7, <1>8, <1>9, <1>10, <1>11, <1>12, <1>13, <1>14
     DEF Next, AgentStep, AddFinding, FinishRun

(***************************************************************************)
(* Findings of a finished run.                                             *)
(***************************************************************************)

\* The agents that have found a run open and may still insert into it.
Past(r) ==
    {a \in Agent : op[a] # Idle /\ op[a].run = r /\ op[a].step \in {"count", "insert", "insertForced"}}

LateInv ==
    \A r \in Run :
        /\ run[r] \in {"none", "open"} => late[r] = 0
        /\ run[r] \in {"finished", "archived"} =>
               late[r] + Cardinality(Past(r)) <= Cardinality(Agent) - 1

LEMMA AgentFacts == Cardinality(Agent) \in Nat /\ Cardinality(Agent) >= 1
BY ReviewAssumption, FS_CardinalityType, FS_EmptySet

LEMMA PastCard == \A r \in Run : Cardinality(Past(r)) \in Nat /\ IsFiniteSet(Past(r))
BY ReviewAssumption, FS_Subset, FS_CardinalityType DEF Past

LEMMA LateQuiet ==
    ASSUME TypeOK, LateInv, UNCHANGED late,
           \A r \in Run : \/ run'[r] = run[r]
                          \/ run[r] = "none" /\ run'[r] = "open"
                          \/ /\ run[r] \in {"finished", "archived"}
                             /\ run'[r] \in {"finished", "archived"},
           \A r \in Run : run[r] \in {"finished", "archived"} => Past(r)' \subseteq Past(r)
    PROVE  LateInv'
<1> SUFFICES ASSUME NEW r \in Run
             PROVE  /\ run'[r] \in {"none", "open"} => late'[r] = 0
                    /\ run'[r] \in {"finished", "archived"} =>
                           late'[r] + Cardinality(Past(r)') <= Cardinality(Agent) - 1
  BY DEF LateInv
<1>1. CASE run[r] \in {"finished", "archived"}
  <2>1. Cardinality(Past(r)') <= Cardinality(Past(r)) /\ Cardinality(Past(r)') \in Nat
    BY <1>1, PastCard, FS_Subset, FS_CardinalityType
  <2> QED BY <1>1, <2>1, PastCard, AgentFacts DEF LateInv, TypeOK
<1>2. CASE run[r] \in {"none", "open"}
  BY <1>2 DEF LateInv
<1> QED BY <1>1, <1>2 DEF TypeOK, RunStatus

\* The agent that moves is not on its way to an insert, or was before.
LEMMA PastMoves ==
    ASSUME NEW a \in Agent, NEW S, NEW r \in Run, Moves(a, S), op[a] # Idle,
           \/ S \cap {"count", "insert", "insertForced"} = {}
           \/ op[a].step \in {"count", "insert", "insertForced"}
    PROVE  Past(r)' \subseteq Past(r)
BY DEF Past, Moves

LEMMA LateInsert ==
    ASSUME TypeOK, LateInv, NEW a \in Agent, NEW uncapped \in BOOLEAN, op[a] # Idle,
           op[a].step \in {"insert", "insertForced"}, RunExists(a), Moves(a, {"next"}),
           Insert(a, NewFinding(a, uncapped))
    PROVE  LateInv'
<1>1. \A r \in Run : Past(r)' \subseteq Past(r)
  BY PastMoves
<1>2. CASE run[op[a].run] # "finished"
  BY <1>1, <1>2, LateQuiet DEF Insert
<1>3. CASE run[op[a].run] = "finished"
  <2>0. PICK r \in Run : r = op[a].run
    BY NewFindingType
  <2>1. run[r] = "finished" /\ late' = [late EXCEPT ![r] = @ + 1] /\ UNCHANGED run
    BY <1>3, <2>0 DEF Insert
  <2>2. Past(r)' \subseteq Past(r) \ {a} /\ a \in Past(r)
    <3>1. a \in Past(r)
      BY <2>0 DEF Past
    <3>2. a \notin Past(r)'
      BY DEF Past, Moves
    <3> QED BY <1>1, <3>1, <3>2
  <2>3. Cardinality(Past(r)') <= Cardinality(Past(r)) - 1 /\ Cardinality(Past(r)') \in Nat
    BY <2>1, <2>2, PastCard, FS_Subset, FS_RemoveElement, FS_CardinalityType
  <2>4. \A q \in Run : Cardinality(Past(q)') <= Cardinality(Past(q)) /\ Cardinality(Past(q)') \in Nat
    BY <1>1, PastCard, FS_Subset, FS_CardinalityType
  <2>5. ASSUME NEW q \in Run
        PROVE  /\ run'[q] \in {"none", "open"} => late'[q] = 0
               /\ run'[q] \in {"finished", "archived"} =>
                      late'[q] + Cardinality(Past(q)') <= Cardinality(Agent) - 1
    <3>1. CASE q = r
      <4>1. late'[r] = late[r] + 1 /\ late[r] \in Nat
        BY <2>1 DEF TypeOK
      <4>2. late[r] + Cardinality(Past(r)) <= Cardinality(Agent) - 1
        BY <2>1 DEF LateInv
      <4> QED BY <2>1, <2>3, <3>1, <4>1, <4>2, PastCard, AgentFacts
    <3>2. CASE q # r
      <4>1. late'[q] = late[q] /\ run'[q] = run[q]
        BY <2>1, <3>2 DEF TypeOK
      <4> QED BY <2>4, <4>1, PastCard, AgentFacts DEF LateInv, TypeOK
    <3> QED BY <3>1, <3>2
  <2> QED BY <2>5 DEF LateInv
<1> QED BY <1>2, <1>3

LEMMA LateFinish ==
    ASSUME TypeOK, LateInv, NEW a \in Agent, FinishUpdate(a)
    PROVE  LateInv'
<1>0. Ops /\ op[a] # Idle /\ op[a].step = "update" /\ UNCHANGED late
  BY DEF TypeOK, Ops, FinishUpdate, At
<1>1. \A q \in Run : Past(q)' \subseteq Past(q)
  BY <1>0, ReturnMoves DEF FinishUpdate, Past, Moves
<1>2. CASE UNCHANGED run
  BY <1>0, <1>1, <1>2, LateQuiet
<1>3. CASE RunExists(a) /\ run' = [run EXCEPT ![op[a].run] = "finished"]
  <2>1. PICK r \in Run : r = op[a].run
    BY <1>0, NewFindingType
  <2>2. \A q \in Run : q # r => run'[q] = run[q]
    BY <1>3, <2>1 DEF TypeOK
  <2>3. Past(r)' \subseteq Agent \ {a}
    BY <1>0, ReturnMoves DEF Past, FinishUpdate
  <2>4. Cardinality(Past(r)') <= Cardinality(Agent) - 1 /\ Cardinality(Past(r)') \in Nat
    BY <2>3, ReviewAssumption, FS_Subset, FS_RemoveElement, FS_CardinalityType
  <2>5. \A q \in Run : Cardinality(Past(q)') <= Cardinality(Past(q)) /\ Cardinality(Past(q)') \in Nat
    BY <1>1, PastCard, FS_Subset, FS_CardinalityType
  <2>6. run[r] \in {"open", "finished"} /\ run'[r] = "finished"
    BY <1>3, <2>1 DEF RunExists, TypeOK
  <2>7. late'[r] + Cardinality(Past(r)') <= Cardinality(Agent) - 1
    <3>1. late'[r] = late[r] /\ late[r] \in Nat
      BY <1>0, <2>1 DEF TypeOK
    <3>2. CASE run[r] = "open"
      BY <2>1, <2>4, <3>1, <3>2, AgentFacts DEF LateInv
    <3>3. CASE run[r] = "finished"
      BY <2>1, <2>5, <3>1, <3>3, PastCard, AgentFacts DEF LateInv
    <3> QED BY <2>6, <3>2, <3>3
  <2>8. ASSUME NEW q \in Run, q # r
        PROVE  /\ run'[q] \in {"none", "open"} => late'[q] = 0
               /\ run'[q] \in {"finished", "archived"} =>
                      late'[q] + Cardinality(Past(q)') <= Cardinality(Agent) - 1
    <3>1. late'[q] = late[q] /\ late[q] \in Nat /\ run'[q] = run[q]
      BY <1>0, <2>2, <2>8 DEF TypeOK
    <3> QED BY <2>5, <3>1, PastCard, AgentFacts DEF LateInv
  <2> QED BY <2>6, <2>7, <2>8 DEF LateInv
<1> QED BY <1>2, <1>3 DEF FinishUpdate

LEMMA LateStep == ASSUME TypeOK, LateInv, Next PROVE LateInv'
<1>0. Ops
  BY DEF TypeOK, Ops
<1> DEFINE Same == UNCHANGED <<run, late>>
<1>1. ASSUME Same, \A r \in Run : run[r] \in {"finished", "archived"} => Past(r)' \subseteq Past(r)
      PROVE  LateInv'
  BY <1>1, LateQuiet
<1>2. ASSUME NEW a \in Agent, NEW r \in Run, CmdReviewStart(a, r) PROVE LateInv'
  BY <1>2, LateQuiet DEF CmdReviewStart, StartRun, Past, histories, TypeOK
<1>3. ASSUME NEW a \in Agent, NEW r \in Run,
             CmdReviewFinding(a, r) \/ CmdReviewImport(a, r) \/ CmdReviewFinish(a, r)
      PROVE  LateInv'
  <2>1. /\ op'[a].step \in {"next", "check", "finish"} /\ \A b \in Agent \ {a} : op'[b] = op[b]
        /\ UNCHANGED <<ledger, histories>>
    BY <1>0, <1>3, BeginSteps
  <2> QED BY <1>1, <2>1 DEF Past, ledger, histories
<1>4. ASSUME NEW a \in Agent, NEW r \in Run, CmdInventorySuggestCuts(a, r) PROVE LateInv'
  <2>1. op'[a].step = "next" /\ \A b \in Agent \ {a} : op'[b] = op[b]
    BY <1>0, <1>4, CutEffect
  <2>2. \A q \in Run : Past(q)' \subseteq Past(q)
    BY <2>1 DEF Past
  <2> QED BY <1>4, <2>2, LateQuiet DEF CmdInventorySuggestCuts, StartRun, TypeOK
<1>5. ASSUME NEW a \in Agent, NextItem(a) PROVE LateInv'
  <2>1. op'[a].step = "check" /\ \A b \in Agent \ {a} : op'[b] = op[b]
    BY <1>0, <1>5, NextItemEffect
  <2> QED BY <1>1, <1>5, <2>1 DEF Past, NextItem, ledger, histories
<1>6. ASSUME NEW a \in Agent, GetRun(a) PROVE LateInv'
  <2>1. /\ op[a] # Idle /\ Moves(a, {"count", "next", "finish"})
        /\ op'[a] = Idle \/ op'[a].step # "count" \/ run[op[a].run] = "open"
    BY <1>0, <1>6, QuietSteps
  <2>2. \A r \in Run : run[r] \in {"finished", "archived"} => Past(r)' \subseteq Past(r)
    BY <2>1 DEF Past, Moves
  <2> QED BY <1>1, <1>6, <2>2 DEF GetRun, ledger, histories
<1>7. ASSUME NEW a \in Agent,
             EndItems(a) \/ ValidateFinding(a) \/ CountFindings(a) \/ InsertFails(a) \/ FinishRead(a)
      PROVE  LateInv'
  <2>1. \A r \in Run : Past(r)' \subseteq Past(r)
    BY <1>0, <1>7, QuietSteps, PastMoves
  <2> QED BY <1>1, <1>7, <2>1
       DEF EndItems, ValidateFinding, CountFindings, InsertFails, FinishRead, ledger, histories
<1>8. ASSUME NEW a \in Agent, InsertFinding(a) \/ AddFindingUncapped(a) PROVE LateInv'
  BY <1>0, <1>8, LateInsert, GoOnMoves DEF InsertFinding, AddFindingUncapped, At
<1>9. ASSUME NEW a \in Agent, FinishUpdate(a) PROVE LateInv'
  BY <1>9, LateFinish
<1>10. ASSUME NEW a \in Agent, Die(a) PROVE LateInv'
  <2>1. \A r \in Run : Past(r)' \subseteq Past(r)
    BY <1>0, <1>10, ReturnMoves DEF Die, Past, Moves
  <2> QED BY <1>1, <1>10, <2>1 DEF Die, ledger
<1>11. ASSUME NEW x \in Finding, ResolveFinding(x) PROVE LateInv'
  BY <1>1, <1>11 DEF ResolveFinding, Past, histories
<1>12. CASE ArchiveFindings
  BY <1>1, <1>12 DEF ArchiveFindings, Past, histories
<1>13. CASE ArchiveRuns
  <2>1. \A r \in Run : run'[r] = run[r] \/ (run[r] = "finished" /\ run'[r] = "archived")
    BY <1>13 DEF ArchiveRuns
  <2> QED BY <1>13, <2>1, LateQuiet DEF ArchiveRuns, Past, histories
<1>14. ASSUME NEW k \in Filed, RestoreFinding(k) PROVE LateInv'
  BY <1>1, <1>14 DEF RestoreFinding, Past, histories
<1>15. ASSUME NEW q \in Run, RestoreRun(q) PROVE LateInv'
  <2>1. \A r \in Run : run'[r] = run[r] \/ (run[r] = "archived" /\ run'[r] = "finished")
    BY <1>15 DEF RestoreRun, TypeOK
  <2> QED BY <1>15, <2>1, LateQuiet DEF RestoreRun, Past, histories
<1> QED
  BY <1>2, <1>3, <1>4, <1>5, <1>6, <1>7, <1>8, <1>9, <1>10, <1>11, <1>12, <1>13, <1>14, <1>15
     DEF Next, AgentStep, AddFinding, FinishRun

(***************************************************************************)
(* The cap.                                                                *)
(***************************************************************************)

\* The findings of a file, and those that --force-cap added.
Counted(r, f) == Rows(r, f, FALSE)
Forced(r, f) == Rows(r, f, TRUE)

\* The agents about to insert a finding of the file that counts.
Ready(r, f) ==
    {a \in Agent : /\ op[a] # Idle /\ op[a].run = r /\ op[a].file = f
                   /\ op[a].step = "insert" /\ op[a].given = "id"}

CapInv ==
    \A r \in Run, f \in File :
        Counted(r, f) + Cardinality(Ready(r, f)) <= Cap + Cardinality(Agent) - 1

Kind(r, f, st, uncapped) == [run |-> r, file |-> f, status |-> st, uncapped |-> uncapped]

LEMMA KindFacts ==
    ASSUME NEW r \in Run, NEW f \in File
    PROVE  /\ \A st \in {"open", "retired"}, uncapped \in BOOLEAN :
                  /\ Kind(r, f, st, uncapped) \in Finding
                  /\ Kind(r, f, st, uncapped).run = r /\ Kind(r, f, st, uncapped).file = f
                  /\ Kind(r, f, st, uncapped).status = st /\ Kind(r, f, st, uncapped).uncapped = uncapped
           /\ \A x \in Finding : x.run = r /\ x.file = f => x = Kind(r, f, x.status, x.uncapped)
BY DEF Kind, Finding

LEMMA RowsType ==
    ASSUME TypeOK, NEW r \in Run, NEW f \in File
    PROVE  Counted(r, f) \in Nat /\ Forced(r, f) \in Nat
<1> DEFINE open == Kind(r, f, "open", FALSE)
           retired == Kind(r, f, "retired", FALSE)
           forcedOpen == Kind(r, f, "open", TRUE)
           forcedRetired == Kind(r, f, "retired", TRUE)
<1>1. open \in Finding /\ retired \in Finding /\ forcedOpen \in Finding /\ forcedRetired \in Finding
  BY DEF Kind, Finding
<1>2. /\ Counted(r, f) = finding[open] + finding[retired]
      /\ Forced(r, f) = finding[forcedOpen] + finding[forcedRetired]
  BY DEF Counted, Forced, Rows, Kind
<1> HIDE DEF open, retired, forcedOpen, forcedRetired
<1> QED BY <1>1, <1>2 DEF TypeOK

LEMMA RowsTypeNext ==
    ASSUME TypeOK', NEW r \in Run, NEW f \in File
    PROVE  Counted(r, f)' \in Nat
<1> DEFINE open == Kind(r, f, "open", FALSE)
           retired == Kind(r, f, "retired", FALSE)
<1>1. open \in Finding /\ retired \in Finding
  BY KindFacts
<1>2. Counted(r, f)' = finding'[open] + finding'[retired]
  BY DEF Counted, Rows, Kind
<1> HIDE DEF open, retired
<1> QED BY <1>1, <1>2 DEF TypeOK

LEMMA CapFacts == Cap \in Nat /\ Cap >= 1 /\ NoFile \notin File
BY ReviewAssumption

LEMMA ReadyCard ==
    \A r \in Run, f \in File : Cardinality(Ready(r, f)) \in Nat /\ IsFiniteSet(Ready(r, f))
                               /\ Cardinality(Ready(r, f)) <= Cardinality(Agent)
BY ReviewAssumption, FS_Subset, FS_CardinalityType DEF Ready

LEMMA CapQuiet ==
    ASSUME TypeOK, TypeOK', CapInv,
           \A r \in Run, f \in File : Counted(r, f)' <= Counted(r, f)
                                      /\ Ready(r, f)' \subseteq Ready(r, f)
    PROVE  CapInv'
<1> SUFFICES ASSUME NEW r \in Run, NEW f \in File
             PROVE  Counted(r, f)' + Cardinality(Ready(r, f)') <= Cap + Cardinality(Agent) - 1
  BY DEF CapInv
<1>1. Cardinality(Ready(r, f)') <= Cardinality(Ready(r, f)) /\ Cardinality(Ready(r, f)') \in Nat
  BY ReadyCard, FS_Subset, FS_CardinalityType
<1>2. Counted(r, f) \in Nat /\ Counted(r, f)' \in Nat
  BY RowsType, RowsTypeNext
<1>3. /\ Counted(r, f)' <= Counted(r, f)
      /\ Counted(r, f) + Cardinality(Ready(r, f)) <= Cap + Cardinality(Agent) - 1
      /\ Cardinality(Ready(r, f)) \in Nat
  BY ReadyCard DEF CapInv
<1> QED BY <1>1, <1>2, <1>3, AgentFacts, CapFacts

LEMMA CapEqual ==
    ASSUME TypeOK, TypeOK', CapInv,
           \A r \in Run, f \in File : Counted(r, f)' = Counted(r, f)
                                      /\ Ready(r, f)' \subseteq Ready(r, f)
    PROVE  CapInv'
<1>1. \A r \in Run, f \in File : Counted(r, f)' <= Counted(r, f)
  <2> SUFFICES ASSUME NEW r \in Run, NEW f \in File PROVE Counted(r, f)' <= Counted(r, f)
    OBVIOUS
  <2>1. Counted(r, f)' = Counted(r, f) /\ Counted(r, f) \in Nat
    BY RowsType
  <2> QED BY <2>1
<1> QED BY <1>1, CapQuiet

\* Nothing is inserted and nobody gets ready.
LEMMA CapSame ==
    ASSUME TypeOK, TypeOK', CapInv, UNCHANGED finding,
           \A r \in Run, f \in File : Ready(r, f)' \subseteq Ready(r, f)
    PROVE  CapInv'
<1>1. \A r \in Run, f \in File : Counted(r, f)' = Counted(r, f)
  BY DEF Counted, Rows
<1> QED BY <1>1, CapEqual

\* One more finding that does not count, and nobody gets ready.
LEMMA CapUncapped ==
    ASSUME TypeOK, TypeOK', CapInv, NEW x, x.uncapped = TRUE,
           finding' = [finding EXCEPT ![x] = @ + 1],
           \A r \in Run, f \in File : Ready(r, f)' \subseteq Ready(r, f)
    PROVE  CapInv'
<1>1. \A r \in Run, f \in File : Counted(r, f)' = Counted(r, f)
  <2> SUFFICES ASSUME NEW r \in Run, NEW f \in File
               PROVE  Counted(r, f)' = Counted(r, f)
    OBVIOUS
  <2>1. ASSUME NEW st \in {"open", "retired"}
        PROVE  Kind(r, f, st, FALSE) # x /\ Kind(r, f, st, FALSE) \in Finding
    <3>1. Kind(r, f, st, FALSE) \in Finding
      BY KindFacts
    <3>2. Kind(r, f, st, FALSE).uncapped = FALSE
      BY DEF Kind
    <3> QED BY <3>1, <3>2
  <2>2. \A st \in {"open", "retired"} :
            finding'[Kind(r, f, st, FALSE)] = finding[Kind(r, f, st, FALSE)]
    BY <2>1 DEF TypeOK
  <2> QED BY <2>2 DEF Counted, Rows, Kind
<1> QED BY <1>1, CapEqual

LEMMA CapCount ==
    ASSUME TypeOK, TypeOK', CapInv, NEW a \in Agent, CountFindings(a)
    PROVE  CapInv'
<1>0. Ops /\ UNCHANGED finding
  BY DEF TypeOK, Ops, CountFindings, ledger
<1>1. /\ op[a] # Idle /\ op[a].step = "count"
      /\ Moves(a, {"insert", "insertForced", "next"})
      /\ op'[a] = Idle \/ op'[a].step # "insert" \/ Existing(a) < Cap
  BY <1>0, QuietSteps
<1> SUFFICES ASSUME NEW r \in Run, NEW f \in File
             PROVE  Counted(r, f)' + Cardinality(Ready(r, f)') <= Cap + Cardinality(Agent) - 1
  BY DEF CapInv
<1>2. Counted(r, f)' = Counted(r, f) /\ Counted(r, f) \in Nat
  BY <1>0, RowsType DEF Counted, Rows
<1>3. Cardinality(Ready(r, f)') \in Nat /\ Cardinality(Ready(r, f)') <= Cardinality(Agent)
  BY ReviewAssumption, FS_Subset, FS_CardinalityType DEF Ready
<1>4. CASE a \in Ready(r, f)'
  <2>1. /\ op[a].given = "id" /\ op[a].run = r /\ op[a].file = f
        /\ Existing(a) < Cap
    BY <1>1, <1>4 DEF Ready, Moves
  <2>2. Existing(a) = Counted(r, f) + Forced(r, f)
    BY <2>1, CapFacts DEF Existing, Counted, Forced
  <2>3. Forced(r, f) \in Nat
    BY RowsType
  <2>4. Counted(r, f) + Forced(r, f) < Cap
    BY <2>1, <2>2
  <2> QED BY <1>2, <1>3, <2>3, <2>4, AgentFacts, CapFacts
<1>5. CASE a \notin Ready(r, f)'
  <2>1. Ready(r, f)' \subseteq Ready(r, f)
    BY <1>1, <1>5 DEF Ready, Moves
  <2>2. Cardinality(Ready(r, f)') <= Cardinality(Ready(r, f))
    BY <2>1, ReadyCard, FS_Subset
  <2>3. Counted(r, f) + Cardinality(Ready(r, f)) <= Cap + Cardinality(Agent) - 1
    BY DEF CapInv
  <2>4. Cardinality(Ready(r, f)) \in Nat
    BY ReadyCard
  <2> QED BY <1>2, <1>3, <2>2, <2>3, <2>4, AgentFacts, CapFacts
<1> QED BY <1>4, <1>5

LEMMA CapInsert ==
    ASSUME TypeOK, TypeOK', CapInv, NEW a \in Agent, InsertFinding(a)
    PROVE  CapInv'
<1>0. Ops /\ op[a] # Idle /\ op[a].step = "insert" /\ op[a].given = "id"
  BY DEF TypeOK, Ops, InsertFinding, RunExists, At
<1>1. Moves(a, {"next"})
  BY <1>0, GoOnMoves DEF InsertFinding
<1> DEFINE new == NewFinding(a, FALSE)
<1>2. new \in Finding /\ finding' = [finding EXCEPT ![new] = @ + 1]
  BY <1>0, NewFindingType DEF InsertFinding, Insert
<1>3. new.run = op[a].run /\ new.file = op[a].file /\ new.status = "open"
  BY DEF NewFinding
<1> SUFFICES ASSUME NEW r \in Run, NEW f \in File
             PROVE  Counted(r, f)' + Cardinality(Ready(r, f)') <= Cap + Cardinality(Agent) - 1
  BY DEF CapInv
<1> DEFINE open == Kind(r, f, "open", FALSE)
           retired == Kind(r, f, "retired", FALSE)
<1>4. /\ open \in Finding /\ open.run = r /\ open.file = f
      /\ retired \in Finding /\ retired.status = "retired"
  BY DEF Kind, Finding
<1> HIDE DEF new, open, retired
<1>5. /\ Counted(r, f) = finding[open] + finding[retired]
      /\ Counted(r, f)' = finding'[open] + finding'[retired]
  BY DEF Counted, Rows, Kind, open, retired
<1>6. finding[open] \in Nat /\ finding[retired] \in Nat /\ finding'[retired] = finding[retired]
  BY <1>2, <1>3, <1>4 DEF TypeOK
<1>7. Ready(r, f)' \subseteq Ready(r, f) \ {a}
  BY <1>1 DEF Ready, Moves
<1>8. Cardinality(Ready(r, f)') \in Nat
      /\ Cardinality(Ready(r, f)') <= Cardinality(Ready(r, f))
      /\ (a \in Ready(r, f) => Cardinality(Ready(r, f)') <= Cardinality(Ready(r, f)) - 1)
  BY <1>7, ReadyCard, FS_Subset, FS_RemoveElement, FS_CardinalityType
<1>a. /\ Counted(r, f) + Cardinality(Ready(r, f)) <= Cap + Cardinality(Agent) - 1
       /\ Cardinality(Ready(r, f)) \in Nat
  BY ReadyCard DEF CapInv
<1>9. CASE open = new
  <2>1. op[a].run = r /\ op[a].file = f
    BY <1>3, <1>4, <1>9
  <2>2. a \in Ready(r, f)
    BY <1>0, <2>1 DEF Ready
  <2>3. finding'[open] = finding[open] + 1
    BY <1>2, <1>9 DEF TypeOK
  <2> QED BY <1>5, <1>6, <1>8, <1>a, <2>2, <2>3, AgentFacts, CapFacts
<1>10. CASE open # new
  <2>1. finding'[open] = finding[open]
    BY <1>2, <1>4, <1>10 DEF TypeOK
  <2> QED BY <1>5, <1>6, <1>8, <1>a, <2>1, AgentFacts, CapFacts
<1> QED BY <1>9, <1>10

LEMMA CapStep == ASSUME TypeOK, TypeOK', CapInv, Next PROVE CapInv'
<1>0. Ops
  BY DEF TypeOK, Ops
<1>1. ASSUME NEW a \in Agent, NEW r \in Run, CmdReviewStart(a, r) PROVE CapInv'
  BY <1>1, CapSame DEF CmdReviewStart, StartRun, Ready
<1>2. ASSUME NEW a \in Agent, NEW r \in Run,
             CmdReviewFinding(a, r) \/ CmdReviewImport(a, r) \/ CmdReviewFinish(a, r)
      PROVE  CapInv'
  <2>1. /\ op'[a].step \in {"next", "check", "finish"} /\ \A b \in Agent \ {a} : op'[b] = op[b]
        /\ UNCHANGED ledger
    BY <1>0, <1>2, BeginSteps DEF histories
  <2>2. \A q \in Run, f \in File : Ready(q, f)' \subseteq Ready(q, f)
    BY <2>1 DEF Ready
  <2> QED BY <2>1, <2>2, CapSame DEF ledger
<1>3. ASSUME NEW a \in Agent, NEW r \in Run, CmdInventorySuggestCuts(a, r) PROVE CapInv'
  <2>1. op'[a].step = "next" /\ \A b \in Agent \ {a} : op'[b] = op[b]
    BY <1>0, <1>3, CutEffect
  <2>2. \A q \in Run, f \in File : Ready(q, f)' \subseteq Ready(q, f)
    BY <2>1 DEF Ready
  <2> QED BY <1>3, <2>2, CapSame DEF CmdInventorySuggestCuts, StartRun
<1>4. ASSUME NEW a \in Agent, NextItem(a) PROVE CapInv'
  <2>1. op'[a].step = "check" /\ \A b \in Agent \ {a} : op'[b] = op[b]
    BY <1>0, <1>4, NextItemEffect
  <2>2. \A q \in Run, f \in File : Ready(q, f)' \subseteq Ready(q, f)
    BY <2>1 DEF Ready
  <2> QED BY <1>4, <2>2, CapSame DEF NextItem, ledger
<1>5. ASSUME NEW a \in Agent, NEW S, Moves(a, S), "insert" \notin S, UNCHANGED finding PROVE CapInv'
  <2>1. \A q \in Run, f \in File : Ready(q, f)' \subseteq Ready(q, f)
    BY <1>5 DEF Ready, Moves
  <2> QED BY <1>5, <2>1, CapSame
<1>6. ASSUME NEW a \in Agent,
             EndItems(a) \/ GetRun(a) \/ ValidateFinding(a) \/ InsertFails(a) \/ FinishRead(a)
      PROVE  CapInv'
  <2>1. UNCHANGED finding
    BY <1>6 DEF EndItems, GetRun, ValidateFinding, InsertFails, FinishRead, ledger
  <2>2. \E S \in {{"finish"}, {"count", "next", "finish"}, {"next", "finish"}, {"update"}} : Moves(a, S)
    BY <1>0, <1>6, QuietSteps
  <2> QED BY <1>5, <2>1, <2>2
<1>7. ASSUME NEW a \in Agent, CountFindings(a) PROVE CapInv'
  BY <1>7, CapCount
<1>8. ASSUME NEW a \in Agent, InsertFinding(a) PROVE CapInv'
  BY <1>8, CapInsert
<1>9. ASSUME NEW a \in Agent, AddFindingUncapped(a) PROVE CapInv'
  <2>1. Moves(a, {"next"})
    BY <1>0, <1>9, GoOnMoves DEF AddFindingUncapped, At
  <2>2. \A r \in Run, f \in File : Ready(r, f)' \subseteq Ready(r, f)
    BY <2>1 DEF Ready, Moves
  <2>3. finding' = [finding EXCEPT ![NewFinding(a, TRUE)] = @ + 1]
    BY <1>9 DEF AddFindingUncapped, Insert
  <2>4. NewFinding(a, TRUE).uncapped = TRUE
    BY DEF NewFinding
  <2> QED BY <2>2, <2>3, <2>4, CapUncapped
<1>10. ASSUME NEW a \in Agent, FinishUpdate(a) \/ Die(a) PROVE CapInv'
  <2>1. Moves(a, {}) /\ UNCHANGED finding
    BY <1>0, <1>10, ReturnMoves DEF FinishUpdate, Die, ledger
  <2> QED BY <1>5, <2>1
<1>11. ASSUME NEW x \in Finding, ResolveFinding(x) PROVE CapInv'
  <2>1. PICK y \in Finding :
            /\ y # x /\ y.run = x.run /\ y.file = x.file /\ y.uncapped = x.uncapped
            /\ finding[x] > 0
            /\ finding' = [z \in Finding |-> IF z = x THEN finding[x] - 1
                                             ELSE IF z = y THEN finding[y] + 1 ELSE finding[z]]
    BY <1>11, ResolveEffect
  <2>2. ASSUME NEW r \in Run, NEW f \in File PROVE Counted(r, f)' = Counted(r, f)
    <3> DEFINE open == Kind(r, f, "open", FALSE)
               retired == Kind(r, f, "retired", FALSE)
    <3>1. open \in Finding /\ retired \in Finding /\ open # retired
      BY KindFacts DEF Kind
    <3>2. /\ Counted(r, f) = finding[open] + finding[retired]
          /\ Counted(r, f)' = finding'[open] + finding'[retired]
      BY DEF Counted, Rows, Kind
    <3>3. CASE x.run = r /\ x.file = f /\ x.uncapped = FALSE
      <4>1. x.status \in {"open", "retired"} /\ y.status \in {"open", "retired"}
        BY DEF Finding
      <4>2. x = Kind(r, f, x.status, FALSE) /\ y = Kind(r, f, y.status, FALSE)
        <5>1. \A z \in Finding : z.run = r /\ z.file = f => z = Kind(r, f, z.status, z.uncapped)
          BY KindFacts
        <5> QED BY <2>1, <3>3, <5>1
      <4>3. (x = open /\ y = retired) \/ (x = retired /\ y = open)
        BY <2>1, <4>1, <4>2
      <4>4. finding[open] \in Nat /\ finding[retired] \in Nat
        BY <3>1 DEF TypeOK
      <4> HIDE DEF open, retired
      <4>5. \/ finding'[open] = finding[open] - 1 /\ finding'[retired] = finding[retired] + 1
            \/ finding'[open] = finding[open] + 1 /\ finding'[retired] = finding[retired] - 1
        BY <2>1, <3>1, <4>3
      <4> QED BY <3>2, <4>4, <4>5
    <3>4. CASE ~(x.run = r /\ x.file = f /\ x.uncapped = FALSE)
      <4>1. /\ open.run = r /\ open.file = f /\ open.uncapped = FALSE
            /\ retired.run = r /\ retired.file = f /\ retired.uncapped = FALSE
        BY DEF Kind
      <4>2. open # x /\ open # y /\ retired # x /\ retired # y
        BY <2>1, <3>4, <4>1
      <4> HIDE DEF open, retired
      <4> QED BY <2>1, <3>1, <3>2, <4>2
    <3> QED BY <3>3, <3>4
  <2> QED BY <1>11, <2>2, CapEqual DEF ResolveFinding, Ready
<1>12. CASE ArchiveFindings
  <2>1. \A x \in Finding : finding'[x] <= finding[x] /\ finding'[x] \in Nat /\ finding[x] \in Nat
    BY <1>12 DEF ArchiveFindings, TypeOK
  <2>2. ASSUME NEW r \in Run, NEW f \in File PROVE Counted(r, f)' <= Counted(r, f)
    <3>1. /\ Kind(r, f, "open", FALSE) \in Finding /\ Kind(r, f, "retired", FALSE) \in Finding
          /\ Counted(r, f) = finding[Kind(r, f, "open", FALSE)] + finding[Kind(r, f, "retired", FALSE)]
          /\ Counted(r, f)' = finding'[Kind(r, f, "open", FALSE)] + finding'[Kind(r, f, "retired", FALSE)]
      BY KindFacts DEF Counted, Rows, Kind
    <3> DEFINE open == Kind(r, f, "open", FALSE)
               retired == Kind(r, f, "retired", FALSE)
    <3> HIDE DEF open, retired
    <3>2. /\ Counted(r, f) = finding[open] + finding[retired]
          /\ Counted(r, f)' = finding'[open] + finding'[retired]
          /\ open \in Finding /\ retired \in Finding
      BY <3>1 DEF open, retired
    <3>3. /\ finding'[open] <= finding[open] /\ finding'[open] \in Nat /\ finding[open] \in Nat
          /\ finding'[retired] <= finding[retired] /\ finding'[retired] \in Nat
          /\ finding[retired] \in Nat
      BY <2>1, <3>2
    <3> QED BY <3>2, <3>3
  <2> QED BY <1>12, <2>2, CapQuiet DEF ArchiveFindings, Ready
<1>13. CASE ArchiveRuns
  BY <1>13, CapSame DEF ArchiveRuns, Ready
<1>14. ASSUME NEW k \in Filed, RestoreFinding(k) PROVE CapInv'
  <2>1. /\ RestoredFinding(k).uncapped = TRUE
        /\ finding' = [finding EXCEPT ![RestoredFinding(k)] = @ + 1]
    BY <1>14 DEF RestoreFinding, RestoredFinding
  <2>2. \A r \in Run, f \in File : Ready(r, f)' \subseteq Ready(r, f)
    BY <1>14 DEF RestoreFinding, Ready
  <2> QED BY <2>1, <2>2, CapUncapped
<1>15. ASSUME NEW q \in Run, RestoreRun(q) PROVE CapInv'
  BY <1>15, CapSame DEF RestoreRun, Ready
<1> QED
  BY <1>1, <1>2, <1>3, <1>4, <1>6, <1>7, <1>8, <1>9, <1>10, <1>11, <1>12, <1>13, <1>14, <1>15
     DEF Next, AgentStep, AddFinding, FinishRun

(***************************************************************************)
(* Runs that suggest-cuts opened.                                          *)
(***************************************************************************)
HeurInv ==
    /\ HeuristicRunsEnd
    /\ \A a \in Agent : op[a] # Idle /\ op[a].verb = "cut" => op[a].given = "id"
    /\ \A r \in heuristic : run[r] # "none"

\* The agent goes on with a run of the heuristics.
Cutting(a, r) == op[a] # Idle /\ op[a].verb = "cut" /\ op[a].run = r

\* Each run that stays open keeps the agent that cuts, or is abandoned.
LEMMA HeurKeep ==
    ASSUME TypeOK, HeurInv, UNCHANGED heuristic, abandoned \subseteq abandoned',
           \A r \in Run : /\ run'[r] = "open" => run[r] \in {"none", "open"}
                          /\ run'[r] = "none" => run[r] = "none",
           \A a \in Agent, r \in Run :
               Cutting(a, r) /\ run'[r] = "open" => Cutting(a, r)' \/ r \in abandoned',
           \A b \in Agent :
               op'[b] # Idle /\ op'[b].verb = "cut" =>
                   op[b] # Idle /\ op[b].verb = "cut" /\ op'[b].given = op[b].given
    PROVE  HeurInv'
<1>1. \A r \in heuristic' : run'[r] # "none"
  BY DEF HeurInv, TypeOK
<1>2. \A a \in Agent : op'[a] # Idle /\ op'[a].verb = "cut" => op'[a].given = "id"
  BY DEF HeurInv
<1>3. ASSUME NEW r \in heuristic', run'[r] = "open", r \notin abandoned'
      PROVE  \E a \in Agent : op'[a] # Idle /\ op'[a].verb = "cut" /\ op'[a].run = r
  <2>1. r \in heuristic /\ r \in Run /\ run[r] = "open" /\ r \notin abandoned
    BY <1>3 DEF HeurInv, TypeOK
  <2>2. PICK a \in Agent : Cutting(a, r)
    BY <2>1 DEF HeurInv, HeuristicRunsEnd, Cutting
  <2> QED BY <1>3, <2>1, <2>2 DEF Cutting
<1> QED BY <1>1, <1>2, <1>3 DEF HeurInv, HeuristicRunsEnd

\* The agent stays where it is or goes on, unless it was not cutting.
LEMMA HeurMoves ==
    ASSUME TypeOK, HeurInv, NEW a \in Agent, NEW S, Moves(a, S), op[a] # Idle,
           op[a].verb = "cut" => op'[a] \in Busy,
           UNCHANGED <<run, heuristic, abandoned>>
    PROVE  HeurInv'
<1>1. \A b \in Agent, r \in Run : Cutting(b, r) => Cutting(b, r)'
  BY IdleBusy DEF Cutting, Moves
<1>2. \A b \in Agent :
          op'[b] # Idle /\ op'[b].verb = "cut" =>
              op[b] # Idle /\ op[b].verb = "cut" /\ op'[b].given = op[b].given
  BY DEF Moves
<1> QED BY <1>1, <1>2, HeurKeep

\* Nobody moves.
LEMMA HeurStill ==
    ASSUME TypeOK, HeurInv, UNCHANGED <<op, heuristic, abandoned>>,
           \A r \in Run : /\ run'[r] = "open" => run[r] \in {"none", "open"}
                          /\ run'[r] = "none" => run[r] = "none"
    PROVE  HeurInv'
<1>1. \A b \in Agent, r \in Run : Cutting(b, r) => Cutting(b, r)'
  BY DEF Cutting
<1> QED BY <1>1, HeurKeep

\* An agent begins another verb.
LEMMA HeurBegin ==
    ASSUME TypeOK, HeurInv, NEW a \in Agent, NEW r \in Run,
           CmdReviewFinding(a, r) \/ CmdReviewImport(a, r) \/ CmdReviewFinish(a, r)
    PROVE  HeurInv'
<1>1. /\ op[a] = Idle /\ op'[a].verb # "cut" /\ \A b \in Agent \ {a} : op'[b] = op[b]
      /\ UNCHANGED <<run, heuristic, abandoned>>
  BY BeginSteps DEF TypeOK, Ops, ledger, histories
<1>2. \A b \in Agent, q \in Run : Cutting(b, q) => Cutting(b, q)'
  BY <1>1 DEF Cutting
<1>3. \A b \in Agent :
          op'[b] # Idle /\ op'[b].verb = "cut" =>
              op[b] # Idle /\ op[b].verb = "cut" /\ op'[b].given = op[b].given
  BY <1>1
<1> QED BY <1>1, <1>2, <1>3, HeurKeep

LEMMA HeurCut ==
    ASSUME TypeOK, HeurInv, NEW a \in Agent, NEW r \in Run, CmdInventorySuggestCuts(a, r)
    PROVE  HeurInv'
<1>1. /\ op[a] = Idle /\ op'[a] \in Busy /\ op'[a].verb = "cut" /\ op'[a].run = r
      /\ op'[a].given = "id" /\ \A b \in Agent \ {a} : op'[b] = op[b]
  BY CutEffect DEF TypeOK, Ops
<1>2. /\ run[r] = "none" /\ run' = [run EXCEPT ![r] = "open"]
      /\ heuristic' = heuristic \cup {r} /\ UNCHANGED abandoned
  BY DEF CmdInventorySuggestCuts, StartRun
<1>3. \A q \in heuristic' : run'[q] # "none"
  BY <1>2 DEF HeurInv, TypeOK
<1>4. \A b \in Agent : op'[b] # Idle /\ op'[b].verb = "cut" => op'[b].given = "id"
  BY <1>1 DEF HeurInv
<1>5. ASSUME NEW q \in heuristic', run'[q] = "open", q \notin abandoned'
      PROVE  \E b \in Agent : op'[b] # Idle /\ op'[b].verb = "cut" /\ op'[b].run = q
  <2>1. CASE q = r
    BY <1>1, <2>1, IdleBusy
  <2>2. CASE q # r
    <3>1. q \in heuristic /\ run[q] = "open" /\ q \notin abandoned
      BY <1>2, <1>5, <2>2 DEF TypeOK
    <3>2. PICK b \in Agent : op[b] # Idle /\ op[b].verb = "cut" /\ op[b].run = q
      BY <3>1 DEF HeurInv, HeuristicRunsEnd
    <3> QED BY <1>1, <3>2
  <2> QED BY <2>1, <2>2
<1> QED BY <1>3, <1>4, <1>5 DEF HeurInv, HeuristicRunsEnd

\* The read that finds the run finished, the update and a death end a cut.
LEMMA HeurEnd ==
    ASSUME TypeOK, HeurInv, NEW a \in Agent, FinishRead(a) \/ FinishUpdate(a) \/ Die(a)
    PROVE  HeurInv'
<1>0. Ops /\ UNCHANGED heuristic /\ abandoned \subseteq abandoned' /\ op[a] # Idle
  BY DEF TypeOK, Ops, FinishRead, FinishUpdate, Die, At, histories
<1>1. \E S : Moves(a, S)
  BY <1>0, QuietSteps, ReturnMoves DEF FinishUpdate, Die
<1>2. \A b \in Agent :
          op'[b] # Idle /\ op'[b].verb = "cut" =>
              op[b] # Idle /\ op[b].verb = "cut" /\ op'[b].given = op[b].given
  BY <1>0, <1>1 DEF Moves
<1>3. \A r \in Run : /\ run'[r] = "open" => run[r] \in {"none", "open"}
                     /\ run'[r] = "none" => run[r] = "none"
  BY DEF FinishRead, FinishUpdate, Die, ledger, TypeOK, RunStatus
<1>4. ASSUME NEW b \in Agent, NEW r \in Run, Cutting(b, r), run'[r] = "open"
      PROVE  Cutting(b, r)' \/ r \in abandoned'
  <2>1. CASE b # a
    BY <1>1, <1>4, <2>1 DEF Cutting, Moves
  <2>2. CASE b = a /\ op'[a] # Idle
    BY <1>1, <1>4, <2>2 DEF Cutting, Moves
  <2>3. CASE b = a /\ op'[a] = Idle /\ FinishRead(a)
    BY <1>0, <1>4, <2>3, QuietSteps DEF Cutting, FinishRead, ledger
  <2>4. CASE b = a /\ FinishUpdate(a)
    BY <1>4, <2>4 DEF Cutting, FinishUpdate, RunExists, HeurInv, TypeOK
  <2>5. CASE b = a /\ Die(a)
    BY <1>4, <2>5 DEF Cutting, Die
  <2> QED BY <2>1, <2>2, <2>3, <2>4, <2>5
<1> QED BY <1>0, <1>2, <1>3, <1>4, HeurKeep

LEMMA HeurStep == ASSUME TypeOK, HeurInv, Next PROVE HeurInv'
<1>0. Ops
  BY DEF TypeOK, Ops
<1>1. ASSUME NEW a \in Agent, NEW r \in Run, CmdReviewStart(a, r) PROVE HeurInv'
  BY <1>1, HeurStill DEF CmdReviewStart, StartRun, histories, TypeOK
<1>2. ASSUME NEW a \in Agent, NextItem(a) PROVE HeurInv'
  <2>1. /\ op[a] # Idle /\ op'[a] \in Busy /\ op'[a].verb = op[a].verb
        /\ op'[a].run = op[a].run /\ op'[a].given = op[a].given
        /\ \A b \in Agent \ {a} : op'[b] = op[b]
        /\ UNCHANGED <<run, heuristic, abandoned>>
    BY <1>0, <1>2, NextItemEffect DEF NextItem, ledger, histories
  <2>2. \A b \in Agent, q \in Run : Cutting(b, q) => Cutting(b, q)'
    BY <2>1, IdleBusy DEF Cutting
  <2>3. \A b \in Agent :
            op'[b] # Idle /\ op'[b].verb = "cut" =>
                op[b] # Idle /\ op[b].verb = "cut" /\ op'[b].given = op[b].given
    BY <2>1
  <2> QED BY <2>1, <2>2, <2>3, HeurKeep
<1>3. ASSUME NEW a \in Agent,
             EndItems(a) \/ GetRun(a) \/ ValidateFinding(a) \/ CountFindings(a) \/ InsertFails(a)
      PROVE  HeurInv'
  <2>1. UNCHANGED <<run, heuristic, abandoned>>
    BY <1>3 DEF EndItems, GetRun, ValidateFinding, CountFindings, InsertFails, ledger, histories
  <2>2. op[a] # Idle /\ (op[a].verb = "cut" => op'[a] \in Busy) /\ \E S : Moves(a, S)
    BY <1>0, <1>3, QuietSteps
  <2> QED BY <2>1, <2>2, HeurMoves
<1>4. ASSUME NEW a \in Agent, InsertFinding(a) \/ AddFindingUncapped(a) PROVE HeurInv'
  <2>1. UNCHANGED <<run, heuristic, abandoned>> /\ op[a] # Idle /\ GoOn(a)
    BY <1>4 DEF InsertFinding, AddFindingUncapped, Insert, At
  <2> QED BY <1>0, <2>1, GoOnMoves, HeurMoves
<1>5. ASSUME NEW x \in Finding, ResolveFinding(x) PROVE HeurInv'
  BY <1>5, HeurStill DEF ResolveFinding, histories
<1>6. CASE ArchiveFindings
  BY <1>6, HeurStill DEF ArchiveFindings, histories
<1>7. CASE ArchiveRuns
  BY <1>7, HeurStill DEF ArchiveRuns, histories, TypeOK
<1>8. ASSUME NEW k \in Filed, RestoreFinding(k) PROVE HeurInv'
  BY <1>8, HeurStill DEF RestoreFinding, histories
<1>9. ASSUME NEW q \in Run, RestoreRun(q) PROVE HeurInv'
  BY <1>9, HeurStill DEF RestoreRun, histories, TypeOK
<1> QED
  BY <1>1, <1>2, <1>3, <1>4, <1>5, <1>6, <1>7, <1>8, <1>9, HeurBegin, HeurCut, HeurEnd
     DEF Next, AgentStep, AddFinding, FinishRun

(***************************************************************************)
(* The theorems.                                                           *)
(***************************************************************************)
Inv == TypeOK /\ LateInv /\ CapInv /\ HeurInv

LEMMA InitInv == ASSUME Init PROVE Inv
<1>1. TypeOK
  BY ReviewAssumption DEF Init, TypeOK, RunStatus
<1>2. LateInv
  BY DEF Init, LateInv
<1>3. ASSUME NEW r \in Run, NEW f \in File
      PROVE  Counted(r, f) + Cardinality(Ready(r, f)) <= Cap + Cardinality(Agent) - 1
  <2> DEFINE open == Kind(r, f, "open", FALSE)
             retired == Kind(r, f, "retired", FALSE)
  <2>1. open \in Finding /\ retired \in Finding
    BY DEF Kind, Finding
  <2>2. Counted(r, f) = finding[open] + finding[retired]
    BY DEF Counted, Rows, Kind
  <2> HIDE DEF open, retired
  <2>3. Counted(r, f) = 0
    BY <2>1, <2>2 DEF Init
  <2>4. Ready(r, f) = {}
    BY DEF Init, Ready
  <2> QED BY <2>3, <2>4, FS_EmptySet, AgentFacts, CapFacts
<1>4. HeurInv
  BY DEF Init, HeurInv, HeuristicRunsEnd
<1> QED BY <1>1, <1>2, <1>3, <1>4 DEF Inv, CapInv

LEMMA Invariance == Spec => []Inv
<1>1. Inv /\ [Next]_vars => Inv'
  <2> SUFFICES ASSUME Inv, [Next]_vars PROVE Inv'
    OBVIOUS
  <2>1. CASE Next
    BY <2>1, TypeStep, LateStep, CapStep, HeurStep DEF Inv
  <2>2. CASE UNCHANGED vars
    <3>1. TypeOK' /\ LateInv' /\ HeurInv'
      BY <2>2 DEF vars, Inv, TypeOK, LateInv, Past, HeurInv, HeuristicRunsEnd
    <3>2. CapInv'
      BY <2>2, <3>1, CapSame DEF vars, Inv, Ready
    <3> QED BY <3>1, <3>2 DEF Inv
  <2> QED BY <2>1, <2>2
<1> QED BY InitInv, <1>1, PTL DEF Spec

\* Every row and every agent's state has its type (internal/domain/review).
THEOREM TypeCorrect == Spec => []TypeOK
BY Invariance, PTL DEF Inv

\* The findings of a file that any number of agents add without --force-cap exceed the
\* cap of the tier by at most one for each agent but one, also when the archive sweeps
\* and restores between them; what it restores comes on top (review.Service.AddFinding,
\* archive.Restore).
THEOREM CapCorrect == Spec => []CapBounded
<1>1. Inv => CapBounded
  <2> SUFFICES ASSUME Inv, NEW r \in Run, NEW f \in File
               PROVE  Rows(r, f, FALSE) <= Cap + Cardinality(Agent) - 1
    BY DEF CapBounded
  <2>1. Counted(r, f) + Cardinality(Ready(r, f)) <= Cap + Cardinality(Agent) - 1
    BY DEF Inv, CapInv
  <2>2. Counted(r, f) \in Nat
    BY RowsType DEF Inv
  <2>3. Counted(r, f) <= Cap + Cardinality(Agent) - 1
    BY <2>1, <2>2, ReadyCard, AgentFacts, CapFacts
  <2> QED BY <2>3 DEF Counted
<1> QED BY <1>1, Invariance, PTL

\* A finished run gets at most one more finding from each agent but the one that
\* finished it (review.Service.FinishRun).
THEOREM LateCorrect == Spec => []LateBounded
<1>1. Inv => LateBounded
  <2> SUFFICES ASSUME Inv, NEW r \in Run PROVE late[r] <= Cardinality(Agent) - 1
    BY DEF LateBounded
  <2>1. late[r] \in Nat /\ run[r] \in RunStatus
    BY DEF Inv, TypeOK
  <2>2. CASE run[r] \in {"none", "open"}
    BY <2>2, AgentFacts DEF Inv, LateInv
  <2>3. CASE run[r] \in {"finished", "archived"}
    BY <2>1, <2>3, PastCard, AgentFacts DEF Inv, LateInv
  <2> QED BY <2>1, <2>2, <2>3 DEF RunStatus
<1> QED BY <1>1, Invariance, PTL

\* A run of suggest-cuts stays open only under an agent still at it or one that died
\* (grasscutter.Run).
THEOREM HeuristicCorrect == Spec => []HeuristicRunsEnd
<1>1. Inv => HeuristicRunsEnd
  BY DEF Inv, HeurInv
<1> QED BY <1>1, Invariance, PTL
=============================================================================
