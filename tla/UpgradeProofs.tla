--------------------------- MODULE UpgradeProofs ---------------------------
(***************************************************************************)
(* Theorems about Upgrade, for any number of commands, versions and files: *)
(* types, what becomes of the Python ledger, what an import leaves in      *)
(* place, and the schema a verb works on.                                  *)
(***************************************************************************)
EXTENDS Upgrade, TLAPS

(***************************************************************************)
(* The inductive invariant.                                                *)
(***************************************************************************)

\* What has a name or is open was created.
Known ==
    /\ \A n \in Name : dir[n] \in (0..made) \cup {NoFile}
    /\ \A p \in Process : op[p].step \notin {"idle", "guard", "import", "close"} => op[p].on \in 0..made

Limit(p) == IF op[p].verb = "hub" THEN HubVersion ELSE MaxVersion

\* What a process takes for applied is, and one that is ready has applied everything.
Recorded ==
    \A p \in Process :
        /\ op[p].step \in {"migrate", "ready"} =>
               \A v \in op[p].applied : file[op[p].on].migs[v] # "none"
        /\ op[p].step = "ready" => 1..Limit(p) \subseteq op[p].applied

\* Only the Python ledger has Python's versions; it is the only backup, keeps its name
\* while an import goes on, and is the backup between the two renames.
LegacyPlace ==
    /\ file[Legacy].rows /\ file[Legacy].by = "python"
    /\ \A f \in File, v \in Version : file[f].migs[v] = "py" => f = Legacy
    /\ dir["backup"] \in {Legacy, NoFile}
    /\ dir["main"] = Legacy \/ dir["backup"] = Legacy
    /\ op[Importer].step \notin {"idle", "close", "replace", "restore"} => dir["main"] = Legacy
    /\ op[Importer].step \in {"replace", "restore"} => dir["backup"] = Legacy

Whole(f) == file[f].rows /\ \A v \in Version : file[f].migs[v] = "go"
Filled == {"archive", "remove", "rename", "replace"}

\* The file an import fills is new and, in place, the temporary one; once the copy is
\* done it is whole.
Filling ==
    /\ op[Importer].step \notin {"idle", "close"} => op[Importer].verb \in {"apply", "output"}
    /\ op[Importer].step # "ready"
    /\ op[Importer].step \in {"read", "migrate", "copy"} \cup Filled =>
           /\ op[Importer].on # Legacy
           /\ op[Importer].verb = "apply" => dir["tmp"] = op[Importer].on
    /\ op[Importer].step = "copy" => \A v \in Version : file[op[Importer].on].migs[v] = "go"
    /\ op[Importer].step \in Filled => op[Importer].verb = "apply" /\ Whole(op[Importer].on)

\* What an import put in place is whole, mixed or not: what a mixture does to the pages
\* is not in the model.
Placed == Exists("main") /\ file[dir["main"]].by = "import" => Whole(dir["main"])

Inv == TypeOK /\ Known /\ Recorded /\ LegacyPlace /\ Filling /\ Placed

(***************************************************************************)
(* Types.                                                                  *)
(***************************************************************************)
LEMMA InitInv == Init => Inv
<1> SUFFICES ASSUME Init PROVE Inv
  OBVIOUS
<1>1. /\ dir \in [Name -> File \cup {NoFile}] /\ file \in [File -> Content]
      /\ wal \in File \cup {NoFile} /\ made \in File /\ op \in [Process -> Op] /\ faults \in 0..MaxFaults
  BY UpgradeAssumption DEF Init, File, NoFile, Legacy, Name, Version, Content, Fresh, Idle, Doing,
                               Op, Step, Verb
<1>2. mixed \in BOOLEAN /\ disturbed \in BOOLEAN
  BY DEF Init
<1>3. Known /\ Recorded /\ LegacyPlace /\ Filling /\ Placed
  BY UpgradeAssumption
     DEF Init, Known, Recorded, LegacyPlace, Filling, Filled, Placed, Limit, Whole,
         Exists, Process, File, NoFile, Legacy, Name, Version, Fresh, Idle, Doing
<1> QED BY <1>1, <1>2, <1>3 DEF Inv, TypeOK

LEMMA FileFacts == Legacy \in File /\ NoFile \notin File /\ NoFile # Legacy
BY UpgradeAssumption DEF Legacy, File, NoFile

LEMMA GoType ==
    ASSUME op \in [Process -> Op], NEW p \in Process, NEW step \in Step, Go(p, step)
    PROVE  op' \in [Process -> Op]
BY DEF Go, Op

\* A process returns, or has only Context.DB left to close.
Over(p) == Return(p) \/ Finish(p)

LEMMA IdleType == Idle \in Op /\ Idle.step = "idle" /\ Idle.ctx = NoFile
BY DEF Idle, Doing, Op, Verb, Step

LEMMA ClosingType ==
    ASSUME NEW ctx \in File \cup {NoFile}
    PROVE  /\ Closing(ctx) \in Op /\ Closing(ctx).step = "close" /\ Closing(ctx).verb = "none"
           /\ Closing(ctx).ctx = ctx
BY DEF Closing, Doing, Op, Verb, Step

LEMMA FinishEffect ==
    ASSUME op \in [Process -> Op], NEW p \in Process, Finish(p)
    PROVE  /\ op' \in [Process -> Op] /\ \A q \in Process \ {p} : op'[q] = op[q]
           /\ op'[p].step = "close" /\ op'[p].verb = "none" /\ op'[p].ctx = op[p].ctx
<1>1. op[p].ctx \in File \cup {NoFile}
  BY DEF Op
<1> QED BY <1>1, ClosingType DEF Finish

LEMMA OverEffect ==
    ASSUME op \in [Process -> Op], NEW p \in Process, Over(p)
    PROVE  /\ op' \in [Process -> Op] /\ op'[p].step \in {"idle", "close"}
           /\ \A q \in Process \ {p} : op'[q] = op[q]
BY IdleType, FinishEffect DEF Over, Return

LEMMA WalType ==
    ASSUME TypeOK, NEW p \in Process
    PROVE  /\ Committed(p) \in File \cup {NoFile}
           /\ \A frames \in File \cup {NoFile} : Released(p, frames) \in File \cup {NoFile}
BY DEF TypeOK, Op, Committed, Released

LEMMA JoinType == ASSUME TypeOK, Joins PROVE mixed' \in BOOLEAN /\ disturbed' \in BOOLEAN
BY DEF TypeOK, Joins

LEMMA FreshType == \A by \in {"python", "init", "import"} : Fresh(by) \in Content
BY DEF Fresh, Content

LEMMA NewFileType ==
    ASSUME TypeOK, NEW n \in Name, NEW by \in {"init", "import"}, NewFile(n, by)
    PROVE  /\ dir' \in [Name -> File \cup {NoFile}] /\ file' \in [File -> Content]
           /\ made' \in File /\ made + 1 \in File
<1>1. made + 1 \in File
  BY UpgradeAssumption DEF TypeOK, NewFile, File
<1> QED BY <1>1, FreshType DEF TypeOK, NewFile

LEMMA FaultType == ASSUME TypeOK, MayFail PROVE faults' \in 0..MaxFaults
BY UpgradeAssumption DEF TypeOK, MayFail

LEMMA AbandonType ==
    ASSUME TypeOK, Abandon
    PROVE  dir' \in [Name -> File \cup {NoFile}] /\ op' \in [Process -> Op]
BY OverEffect DEF TypeOK, Abandon, Process, Name, Over

\* The process p has the record r now, and the others what they had.
Begins(p, r) ==
    /\ op' \in [Process -> Op] /\ \A q \in Process \ {p} : op'[q] = op[q]
    /\ op'[p] = r

LEMMA DoingType ==
    ASSUME NEW verb \in Verb, NEW step \in Step, NEW ctx \in File \cup {NoFile},
           NEW on \in File \cup {NoFile}
    PROVE  Doing(verb, step, ctx, on) \in Op
BY DEF Doing, Op

LEMMA MainType == ASSUME TypeOK PROVE dir["main"] \in File \cup {NoFile}
BY DEF TypeOK, Name

LEMMA MadeType == ASSUME TypeOK, NEW n \in Name, NewFile(n, "init") PROVE made + 1 \in File
BY NewFileType

\* What a command that begins changes.
LEMMA InitEffect ==
    ASSUME TypeOK, NEW p \in Process, CmdInit(p)
    PROVE  \E f \in File :
             /\ \/ Exists("main") /\ f = dir["main"] /\ UNCHANGED <<dir, file, made>>
                \/ ~Exists("main") /\ f = made + 1 /\ NewFile("main", "init")
             /\ Begins(p, Doing("init", "read", f, f))
<1>1. ASSUME NEW f \in File PROVE Doing("init", "read", f, f) \in Op
  BY DoingType DEF Verb, Step
<1>2. Exists("main") => dir["main"] \in File
  BY MainType DEF Exists
<1>3. NewFile("main", "init") => made + 1 \in File
  BY MadeType DEF Name
<1> QED BY <1>1, <1>2, <1>3 DEF CmdInit, Begins, TypeOK

LEMMA RequireEffect ==
    ASSUME TypeOK, NEW p \in Process, RequireDB(p)
    PROVE  /\ UNCHANGED <<dir, file, wal, made, faults>> /\ Exists("main")
           /\ \/ Begins(p, Closing(dir["main"]))
              \/ Begins(p, Doing("require", "read", dir["main"], dir["main"]))
<1>1. Doing("require", "read", dir["main"], dir["main"]) \in Op /\ Closing(dir["main"]) \in Op
  BY MainType, DoingType, ClosingType DEF Verb, Step
<1> QED BY <1>1 DEF RequireDB, Begins, TypeOK

LEMMA HubEffect ==
    ASSUME TypeOK, NEW p \in Process, OpenHub(p)
    PROVE  \E f \in File :
             /\ \/ Exists("hub") /\ f = dir["hub"] /\ UNCHANGED <<dir, file, made>>
                \/ ~Exists("hub") /\ f = made + 1 /\ NewFile("hub", "init")
             /\ Begins(p, Doing("hub", "read", dir["main"], f))
<1>1. ASSUME NEW f \in File PROVE Doing("hub", "read", dir["main"], f) \in Op
  BY MainType, DoingType DEF Verb, Step
<1>2. Exists("hub") => dir["hub"] \in File
  BY DEF TypeOK, Name, Exists
<1>3. NewFile("hub", "init") => made + 1 \in File
  BY MadeType DEF Name
<1> QED BY <1>1, <1>2, <1>3 DEF OpenHub, Begins, TypeOK

\* What an import begins with, but for its options.
Importing(r, verb) ==
    r.step \in {"guard", "import"} /\ r.verb = verb /\ r.ctx = dir["main"]

LEMMA InspectEffect ==
    ASSUME TypeOK, NEW verb \in {"apply", "output"}, NEW force \in BOOLEAN, NEW noArchive \in BOOLEAN,
           InspectPythonDB(verb, force, noArchive)
    PROVE  \/ /\ Exists("main") /\ UNCHANGED <<dir, file, wal, made>>
              /\ \/ Begins(Importer, Closing(dir["main"]))
                 \/ /\ DetectSchema(dir["main"]) = "python"
                    /\ \E r \in Op : Importing(r, verb) /\ Begins(Importer, r)
           \/ ~Exists("main") /\ NewFile("main", "init") /\ wal' = NoFile /\ UNCHANGED op
<1> DEFINE step == IF verb = "apply" THEN "guard" ELSE "import"
           r == [Doing(verb, step, dir["main"], NoFile) EXCEPT !.force = force, !.noArchive = noArchive]
<1>1. step \in {"guard", "import"}
  OBVIOUS
<1> HIDE DEF step
<1>2. r \in Op /\ Importing(r, verb)
  BY <1>1, MainType DEF Doing, Op, Verb, Step, Importing
<1>3. Closing(dir["main"]) \in Op
  BY MainType, ClosingType
<1>4. CASE Exists("main") /\ UNCHANGED <<dir, file, wal, made>>
  <2>1. \/ op' = [op EXCEPT ![Importer] = r] /\ DetectSchema(dir["main"]) = "python"
        \/ op' = [op EXCEPT ![Importer] = Closing(dir["main"])]
    BY <1>4 DEF InspectPythonDB, step
  <2> HIDE DEF r
  <2> QED BY <1>2, <1>3, <1>4, <2>1 DEF TypeOK, Process, Begins
<1> QED BY <1>4 DEF InspectPythonDB

LEMMA TypeStep == ASSUME TypeOK, LegacyPlace, Acts PROVE TypeOK'
<1> Importer \in Process /\ Command \subseteq Process
  BY DEF Process
<1>1. ASSUME NEW p \in Process, ReadApplied(p) PROVE TypeOK'
  <2> DEFINE applied == {v \in Version : file[op[p].on].migs[v] # "none"}
  <2>1. op' = [op EXCEPT ![p] = [op[p] EXCEPT !.step = "migrate", !.applied = applied]]
    BY <1>1 DEF ReadApplied, TypeOK, Op
  <2>2. [op[p] EXCEPT !.step = "migrate", !.applied = applied] \in Op
    BY DEF TypeOK, Op, Step
  <2> QED BY <1>1, <2>1, <2>2, WalType DEF TypeOK, ReadApplied, histories
<1>2. ASSUME NEW p \in Process, ApplyVersion(p) PROVE TypeOK'
  <2>1. PICK v \in Pending(p) :
           \/ /\ file' = [file EXCEPT ![op[p].on].migs[v] = "go"]
              /\ wal' = Committed(p)
              /\ op' = [op EXCEPT ![p].applied = @ \cup {v}]
           \/ Finish(p) /\ UNCHANGED <<file, wal>>
    BY <1>2 DEF ApplyVersion
  <2>2. v \in Version
    BY UpgradeAssumption DEF Pending, Version
  <2>3. CASE /\ file' = [file EXCEPT ![op[p].on].migs[v] = "go"]
             /\ wal' = Committed(p)
             /\ op' = [op EXCEPT ![p].applied = @ \cup {v}]
    <3>1. op' \in [Process -> Op]
      BY <2>2, <2>3 DEF TypeOK, Op
    <3>2. file' \in [File -> Content]
      BY <2>2, <2>3 DEF TypeOK, Content
    <3> QED BY <1>2, <2>3, <3>1, <3>2, WalType DEF TypeOK, ApplyVersion, histories
  <2>4. CASE Finish(p) /\ UNCHANGED <<file, wal>>
    BY <1>2, <2>4, FinishEffect DEF TypeOK, ApplyVersion, histories
  <2> QED BY <2>1, <2>3, <2>4
<1>3. ASSUME NEW p \in Process, Migrated(p) PROVE TypeOK'
  BY <1>3, GoType DEF TypeOK, Migrated, Step, histories
<1>4. ASSUME NEW p \in Process, Die(p) PROVE TypeOK'
  BY <1>4, OverEffect, FaultType DEF TypeOK, Die, Over
<1>5. ASSUME NEW p \in Command, CmdInit(p) PROVE TypeOK'
  <2>1. op' \in [Process -> Op] /\ wal' \in File \cup {NoFile} /\ faults' = faults
    BY <1>5, InitEffect DEF TypeOK, CmdInit, Begins
  <2>2. UNCHANGED <<dir, file, made>> \/ NewFile("main", "init")
    BY <1>5 DEF CmdInit
  <2> QED BY <1>5, <2>1, <2>2, NewFileType, JoinType DEF TypeOK, CmdInit, Name
<1>6. ASSUME NEW p \in Command, RequireDB(p) PROVE TypeOK'
  BY <1>6, RequireEffect, JoinType DEF RequireDB, TypeOK, Begins
<1>7. ASSUME NEW p \in Command, OpenHub(p) PROVE TypeOK'
  <2>1. mixed' \in BOOLEAN /\ disturbed' \in BOOLEAN /\ UNCHANGED <<wal, faults>>
    BY <1>7, JoinType DEF OpenHub, TypeOK, histories
  <2>2. op' \in [Process -> Op] /\ (UNCHANGED <<dir, file, made>> \/ NewFile("hub", "init"))
    BY <1>7, HubEffect DEF Begins
  <2> QED BY <2>1, <2>2, NewFileType DEF TypeOK, Name
<1>8. ASSUME NEW p \in Command, CommandEnds(p) PROVE TypeOK'
  <2>1. wal' \in File \cup {NoFile}
    BY <1>8, WalType DEF TypeOK, CommandEnds
  <2> QED BY <1>8, <2>1, OverEffect DEF TypeOK, CommandEnds, Over, histories
<1>9. ASSUME NEW verb \in {"apply", "output"}, NEW force \in BOOLEAN, NEW noArchive \in BOOLEAN,
             InspectPythonDB(verb, force, noArchive)
      PROVE  TypeOK'
  <2>1. mixed' \in BOOLEAN /\ disturbed' \in BOOLEAN /\ faults' = faults
    BY <1>9, JoinType DEF InspectPythonDB
  <2>2. \/ UNCHANGED <<dir, file, wal, made>> /\ op' \in [Process -> Op]
        \/ NewFile("main", "init") /\ wal' = NoFile /\ UNCHANGED op
    BY <1>9, InspectEffect DEF Begins
  <2> QED BY <2>1, <2>2, NewFileType DEF TypeOK, Name
<1>10. CASE ApplyInPlace
  BY <1>10, OverEffect, GoType DEF TypeOK, ApplyInPlace, Name, Step, Over, histories
<1>11. CASE ImportPythonDB
  <2>1. CASE /\ NewFile(Target, "import")
             /\ op' = [op EXCEPT ![Importer].step = "read", ![Importer].on = made + 1]
    <3>1. /\ dir' \in [Name -> File \cup {NoFile}] /\ file' \in [File -> Content]
          /\ made' \in File /\ made + 1 \in File
      BY <2>1, NewFileType DEF Target, Name
    <3>2. [op[Importer] EXCEPT !.step = "read", !.on = made + 1] \in Op
      BY <3>1 DEF TypeOK, Op, Step
    <3>3. op' = [op EXCEPT ![Importer] = [op[Importer] EXCEPT !.step = "read", !.on = made + 1]]
      BY <2>1 DEF TypeOK, Op
    <3> QED BY <1>11, <3>1, <3>2, <3>3 DEF TypeOK, ImportPythonDB, histories
  <2>2. CASE Abandon /\ UNCHANGED <<file, made>>
    BY <1>11, <2>2, AbandonType DEF TypeOK, ImportPythonDB, histories
  <2> QED BY <1>11, <2>1, <2>2 DEF ImportPythonDB
<1>12. CASE CopyLegacyData
  <2>1. op' \in [Process -> Op]
    BY <1>12, GoType, OverEffect DEF TypeOK, CopyLegacyData, Step, Over
  <2>2. file' \in [File -> Content]
    <3>1. dir["main"] \in File
      BY <1>12, FileFacts DEF LegacyPlace, CopyLegacyData, At
    <3>2. /\ file[dir["main"]].rows \in BOOLEAN
          /\ file' = [file EXCEPT ![op[Importer].on].rows = file[dir["main"]].rows]
      BY <1>12, <3>1 DEF TypeOK, CopyLegacyData, Content
    <3> QED BY <3>2 DEF TypeOK, Content
  <2> QED BY <1>12, <2>1, <2>2 DEF TypeOK, CopyLegacyData, histories
<1>13. CASE ArchivePythonOnly
  BY <1>13, GoType DEF TypeOK, ArchivePythonOnly, Step, histories
<1>14. CASE ImportFails
  BY <1>14, AbandonType, FaultType DEF TypeOK, ImportFails, histories
<1>15. CASE RemoveBackup
  BY <1>15, GoType DEF TypeOK, RemoveBackup, Step, histories
<1>16. CASE RenameLedger
  BY <1>16, GoType DEF TypeOK, RenameLedger, Step, Name, histories
<1>17. CASE RenameImported
  BY <1>17, OverEffect DEF TypeOK, RenameImported, Name, Over, histories
<1>18. CASE RenameImportedFails
  BY <1>18, GoType, FaultType DEF TypeOK, RenameImportedFails, Step, histories
<1>19. CASE RestoreBackup
  BY <1>19, OverEffect DEF TypeOK, RestoreBackup, Name, Over, histories
<1>20. CASE ImportEnds
  BY <1>20, OverEffect, WalType DEF TypeOK, ImportEnds, Over, histories
<1>21. CASE Rollback
  BY <1>21 DEF TypeOK, Rollback, Name
<1>22. ASSUME NEW p \in Process, Mix(p) PROVE TypeOK'
  BY <1>22 DEF TypeOK, Mix
<1> QED
  BY <1>1, <1>2, <1>3, <1>4, <1>5, <1>6, <1>7, <1>8, <1>9, <1>10, <1>11, <1>12, <1>13, <1>14,
     <1>15, <1>16, <1>17, <1>18, <1>19, <1>20, <1>21, <1>22
     DEF Acts, RunAll, RunHub, CmdImport

(***************************************************************************)
(* Files only grow: nothing that exists loses rows, versions or its author.*)
(***************************************************************************)
Grows ==
    \A f \in 0..made :
        /\ file[f].rows => file'[f].rows
        /\ file'[f].by = file[f].by
        /\ \A v \in Version :
               file[f].migs[v] # "none" => file'[f].migs[v] = file[f].migs[v]

LEMMA NewFileEffect ==
    ASSUME TypeOK, NEW n \in Name, NEW by \in {"init", "import"}, NewFile(n, by)
    PROVE  /\ made' = made + 1 /\ made + 1 \in File
           /\ made + 1 \notin 0..made /\ made + 1 # Legacy /\ made + 1 # NoFile
           /\ file'[made + 1] = Fresh(by)
           /\ \A f \in File : f # made + 1 => file'[f] = file[f]
           /\ 0..made \subseteq File /\ 0..made \subseteq 0..made'
           /\ dir'[n] = made + 1 /\ \A m \in Name : m # n => dir'[m] = dir[m]
<1>1. made \in Nat /\ made + 1 \in File /\ made < MaxFile /\ MaxFile \in Nat
  BY UpgradeAssumption DEF TypeOK, NewFile, File
<1> QED BY <1>1 DEF TypeOK, NewFile, File, Legacy, NoFile

LEMMA MadeFacts == ASSUME TypeOK PROVE 0..made \subseteq File /\ Legacy \in 0..made
BY UpgradeAssumption DEF TypeOK, File, Legacy

\* What a committed version changes.
Applied(p, v) ==
    /\ op[p].step = "migrate" /\ op[p].on \in 0..made
    /\ file[op[p].on].migs[v] = "none"
    /\ file'[op[p].on].migs[v] = "go"
    /\ \A u \in Version \ {v} : file'[op[p].on].migs[u] = file[op[p].on].migs[u]
    /\ \A f \in File : f # op[p].on => file'[f] = file[f]
    /\ \A f \in File : file'[f].rows = file[f].rows /\ file'[f].by = file[f].by
    /\ op' = [op EXCEPT ![p] = [op[p] EXCEPT !.applied = op[p].applied \cup {v}]]
    /\ UNCHANGED <<dir, made>>

LEMMA ApplyEffect ==
    ASSUME TypeOK, Known, NEW p \in Process, ApplyVersion(p)
    PROVE  \/ Finish(p) /\ UNCHANGED <<dir, file, wal, made>>
           \/ (\E v \in Version : Applied(p, v)) /\ wal' = Committed(p)
<1> DEFINE on == op[p].on
<1>1. PICK v \in Pending(p) :
          \/ /\ file[on].migs[v] = "none"
             /\ file' = [file EXCEPT ![on].migs[v] = "go"]
             /\ wal' = Committed(p)
             /\ op' = [op EXCEPT ![p].applied = @ \cup {v}]
          \/ Finish(p) /\ UNCHANGED <<file, wal>>
  BY DEF ApplyVersion
<1>2. v \in Version
  BY UpgradeAssumption DEF Pending, Version
<1>3. ASSUME file[on].migs[v] = "none", file' = [file EXCEPT ![on].migs[v] = "go"],
             op' = [op EXCEPT ![p].applied = @ \cup {v}]
      PROVE  Applied(p, v)
  <2>1. op[p].step = "migrate" /\ on \in 0..made /\ on \in File
    BY MadeFacts DEF ApplyVersion, Known
  <2>2. file[on] \in Content /\ file[on].migs \in [Version -> {"none", "go", "py"}]
    BY <2>1 DEF TypeOK, Content
  <2> DEFINE new == [file[on] EXCEPT !.migs = [file[on].migs EXCEPT ![v] = "go"]]
  <2>3. \A f \in File : file'[f] = IF f = on THEN new ELSE file[f]
    BY <1>3 DEF TypeOK
  <2>4. /\ new.migs[v] = "go" /\ \A u \in Version \ {v} : new.migs[u] = file[on].migs[u]
        /\ new.rows = file[on].rows /\ new.by = file[on].by
    BY <1>2, <2>2 DEF Content
  <2>5. op' = [op EXCEPT ![p] = [op[p] EXCEPT !.applied = op[p].applied \cup {v}]]
    BY <1>3 DEF TypeOK
  <2> HIDE DEF new
  <2> QED BY <1>3, <2>1, <2>3, <2>4, <2>5 DEF Applied, ApplyVersion
<1> QED BY <1>1, <1>2, <1>3 DEF ApplyVersion

LEMMA ReadEffect ==
    ASSUME op \in [Process -> Op], NEW p \in Process, ReadApplied(p)
    PROVE  /\ \A q \in Process \ {p} : op'[q] = op[q]
           /\ op'[p].step = "migrate" /\ op'[p].on = op[p].on /\ op'[p].verb = op[p].verb
           /\ op'[p].ctx = op[p].ctx
           /\ op'[p].applied = {v \in Version : file[op[p].on].migs[v] # "none"}
<1> DEFINE applied == {v \in Version : file[op[p].on].migs[v] # "none"}
<1>1. op' = [op EXCEPT ![p] = [op[p] EXCEPT !.step = "migrate", !.applied = applied]]
  BY DEF ReadApplied, Op
<1>2. op[p] \in Op
  OBVIOUS
<1> HIDE DEF applied
<1> QED BY <1>1, <1>2 DEF Op, applied

LEMMA FilesGrow == ASSUME Inv, Acts PROVE Grows
<1> USE DEF Inv
<1>1. ASSUME UNCHANGED file PROVE Grows
  BY <1>1 DEF Grows
<1>2. ASSUME NEW n \in Name, NEW by \in {"init", "import"}, NewFile(n, by) PROVE Grows
  BY <1>2, NewFileEffect DEF Grows
<1>3. ASSUME NEW p \in Process, ApplyVersion(p) PROVE Grows
  <2>1. CASE UNCHANGED file
    BY <1>1, <2>1
  <2>2. ASSUME NEW v \in Version, Applied(p, v) PROVE Grows
    BY <2>2, MadeFacts DEF Applied, Grows
  <2> QED BY <1>3, <2>1, <2>2, ApplyEffect
<1>4. CASE CopyLegacyData
  <2>1. file[dir["main"]].rows = TRUE
    BY <1>4 DEF CopyLegacyData, At, LegacyPlace, TypeOK, Content
  <2> DEFINE on == op[Importer].on
  <2>2. file' = [file EXCEPT ![on] = [file[on] EXCEPT !.rows = TRUE]]
    BY <1>4, <2>1 DEF CopyLegacyData
  <2>3. /\ [file[on] EXCEPT !.rows = TRUE].by = file[on].by
        /\ [file[on] EXCEPT !.rows = TRUE].migs = file[on].migs
        /\ [file[on] EXCEPT !.rows = TRUE].rows
    BY <1>4, MadeFacts DEF CopyLegacyData, At, Known, Process, TypeOK, Content
  <2>4. \A f \in File : file'[f] = IF f = on THEN [file[on] EXCEPT !.rows = TRUE] ELSE file[f]
    BY <2>2 DEF TypeOK
  <2> QED BY <2>3, <2>4, MadeFacts DEF Grows
<1>5. ASSUME NEW p \in Command, CmdInit(p) \/ OpenHub(p) PROVE Grows
  BY <1>5, <1>1, <1>2 DEF CmdInit, OpenHub, Name
<1>6. ASSUME NEW p \in Process, Mix(p) PROVE Grows
  BY <1>6, <1>1 DEF Mix
<1>7. CASE CmdImport
  BY <1>7, <1>1, <1>2 DEF CmdImport, InspectPythonDB, Name
<1>8. CASE ImportPythonDB
  BY <1>8, <1>1, <1>2 DEF ImportPythonDB, Target, Name
<1>9. ASSUME NEW p \in Process,
             ReadApplied(p) \/ Migrated(p) \/ Die(p) \/ RequireDB(p) \/ CommandEnds(p)
      PROVE  Grows
  BY <1>9, <1>1 DEF ReadApplied, Migrated, Die, RequireDB, CommandEnds
<1>10. ASSUME ApplyInPlace \/ ArchivePythonOnly \/ ImportFails \/ RemoveBackup \/ RenameLedger
              \/ RenameImported \/ RenameImportedFails \/ RestoreBackup \/ ImportEnds \/ Rollback
       PROVE  Grows
  BY <1>10, <1>1 DEF ApplyInPlace, ArchivePythonOnly, ImportFails, RemoveBackup, RenameLedger,
                     RenameImported, RenameImportedFails, RestoreBackup, ImportEnds, Rollback
<1> QED BY <1>3, <1>4, <1>5, <1>6, <1>7, <1>8, <1>9, <1>10 DEF Acts, RunAll, RunHub, Process

(***************************************************************************)
(* What has a name or is open was created.                                 *)
(***************************************************************************)
LEMMA KnownStep == ASSUME Inv, Acts PROVE Known'
<1> USE DEF Inv
<1> Importer \in Process /\ Command \subseteq Process
  BY DEF Process
<1> op \in [Process -> Op] /\ dir \in [Name -> File \cup {NoFile}]
  BY DEF TypeOK
<1> DEFINE Named == dir' \in [Name -> (0..made') \cup {NoFile}]
           Open(p) == op'[p].step \notin {"idle", "guard", "import", "close"} => op'[p].on \in 0..made'
           Rest(p) == \A q \in Process \ {p} : op'[q] = op[q]
<1>0. dir \in [Name -> (0..made) \cup {NoFile}]
  BY DEF Known
<1>1. ASSUME NEW n \in Name, NEW by \in {"init", "import"}, NewFile(n, by)
      PROVE  Named /\ made + 1 \in 0..made' /\ 0..made \subseteq 0..made'
  <2>1. made + 1 \in 0..made' /\ 0..made \subseteq 0..made'
    BY <1>1, UpgradeAssumption DEF TypeOK, File, NewFile
  <2> QED BY <1>0, <1>1, <2>1 DEF NewFile
<1>2. ASSUME Named, NEW p \in Process, Rest(p), Open(p), 0..made \subseteq 0..made'
      PROVE  Known'
  BY <1>2 DEF Known
<1>3. ASSUME NEW p \in Process, Over(p) PROVE Rest(p) /\ Open(p)
  BY <1>3, OverEffect
<1>4. ASSUME NEW p \in Process, NEW step, Go(p, step), UNCHANGED made,
             op[p].step \notin {"idle", "guard", "import", "close"} \/ step = "import"
      PROVE  Rest(p) /\ Open(p)
  BY <1>4 DEF Go, Op, Known
<1>5. ASSUME NEW n \in {"main", "hub"}, NEW f \in File,
             \/ Exists(n) /\ f = dir[n] /\ UNCHANGED <<dir, file, made>>
             \/ ~Exists(n) /\ f = made + 1 /\ NewFile(n, "init")
      PROVE  Named /\ f \in 0..made' /\ 0..made \subseteq 0..made'
  <2>0. n \in Name
    BY DEF Name
  <2>1. CASE Exists(n) /\ f = dir[n] /\ UNCHANGED <<dir, file, made>>
    BY <1>0, <2>0, <2>1 DEF Exists
  <2>2. CASE NewFile(n, "init") /\ f = made + 1
    BY <1>1, <2>0, <2>2
  <2> QED BY <1>5, <2>1, <2>2
<1>6. ASSUME NEW p \in Process, ReadApplied(p) PROVE Known'
  <2>1. Rest(p) /\ Open(p)
    BY <1>6 DEF ReadApplied, Op, Known
  <2> QED BY <1>0, <1>2, <1>6, <2>1 DEF ReadApplied
<1>7. ASSUME NEW p \in Process, ApplyVersion(p) PROVE Known'
  <2>1. Rest(p) /\ Open(p)
    BY <1>3, <1>7 DEF ApplyVersion, Op, Known, Over
  <2> QED BY <1>0, <1>2, <1>7, <2>1 DEF ApplyVersion
<1>8. ASSUME NEW p \in Process, Migrated(p) \/ Die(p) \/ CommandEnds(p) PROVE Known'
  <2>1. UNCHANGED <<dir, made>>
    BY <1>8 DEF Migrated, Die, CommandEnds
  <2>2. Rest(p) /\ Open(p)
    BY <1>3, <1>4, <1>8, <2>1 DEF Migrated, Die, CommandEnds, Over
  <2> QED BY <1>0, <1>2, <2>1, <2>2
<1>9. ASSUME NEW p \in Command, CmdInit(p) \/ OpenHub(p) PROVE Known'
  <2>1. PICK n \in {"main", "hub"}, verb \in Verb, ctx \in File \cup {NoFile}, f \in File :
            /\ \/ Exists(n) /\ f = dir[n] /\ UNCHANGED <<dir, file, made>>
               \/ ~Exists(n) /\ f = made + 1 /\ NewFile(n, "init")
            /\ Begins(p, Doing(verb, "read", ctx, f))
    <3>1. CASE CmdInit(p)
      BY <3>1, InitEffect DEF Verb
    <3>2. CASE OpenHub(p)
      BY <3>2, HubEffect, MainType DEF Verb
    <3> QED BY <1>9, <3>1, <3>2
  <2>2. Named /\ f \in 0..made' /\ 0..made \subseteq 0..made'
    BY <1>5, <2>1
  <2>3. Rest(p) /\ Open(p)
    BY <2>1, <2>2 DEF Begins, Doing
  <2> QED BY <1>2, <2>2, <2>3
<1>10. ASSUME NEW p \in Command, RequireDB(p) PROVE Known'
  <2>1. Rest(p) /\ Open(p) /\ UNCHANGED <<dir, made>>
    BY <1>0, <1>10, RequireEffect DEF Begins, Closing, Doing, Exists, Name
  <2> QED BY <1>0, <1>2, <2>1
<1>11. ASSUME NEW verb \in {"apply", "output"}, NEW force \in BOOLEAN, NEW noArchive \in BOOLEAN,
              InspectPythonDB(verb, force, noArchive)
       PROVE  Known'
  <2>1. CASE NewFile("main", "init") /\ UNCHANGED op
    BY <1>1, <1>2, <2>1 DEF Known, Name
  <2>2. CASE UNCHANGED <<dir, made>> /\ Begins(Importer, Closing(dir["main"]))
    <3>1. Rest(Importer) /\ Open(Importer)
      BY <2>2 DEF Begins, Closing, Doing
    <3> QED BY <1>0, <1>2, <2>2, <3>1
  <2>3. ASSUME UNCHANGED <<dir, made>>, NEW r, Importing(r, verb), Begins(Importer, r) PROVE Known'
    <3>1. Rest(Importer) /\ Open(Importer)
      BY <2>3 DEF Begins, Importing
    <3> QED BY <1>0, <1>2, <2>3, <3>1
  <2> QED BY <1>11, <2>1, <2>2, <2>3, InspectEffect
<1>12. CASE ApplyInPlace
  <2>1. Named /\ UNCHANGED made
    BY <1>0, <1>12 DEF ApplyInPlace
  <2>2. Rest(Importer) /\ Open(Importer)
    BY <1>3, <1>4, <1>12, <2>1 DEF ApplyInPlace, Over
  <2> QED BY <1>2, <2>1, <2>2
<1>13. CASE ImportPythonDB
  <2>1. CASE /\ NewFile(Target, "import")
             /\ op' = [op EXCEPT ![Importer].step = "read", ![Importer].on = made + 1]
    <3>1. Named /\ made + 1 \in 0..made' /\ 0..made \subseteq 0..made'
      BY <1>1, <2>1 DEF Target, Name
    <3>2. Rest(Importer) /\ Open(Importer)
      BY <2>1, <3>1 DEF Op
    <3> QED BY <1>2, <3>1, <3>2
  <2>2. CASE Abandon /\ UNCHANGED <<file, made>>
    BY <1>0, <1>2, <1>3, <2>2 DEF Abandon, Over
  <2> QED BY <1>13, <2>1, <2>2 DEF ImportPythonDB
<1>14. CASE CopyLegacyData \/ ArchivePythonOnly \/ RemoveBackup \/ RenameLedger \/ RenameImported
            \/ RenameImportedFails \/ RestoreBackup
  <2>1. Named /\ UNCHANGED made
    BY <1>0, <1>14 DEF CopyLegacyData, ArchivePythonOnly, RemoveBackup, RenameLedger, RenameImported,
                       RenameImportedFails, RestoreBackup, Name
  <2>2. Rest(Importer) /\ Open(Importer)
    BY <1>3, <1>4, <1>14, <2>1
       DEF CopyLegacyData, ArchivePythonOnly, RemoveBackup, RenameLedger, RenameImported,
           RenameImportedFails, RestoreBackup, At, Over
  <2> QED BY <1>2, <2>1, <2>2
<1>15. CASE ImportFails \/ ImportEnds
  BY <1>0, <1>2, <1>3, <1>15 DEF ImportFails, ImportEnds, Abandon, Over
<1>16. CASE Rollback
  BY <1>0, <1>16 DEF Rollback, Known, Name
<1>17. ASSUME NEW p \in Process, Mix(p) PROVE Known'
  BY <1>17 DEF Mix, Known
<1> QED
  BY <1>6, <1>7, <1>8, <1>9, <1>10, <1>11, <1>12, <1>13, <1>14, <1>15, <1>16, <1>17
     DEF Acts, RunAll, RunHub, CmdImport

(***************************************************************************)
(* What a process takes for applied is applied.                            *)
(***************************************************************************)
LEMMA RecordedStep == ASSUME Inv, Grows, Acts PROVE Recorded'
<1> USE DEF Inv
<1> Importer \in Process /\ Command \subseteq Process
  BY DEF Process
<1> op \in [Process -> Op]
  BY DEF TypeOK
<1> DEFINE Fine(p) ==
             /\ op'[p].step \in {"migrate", "ready"} =>
                    \A v \in op'[p].applied : file'[op'[p].on].migs[v] # "none"
             /\ op'[p].step = "ready" => 1..Limit(p)' \subseteq op'[p].applied
           Rest(p) == \A q \in Process \ {p} : op'[q] = op[q]
<1>0. ASSUME NEW q \in Process, op'[q] = op[q] PROVE Fine(q)
  <2>1. CASE op[q].step \in {"migrate", "ready"}
    <3>1. op[q].on \in 0..made /\ op[q].applied \subseteq Version
      BY <2>1 DEF Known, Op
    <3> QED BY <1>0, <2>1, <3>1 DEF Recorded, Grows, Limit
  <2> QED BY <1>0, <2>1
<1>1. ASSUME NEW p \in Process, Rest(p), Fine(p) PROVE Recorded'
  BY <1>0, <1>1 DEF Recorded
<1>2. ASSUME NEW p \in Process, Rest(p), op'[p].step \notin {"migrate", "ready"} PROVE Recorded'
  BY <1>1, <1>2
<1>3. ASSUME UNCHANGED op PROVE Recorded'
  BY <1>0, <1>3 DEF Recorded
<1>4. ASSUME NEW p \in Process, Over(p) PROVE Recorded'
  BY <1>2, <1>4, OverEffect
<1>5. ASSUME NEW p \in Process, NEW step, step \notin {"migrate", "ready"}, Go(p, step) PROVE Recorded'
  BY <1>2, <1>5 DEF Go, Op
<1>6. ASSUME NEW p \in Process, ReadApplied(p) PROVE Recorded'
  <2>1. Rest(p) /\ op'[p].step = "migrate" /\ op'[p].on = op[p].on /\ UNCHANGED file
    BY <1>6, ReadEffect DEF ReadApplied
  <2>2. \A v \in op'[p].applied : file[op[p].on].migs[v] # "none"
    BY <1>6, ReadEffect
  <2> QED BY <1>1, <2>1, <2>2
<1>7. ASSUME NEW p \in Process, ApplyVersion(p) PROVE Recorded'
  <2>1. ASSUME NEW v \in Version, Applied(p, v) PROVE Recorded'
    <3>1. Rest(p) /\ op'[p].step = op[p].step /\ op'[p].on = op[p].on
          /\ op'[p].applied = op[p].applied \cup {v}
      BY <2>1 DEF Applied, Op
    <3>2. op[p].applied \subseteq Version
      BY DEF Op
    <3>3. \A u \in op[p].applied : file'[op[p].on].migs[u] # "none"
      BY <2>1, <3>2 DEF Applied, Recorded, Grows
    <3> QED BY <1>1, <2>1, <3>1, <3>3 DEF Applied
  <2> QED BY <1>4, <1>7, <2>1, ApplyEffect DEF Over
<1>8. ASSUME NEW p \in Process, Migrated(p) PROVE Recorded'
  <2>1. CASE Go(p, "copy")
    BY <1>5, <2>1
  <2>2. CASE Go(p, "ready")
    <3>1. Rest(p) /\ op'[p].applied = op[p].applied /\ op'[p].on = op[p].on
          /\ op'[p].verb = op[p].verb /\ op'[p].step = "ready"
      BY <2>2 DEF Go, Op
    <3>2. op[p].step = "migrate" /\ UNCHANGED file /\ 1..Limit(p) \subseteq op[p].applied
      BY <1>8 DEF Migrated, Pending, Limit
    <3> QED BY <1>1, <3>1, <3>2 DEF Recorded, Limit
  <2> QED BY <1>8, <2>1, <2>2 DEF Migrated
<1>9. ASSUME NEW p \in Process, Die(p) \/ CommandEnds(p) PROVE Recorded'
  BY <1>4, <1>9 DEF Die, CommandEnds, Over
<1>10. ASSUME NEW p \in Process, CmdInit(p) \/ OpenHub(p) \/ RequireDB(p) PROVE Recorded'
  <2>1. ASSUME NEW verb, NEW step \in {"read", "close"}, NEW ctx, NEW on,
               Begins(p, Doing(verb, step, ctx, on))
        PROVE  Recorded'
    BY <1>2, <2>1 DEF Begins, Doing
  <2>2. CASE CmdInit(p)
    BY <2>1, <2>2, InitEffect
  <2>3. CASE OpenHub(p)
    BY <2>1, <2>3, HubEffect
  <2>4. CASE RequireDB(p)
    BY <2>1, <2>4, RequireEffect DEF Closing
  <2> QED BY <1>10, <2>2, <2>3, <2>4
<1>11. ASSUME NEW verb \in {"apply", "output"}, NEW force \in BOOLEAN, NEW noArchive \in BOOLEAN,
              InspectPythonDB(verb, force, noArchive)
       PROVE  Recorded'
  <2>1. CASE Begins(Importer, Closing(dir["main"]))
    BY <1>2, <2>1 DEF Begins, Closing, Doing
  <2>2. ASSUME NEW r, Importing(r, verb), Begins(Importer, r) PROVE Recorded'
    BY <1>2, <2>2 DEF Begins, Importing
  <2> QED BY <1>3, <1>11, <2>1, <2>2, InspectEffect
<1>12. CASE ApplyInPlace
  BY <1>4, <1>5, <1>12 DEF ApplyInPlace, Over
<1>13. CASE ImportPythonDB
  BY <1>2, <1>4, <1>13 DEF ImportPythonDB, Abandon, Op, Over
<1>14. CASE CopyLegacyData \/ ArchivePythonOnly \/ RemoveBackup \/ RenameLedger \/ RenameImported
            \/ RenameImportedFails \/ RestoreBackup \/ ImportFails \/ ImportEnds
  BY <1>4, <1>5, <1>14 DEF CopyLegacyData, ArchivePythonOnly, RemoveBackup, RenameLedger,
     RenameImported, RenameImportedFails, RestoreBackup, ImportFails, ImportEnds, Abandon, Over
<1>15. ASSUME Rollback \/ (\E p \in Process : Mix(p)) PROVE Recorded'
  BY <1>3, <1>15 DEF Rollback, Mix
<1> QED
  BY <1>6, <1>7, <1>8, <1>9, <1>10, <1>11, <1>12, <1>13, <1>14, <1>15
     DEF Acts, RunAll, RunHub, CmdImport

(***************************************************************************)
(* Where the Python ledger is.                                             *)
(***************************************************************************)
LEMMA PythonIsLegacy ==
    ASSUME Inv, NEW n \in Name, DetectSchema(dir[n]) = "python", Exists(n)
    PROVE  dir[n] = Legacy
BY DEF Inv, TypeOK, LegacyPlace, DetectSchema, Exists

LEMMA LegacyStep == ASSUME Inv, Grows, Acts PROVE LegacyPlace'
<1> USE DEF Inv
<1> Importer \in Process /\ Command \subseteq Process /\ Importer \notin Command
  BY UpgradeAssumption DEF Process
<1> op \in [Process -> Op]
  BY DEF TypeOK
<1> {"main", "tmp", "backup", "out", "hub"} = Name
  BY DEF Name
<1> DEFINE Ledger == file[Legacy].rows /\ file[Legacy].by = "python"
           PyOnly == \A f \in File, v \in Version : file[f].migs[v] = "py" => f = Legacy
           Names == /\ dir["backup"] \in {Legacy, NoFile}
                    /\ dir["main"] = Legacy \/ dir["backup"] = Legacy
                    /\ op[Importer].step \notin {"idle", "close", "replace", "restore"} => dir["main"] = Legacy
                    /\ op[Importer].step \in {"replace", "restore"} => dir["backup"] = Legacy
<1>1. Ledger'
  BY MadeFacts DEF LegacyPlace, Grows
<1>2. PyOnly'
  <2>1. ASSUME UNCHANGED file PROVE PyOnly'
    BY <2>1 DEF LegacyPlace
  <2>2. ASSUME NEW n \in Name, NEW by \in {"init", "import"}, NewFile(n, by) PROVE PyOnly'
    BY <2>2, NewFileEffect DEF LegacyPlace, Fresh
  <2>3. ASSUME NEW p \in Process, ApplyVersion(p) PROVE PyOnly'
    <3>1. ASSUME NEW v \in Version, Applied(p, v) PROVE PyOnly'
      BY <3>1 DEF LegacyPlace, Applied
    <3> QED BY <2>1, <2>3, <3>1, ApplyEffect
  <2>4. CASE CopyLegacyData
    <3>1. \A f \in File : file'[f].migs = file[f].migs
      BY <2>4 DEF CopyLegacyData, TypeOK, Content
    <3> QED BY <3>1 DEF LegacyPlace
  <2>5. ASSUME NEW p \in Command, CmdInit(p) \/ OpenHub(p) PROVE PyOnly'
    BY <2>1, <2>2, <2>5 DEF CmdInit, OpenHub
  <2>6. ASSUME NEW p \in Process, Mix(p) PROVE PyOnly'
    BY <2>1, <2>6 DEF Mix
  <2>7. CASE CmdImport \/ ImportPythonDB
    BY <2>1, <2>2, <2>7 DEF CmdImport, InspectPythonDB, ImportPythonDB, Target
  <2>8. ASSUME NEW p \in Process,
               ReadApplied(p) \/ Migrated(p) \/ Die(p) \/ RequireDB(p) \/ CommandEnds(p)
        PROVE  PyOnly'
    BY <2>1, <2>8 DEF ReadApplied, Migrated, Die, RequireDB, CommandEnds
  <2>9. ASSUME ApplyInPlace \/ ArchivePythonOnly \/ ImportFails \/ RemoveBackup \/ RenameLedger
               \/ RenameImported \/ RenameImportedFails \/ RestoreBackup \/ ImportEnds \/ Rollback
        PROVE  PyOnly'
    BY <2>1, <2>9 DEF ApplyInPlace, ArchivePythonOnly, ImportFails, RemoveBackup, RenameLedger,
                      RenameImported, RenameImportedFails, RestoreBackup, ImportEnds, Rollback
  <2> QED BY <2>3, <2>4, <2>5, <2>6, <2>7, <2>8, <2>9 DEF Acts, RunAll, RunHub, Process
<1>3. Names'
  <2> TypeOK /\ dir \in [Name -> File \cup {NoFile}] /\ Names
    BY DEF TypeOK, LegacyPlace
  <2> HIDE DEF Inv
  <2>0. ASSUME op'[Importer].step = op[Importer].step, dir' = dir PROVE Names'
    BY <2>0
  <2>1. ASSUME op'[Importer].step \in {"idle", "close"}, dir'["main"] = dir["main"],
               dir'["backup"] = dir["backup"]
        PROVE  Names'
    BY <2>1
  <2>2. ASSUME Over(Importer), dir'["main"] = dir["main"], dir'["backup"] = dir["backup"]
        PROVE  Names'
    BY <2>1, <2>2, OverEffect
  <2>3. ASSUME NEW p \in Process, ReadApplied(p) \/ ApplyVersion(p) \/ Migrated(p) PROVE Names'
    <3>1. dir' = dir /\ op[p].step \in {"read", "migrate"}
      BY <2>3 DEF ReadApplied, ApplyVersion, Migrated
    <3>2. CASE p # Importer
      <4>1. op'[Importer] = op[Importer]
        BY <2>3, <3>2 DEF ReadApplied, ApplyVersion, Migrated, Go, Finish
      <4> QED BY <2>0, <3>1, <4>1
    <3>3. CASE p = Importer
      <4>1. CASE ReadApplied(p)
        BY <3>1, <3>3, <4>1, ReadEffect
      <4>2. CASE ApplyVersion(p)
        <5>1. CASE \E v \in Pending(p) : op' = [op EXCEPT ![p].applied = @ \cup {v}]
          BY <3>1, <3>3, <5>1 DEF Op
        <5>2. CASE Finish(p)
          BY <2>2, <3>1, <3>3, <5>2 DEF Over
        <5> QED BY <4>2, <5>1, <5>2 DEF ApplyVersion
      <4>3. CASE Migrated(p)
        BY <3>1, <3>3, <4>3 DEF Migrated, Go, Op
      <4> QED BY <2>3, <4>1, <4>2, <4>3
    <3> QED BY <3>2, <3>3
  <2>4. ASSUME NEW p \in Process, Die(p) PROVE Names'
    BY <2>0, <2>2, <2>4 DEF Die, Return, Over
  <2>5. ASSUME NEW p \in Process, Mix(p) PROVE Names'
    BY <2>0, <2>5 DEF Mix
  <2>6. ASSUME NEW p \in Command, CmdInit(p) \/ OpenHub(p) PROVE Names'
    <3>1. op'[Importer] = op[Importer]
      BY <2>6 DEF CmdInit, OpenHub
    <3>2. \/ dir' = dir
          \/ ~Exists("main") /\ dir' = [dir EXCEPT !["main"] = made + 1]
          \/ dir' = [dir EXCEPT !["hub"] = made + 1]
      BY <2>6 DEF CmdInit, OpenHub, NewFile
    <3> QED BY <2>0, <3>1, <3>2, FileFacts DEF Exists
  <2>7. ASSUME NEW p \in Command, RequireDB(p) \/ CommandEnds(p) PROVE Names'
    BY <2>0, <2>7 DEF RequireDB, CommandEnds, Return
  <2>8. ASSUME NEW verb \in {"apply", "output"}, NEW force \in BOOLEAN, NEW noArchive \in BOOLEAN,
               InspectPythonDB(verb, force, noArchive)
        PROVE  Names'
    <3>1. ASSUME Exists("main"), DetectSchema(dir["main"]) = "python", UNCHANGED dir,
                 NEW r, Importing(r, verb), Begins(Importer, r)
          PROVE  Names'
      <4>1. dir["main"] = Legacy
        BY <3>1, PythonIsLegacy
      <4> QED BY <3>1, <4>1 DEF Begins, Importing
    <3>2. CASE UNCHANGED dir /\ Begins(Importer, Closing(dir["main"]))
      BY <2>1, <3>2 DEF Begins, Closing, Doing
    <3>3. CASE ~Exists("main") /\ NewFile("main", "init") /\ UNCHANGED op
      BY <2>8, <3>3, FileFacts DEF Exists, NewFile, InspectPythonDB, At
    <3> QED BY <2>8, <3>1, <3>2, <3>3, InspectEffect
  <2>9. CASE ApplyInPlace
    <3>1. CASE Go(Importer, "import") /\ dir' = [dir EXCEPT !["tmp"] = NoFile]
      BY <2>9, <3>1 DEF ApplyInPlace, At, Go, Op
    <3> QED BY <2>2, <2>9, <3>1 DEF ApplyInPlace, Over
  <2>10. CASE ImportPythonDB
    <3>1. CASE NewFile(Target, "import") /\ op'[Importer].step = "read"
      BY <2>10, <3>1 DEF ImportPythonDB, At, NewFile, Target
    <3>2. CASE Abandon
      BY <2>2, <3>2 DEF Abandon, Over
    <3> QED BY <2>10, <3>1, <3>2 DEF ImportPythonDB, Op
  <2>11. CASE CopyLegacyData
    <3>1. CASE \E step \in {"remove", "archive"} : Go(Importer, step)
      BY <2>11, <3>1 DEF CopyLegacyData, At, Go, Op
    <3> QED BY <2>2, <2>11, <3>1 DEF CopyLegacyData, Over
  <2>12. CASE ArchivePythonOnly
    BY <2>12 DEF ArchivePythonOnly, At, Go, Op
  <2>13. CASE ImportFails
    BY <2>2, <2>13 DEF ImportFails, Abandon, Over
  <2>14. CASE RemoveBackup
    BY <2>14 DEF RemoveBackup, At, Go, Op
  <2>15. CASE RenameLedger
    BY <2>15 DEF RenameLedger, At, Go, Op
  <2>16. CASE RenameImported
    BY <2>16, OverEffect DEF RenameImported, At, Over
  <2>17. CASE RenameImportedFails
    BY <2>17 DEF RenameImportedFails, At, Go, Op
  <2>18. CASE RestoreBackup
    BY <2>18, OverEffect DEF RestoreBackup, At, Over
  <2>19. CASE Rollback
    BY <2>19 DEF Rollback, At, Exists
  <2>20. CASE ImportEnds
    BY <2>2, <2>20 DEF ImportEnds, Over
  <2> QED
    BY <2>3, <2>4, <2>5, <2>6, <2>7, <2>8, <2>9, <2>10, <2>11, <2>12, <2>13, <2>14, <2>15,
       <2>16, <2>17, <2>18, <2>19, <2>20
       DEF Acts, RunAll, RunHub, CmdImport
<1> QED BY <1>1, <1>2, <1>3 DEF LegacyPlace

(***************************************************************************)
(* The file an import fills.                                               *)
(***************************************************************************)
LEMMA WholeStays ==
    ASSUME Inv, Grows, NEW f \in 0..made, Whole(f)
    PROVE  Whole(f)'
BY DEF Inv, Whole, Grows

LEMMA FillingStep == ASSUME Inv, Grows, Acts PROVE Filling'
<1> USE DEF Inv
<1> Importer \in Process /\ Command \subseteq Process /\ Importer \notin Command
  BY UpgradeAssumption DEF Process
<1> op \in [Process -> Op] /\ Legacy \in 0..made
  BY MadeFacts DEF TypeOK
<1> {"main", "tmp", "backup", "out", "hub"} = Name /\ dir \in [Name -> File \cup {NoFile}]
  BY DEF Name, TypeOK
<1> DEFINE o == op[Importer]
<1>0. o.step \in {"read", "migrate", "copy"} \cup Filled => o.on \in 0..made
  BY DEF Known, Filled
<1>1. ASSUME op'[Importer] = o, dir'["tmp"] = dir["tmp"] PROVE Filling'
  <2>1. o.step = "copy" => \A v \in Version : file'[o.on].migs[v] = "go"
    BY <1>0 DEF Filling, Grows
  <2>2. o.step \in Filled => Whole(o.on)'
    <3>1. CASE o.step \in Filled
      <4>1. o.on \in 0..made /\ Whole(o.on)
        BY <1>0, <3>1 DEF Filling
      <4> QED BY <1>1, <4>1 DEF Whole, Grows
    <3> QED BY <3>1
  <2> QED BY <1>1, <2>1, <2>2 DEF Filling, Whole
<1>2. ASSUME Over(Importer) PROVE Filling'
  BY <1>2, OverEffect DEF Filling, Filled
<1>3. ASSUME NEW step \in Step, Go(Importer, step), dir'["tmp"] = dir["tmp"], o.step \notin {"idle", "close"},
             step \in Filled \cup {"copy", "restore"},
             step # "restore" => o.step \in {"read", "migrate", "copy"} \cup Filled,
             step \in Filled => o.verb = "apply" /\ Whole(o.on)',
             step = "copy" => \A v \in Version : file'[o.on].migs[v] = "go"
      PROVE  Filling'
  <2>1. op'[Importer].step = step /\ op'[Importer].verb = o.verb /\ op'[Importer].on = o.on
    BY <1>3 DEF Go, Op
  <2> QED BY <1>3, <2>1 DEF Filling, Filled, Whole
<1>4. CASE ReadApplied(Importer)
  BY <1>4, ReadEffect DEF Filling, Filled, ReadApplied
<1>5. CASE ApplyVersion(Importer)
  <2>1. ASSUME NEW v \in Version, Applied(Importer, v) PROVE Filling'
    <3>1. op'[Importer].step = "migrate" /\ op'[Importer].verb = o.verb /\ op'[Importer].on = o.on
      BY <2>1 DEF Applied, Op
    <3> QED BY <2>1, <3>1 DEF Filling, Filled, Applied
  <2> QED BY <1>2, <1>5, <2>1, ApplyEffect DEF Over
<1>6. CASE Migrated(Importer)
  <2>1. /\ o.step = "migrate" /\ o.verb # "hub" /\ o.on \in 0..made /\ o.on # Legacy
        /\ UNCHANGED <<dir, file>>
    BY <1>0, <1>6 DEF Migrated, Filling
  <2>2. \A v \in Version : v \in o.applied
    BY <1>6, <2>1 DEF Migrated, Pending, Version
  <2>3. \A v \in Version : file[o.on].migs[v] # "none" /\ file[o.on].migs[v] # "py"
    BY <2>1, <2>2, MadeFacts DEF Recorded, LegacyPlace
  <2>4. \A v \in Version : file[o.on].migs[v] = "go"
    BY <2>1, <2>3, MadeFacts DEF TypeOK, Content
  <2> QED BY <1>3, <1>6, <2>1, <2>4 DEF Migrated, Step, Filled
<1>7. ASSUME NEW p \in Command,
             ReadApplied(p) \/ ApplyVersion(p) \/ Migrated(p) \/ RequireDB(p) \/ CommandEnds(p)
      PROVE  Filling'
  BY <1>1, <1>7 DEF ReadApplied, ApplyVersion, Migrated, RequireDB, CommandEnds, Go, Return, Finish
<1>8. ASSUME NEW p \in Process, Die(p) PROVE Filling'
  BY <1>1, <1>2, <1>8 DEF Die, Return, Over
<1>9. ASSUME NEW p \in Command, CmdInit(p) \/ OpenHub(p) PROVE Filling'
  BY <1>1, <1>9 DEF CmdInit, OpenHub, NewFile
<1>10. ASSUME NEW verb \in {"apply", "output"}, NEW force \in BOOLEAN, NEW noArchive \in BOOLEAN,
              InspectPythonDB(verb, force, noArchive)
       PROVE  Filling'
  <2>1. CASE NewFile("main", "init") /\ UNCHANGED op
    BY <1>1, <2>1 DEF NewFile
  <2>2. ASSUME NEW r, Importing(r, verb), Begins(Importer, r) PROVE Filling'
    BY <2>2 DEF Begins, Importing, Filling, Filled
  <2>3. CASE Begins(Importer, Closing(dir["main"]))
    BY <2>3 DEF Begins, Closing, Doing, Filling, Filled
  <2> QED BY <1>10, <2>1, <2>2, <2>3, InspectEffect
<1>11. CASE ApplyInPlace
  <2>1. CASE Go(Importer, "import")
    BY <1>11, <2>1 DEF ApplyInPlace, Go, Op, Filling, Filled, At
  <2> QED BY <1>2, <1>11, <2>1 DEF ApplyInPlace, Over
<1>12. CASE ImportPythonDB
  <2>1. CASE /\ NewFile(Target, "import")
             /\ op' = [op EXCEPT ![Importer].step = "read", ![Importer].on = made + 1]
    <3>1. op' = [op EXCEPT ![Importer] = [o EXCEPT !.step = "read", !.on = made + 1]]
      BY <2>1 DEF Op
    <3>2. op'[Importer].step = "read" /\ op'[Importer].verb = o.verb /\ op'[Importer].on = made + 1
      BY <3>1 DEF Op
    <3>3. made + 1 # Legacy /\ (o.verb = "apply" => dir'["tmp"] = made + 1)
      BY <2>1, NewFileEffect DEF Target, Applying
    <3> QED BY <1>12, <3>2, <3>3 DEF Filling, Filled, ImportPythonDB, At
  <2> QED BY <1>2, <1>12, <2>1 DEF ImportPythonDB, Abandon, Over
<1>13. CASE CopyLegacyData
  <2>1. CASE Applying /\ \E step \in {"remove", "archive"} : Go(Importer, step)
    <3>1. o.on \in 0..made /\ o.on \in File /\ dir["main"] = Legacy /\ file[Legacy].rows
      BY <1>0, <1>13, MadeFacts DEF CopyLegacyData, At, LegacyPlace
    <3>2. file' = [file EXCEPT ![o.on].rows = file[Legacy].rows]
      BY <1>13, <3>1 DEF CopyLegacyData
    <3>3. file'[o.on].rows
      BY <3>1, <3>2 DEF TypeOK, Content
    <3>4. \A v \in Version : file'[o.on].migs[v] = "go"
      BY <1>13, <3>1 DEF CopyLegacyData, At, Filling, Grows
    <3>5. o.verb = "apply" /\ o.step = "copy" /\ dir' = dir /\ Whole(o.on)'
      BY <1>13, <2>1, <3>3, <3>4 DEF CopyLegacyData, At, Applying, Whole, Go
    <3>6. PICK step \in {"remove", "archive"} : Go(Importer, step)
      BY <2>1
    <3> QED BY <1>3, <3>5, <3>6 DEF Filled, Step
  <2> QED BY <1>2, <1>13, <2>1 DEF CopyLegacyData, Over
<1>14. CASE ArchivePythonOnly \/ RemoveBackup \/ RenameLedger \/ RenameImportedFails
  <2>1. o.step \in Filled /\ dir'["tmp"] = dir["tmp"] /\ file' = file
    BY <1>14 DEF ArchivePythonOnly, RemoveBackup, RenameLedger, RenameImportedFails, At, Filled
  <2>2. \E step \in {"remove", "rename", "replace", "restore"} : Go(Importer, step)
    BY <1>14 DEF ArchivePythonOnly, RemoveBackup, RenameLedger, RenameImportedFails
  <2>3. o.verb = "apply" /\ Whole(o.on)'
    BY <2>1, <2>2 DEF Filling, Whole, Go
  <2> QED BY <1>3, <2>1, <2>2, <2>3 DEF Filled, Step
<1>15. CASE RenameImported \/ RestoreBackup \/ ImportFails \/ ImportEnds
  BY <1>2, <1>15 DEF RenameImported, RestoreBackup, ImportFails, ImportEnds, Abandon, Over
<1>16. ASSUME Rollback \/ (\E p \in Process : Mix(p)) PROVE Filling'
  BY <1>1, <1>16 DEF Rollback, Mix
<1> QED
  BY <1>4, <1>5, <1>6, <1>7, <1>8, <1>9, <1>10, <1>11, <1>12, <1>13, <1>14, <1>15, <1>16
     DEF Acts, RunAll, RunHub, CmdImport, Process

(***************************************************************************)
(* What has the ledger's name.                                             *)
(***************************************************************************)
LEMMA PlacedStep == ASSUME Inv, Grows, Acts PROVE Placed'
<1> USE DEF Inv
<1> Importer \in Process /\ Command \subseteq Process /\ Importer \notin Command
  BY UpgradeAssumption DEF Process
<1> {"main", "tmp", "backup", "out", "hub"} = Name /\ dir \in [Name -> File \cup {NoFile}]
  BY DEF Name, TypeOK
<1> DEFINE main == dir'["main"]
<1>1. ASSUME main = dir["main"] PROVE Placed'
  BY <1>1 DEF Placed, Whole, Exists, Known, Grows
<1>2. ASSUME main \in {Legacy, NoFile} PROVE Placed'
  BY <1>2, MadeFacts DEF Placed, Whole, Exists, LegacyPlace, Grows
<1>3. ASSUME NewFile("main", "init") PROVE Placed'
  BY <1>3, NewFileEffect DEF Placed, Whole, Exists, Fresh
<1>4. ASSUME NEW p \in Process, Mix(p) PROVE Placed'
  BY <1>1, <1>4 DEF Mix
<1>5. ASSUME NEW p \in Command, CmdInit(p) \/ OpenHub(p) PROVE Placed'
  BY <1>1, <1>3, <1>5 DEF CmdInit, OpenHub, NewFile
<1>6. ASSUME NEW p \in Process, ReadApplied(p) \/ ApplyVersion(p) \/ Migrated(p) \/ Die(p)
                                \/ RequireDB(p) \/ CommandEnds(p)
      PROVE  Placed'
  BY <1>1, <1>6 DEF ReadApplied, ApplyVersion, Migrated, Die, RequireDB, CommandEnds
<1>7. CASE CmdImport
  BY <1>1, <1>3, <1>7 DEF CmdImport, InspectPythonDB
<1>8. CASE ImportPythonDB
  BY <1>1, <1>8 DEF ImportPythonDB, NewFile, Target, Abandon
<1>9. CASE ApplyInPlace \/ CopyLegacyData \/ ArchivePythonOnly \/ ImportFails \/ RemoveBackup
           \/ RenameImportedFails \/ ImportEnds
  BY <1>1, <1>9 DEF ApplyInPlace, CopyLegacyData, ArchivePythonOnly, ImportFails, RemoveBackup,
                    RenameImportedFails, ImportEnds, Abandon
<1>10. CASE RenameLedger
  BY <1>2, <1>10 DEF RenameLedger
<1>11. CASE RenameImported
  <2>1. op[Importer].step = "replace" /\ main = dir["tmp"] /\ UNCHANGED file
    BY <1>11 DEF RenameImported, At
  <2>2. Whole(main)
    BY <2>1 DEF Filling, Filled
  <2> QED BY <2>1, <2>2 DEF Placed, Whole
<1>12. CASE RestoreBackup
  BY <1>1, <1>2, <1>12 DEF RestoreBackup, LegacyPlace
<1>13. CASE Rollback
  BY <1>2, <1>13 DEF Rollback, LegacyPlace
<1> QED
  BY <1>4, <1>5, <1>6, <1>7, <1>8, <1>9, <1>10, <1>11, <1>12, <1>13
     DEF Acts, RunAll, RunHub

(***************************************************************************)
(* Whose WAL is beside the ledger.                                         *)
(***************************************************************************)

\* A verb that works on the ledger has it open, and so has an import that is under way.
Holding ==
    /\ \A p \in Process : op[p].verb \in {"init", "require"} =>
           p \in Command /\ op[p].on = op[p].ctx /\ op[p].ctx # NoFile
    /\ op[Importer].step # "idle" => op[Importer].ctx # NoFile

\* Undisturbed, one process at a time has the ledger open, a command has the one that has
\* the name, and frames in the WAL are those of the command that has it open.
Alone ==
    ~disturbed =>
        /\ ~mixed
        /\ \A p, q \in Process : op[p].ctx # NoFile /\ op[q].ctx # NoFile => p = q
        /\ \A p \in Command : op[p].ctx # NoFile => op[p].ctx = dir["main"]
        /\ wal # NoFile => \E p \in Command : op[p].ctx = wal

\* A step in the course of a command: what each process has open stays.
Course(p) ==
    /\ \A q \in Process \ {p} : op'[q] = op[q]
    /\ op'[p].ctx = op[p].ctx /\ op'[p].step # "idle" /\ op[p].step # "idle"
    /\ op'[p].verb \in {op[p].verb, "none"}
    /\ op'[p].verb \in {"init", "require"} => op'[p].on = op[p].on

LEMMA FinishCourse ==
    ASSUME op \in [Process -> Op], NEW p \in Process, Finish(p), op[p].step # "idle"
    PROVE  Course(p)
BY FinishEffect DEF Course

LEMMA GoCourse ==
    ASSUME op \in [Process -> Op], NEW p \in Process, NEW step, step # "idle", Go(p, step),
           op[p].step # "idle"
    PROVE  Course(p)
BY DEF Go, Op, Course

LEMMA RunCourse ==
    ASSUME Inv, NEW p \in Process, ReadApplied(p) \/ ApplyVersion(p) \/ Migrated(p)
    PROVE  Course(p) /\ wal' \in {wal, Committed(p)} /\ UNCHANGED <<dir, histories>>
<1> op \in [Process -> Op]
  BY DEF Inv, TypeOK
<1>1. CASE ReadApplied(p)
  BY <1>1, ReadEffect DEF ReadApplied, Course, Op
<1>2. CASE ApplyVersion(p)
  <2>1. CASE \E v \in Pending(p) : op' = [op EXCEPT ![p].applied = @ \cup {v}]
    BY <1>2, <2>1 DEF ApplyVersion, Course, Op
  <2>2. CASE Finish(p)
    BY <1>2, <2>2, FinishCourse DEF ApplyVersion
  <2> QED BY <1>2, <2>1, <2>2 DEF ApplyVersion
<1>3. CASE Migrated(p)
  BY <1>3, GoCourse DEF Migrated
<1> QED BY <1>1, <1>2, <1>3

LEMMA ImportCourse ==
    ASSUME Inv,
           ApplyInPlace \/ ImportPythonDB \/ CopyLegacyData \/ ArchivePythonOnly \/ ImportFails
           \/ RemoveBackup \/ RenameLedger \/ RenameImported \/ RenameImportedFails \/ RestoreBackup
    PROVE  Course(Importer) /\ UNCHANGED <<wal, histories>>
<1> op \in [Process -> Op] /\ Importer \in Process
  BY DEF Inv, TypeOK, Process
<1>1. ASSUME Abandon, op[Importer].step # "idle" PROVE Course(Importer)
  BY <1>1, FinishCourse DEF Abandon
<1>2. CASE ImportPythonDB
  <2>1. CASE op' = [op EXCEPT ![Importer].step = "read", ![Importer].on = made + 1]
    <3>1. op' = [op EXCEPT ![Importer] = [op[Importer] EXCEPT !.step = "read", !.on = made + 1]]
      BY <2>1 DEF Op
    <3>2. op[Importer].verb \notin {"init", "require"} /\ op[Importer].step # "idle"
      BY <1>2 DEF Inv, Filling, ImportPythonDB, At
    <3> QED BY <1>2, <3>1, <3>2 DEF ImportPythonDB, Course, Op
  <2> QED BY <1>1, <1>2, <2>1 DEF ImportPythonDB, At
<1>3. CASE ApplyInPlace \/ CopyLegacyData \/ ArchivePythonOnly \/ ImportFails
  BY <1>1, <1>3, FinishCourse, GoCourse
     DEF ApplyInPlace, CopyLegacyData, ArchivePythonOnly, ImportFails, At
<1>4. CASE RemoveBackup \/ RenameLedger \/ RenameImported \/ RenameImportedFails \/ RestoreBackup
  BY <1>4, FinishCourse, GoCourse
     DEF RemoveBackup, RenameLedger, RenameImported, RenameImportedFails, RestoreBackup, At
<1> QED BY <1>2, <1>3, <1>4

LEMMA HoldingStep == ASSUME Inv, Holding, Acts PROVE Holding'
<1> USE DEF Inv
<1> Importer \in Process /\ Command \subseteq Process /\ Importer \notin Command
  BY UpgradeAssumption DEF Process
<1> op \in [Process -> Op]
  BY DEF TypeOK
<1>1. ASSUME NEW p \in Process, Course(p) PROVE Holding'
  BY <1>1 DEF Course, Holding
<1>2. ASSUME NEW p \in Process, Return(p) PROVE Holding'
  BY <1>2 DEF Return, Idle, Doing, Holding
<1>3. ASSUME UNCHANGED op PROVE Holding'
  BY <1>3 DEF Holding
<1>4. ASSUME NEW p \in Command, CmdInit(p) PROVE Holding'
  <2>1. PICK f \in File : Begins(p, Doing("init", "read", f, f))
    BY <1>4, InitEffect
  <2>2. f # NoFile
    BY FileFacts
  <2>3. op'[p].on = f /\ op'[p].ctx = f /\ \A q \in Process \ {p} : op'[q] = op[q]
    BY <2>1 DEF Begins, Doing
  <2>4. p # Importer
    OBVIOUS
  <2>5. \A q \in Process : op'[q].verb \in {"init", "require"} =>
            q \in Command /\ op'[q].on = op'[q].ctx /\ op'[q].ctx # NoFile
    BY <2>2, <2>3 DEF Holding
  <2> QED BY <2>3, <2>4, <2>5 DEF Holding
<1>5. ASSUME NEW p \in Command, RequireDB(p) PROVE Holding'
  BY <1>5, RequireEffect DEF Begins, Doing, Closing, Holding, Exists
<1>6. ASSUME NEW p \in Command, OpenHub(p) PROVE Holding'
  <2>1. PICK f \in File : Begins(p, Doing("hub", "read", dir["main"], f))
    BY <1>6, HubEffect
  <2> QED BY <2>1 DEF Begins, Doing, Holding
<1>7. ASSUME NEW verb \in {"apply", "output"}, NEW force \in BOOLEAN, NEW noArchive \in BOOLEAN,
             InspectPythonDB(verb, force, noArchive)
      PROVE  Holding'
  <2>1. ASSUME NEW r, r.verb \notin {"init", "require"}, r.ctx = dir["main"], Exists("main"),
               Begins(Importer, r)
        PROVE  Holding'
    BY <2>1 DEF Begins, Holding, Exists
  <2>2. CASE Exists("main") /\ Begins(Importer, Closing(dir["main"]))
    BY <2>1, <2>2 DEF Closing, Doing
  <2>3. ASSUME Exists("main"), NEW r \in Op, Importing(r, verb), Begins(Importer, r) PROVE Holding'
    BY <2>1, <2>3 DEF Importing
  <2> QED BY <1>3, <1>7, <2>2, <2>3, InspectEffect
<1>8. ASSUME NEW p \in Process, ReadApplied(p) \/ ApplyVersion(p) \/ Migrated(p) PROVE Holding'
  BY <1>1, <1>8, RunCourse
<1>9. ASSUME (\E p \in Process : Die(p) \/ CommandEnds(p)) \/ ImportEnds PROVE Holding'
  BY <1>2, <1>9 DEF Die, CommandEnds, ImportEnds
<1>10. ASSUME (\E p \in Process : Mix(p)) \/ Rollback PROVE Holding'
  BY <1>3, <1>10 DEF Mix, Rollback
<1> QED
  BY <1>1, <1>4, <1>5, <1>6, <1>7, <1>8, <1>9, <1>10, ImportCourse DEF Acts, RunAll, RunHub, CmdImport

LEMMA AloneStep == ASSUME Inv, Holding, Alone, Acts PROVE Alone'
<1> USE DEF Inv
<1> Importer \in Process /\ Command \subseteq Process /\ Importer \notin Command
  BY UpgradeAssumption DEF Process
<1> op \in [Process -> Op]
  BY DEF TypeOK
<1> SUFFICES ASSUME ~disturbed' PROVE Alone'
  BY DEF Alone
<1>0. Held = {} => \A p \in Process : op[p].ctx = NoFile
  BY DEF Held
<1>1. ASSUME NEW p \in Process, Course(p), wal' \in {wal, Committed(p)}, UNCHANGED <<dir, histories>>
      PROVE  Alone'
  BY <1>1 DEF Course, Alone, Holding, Committed, histories
<1>2. ASSUME Course(Importer), UNCHANGED <<wal, histories>> PROVE Alone'
  <2>1. op[Importer].ctx # NoFile
    BY <1>2 DEF Course, Holding
  <2> QED BY <1>2, <2>1, FileFacts DEF Course, Alone, histories
<1>3. ASSUME NEW p \in Process, Return(p), UNCHANGED <<dir, histories>>,
             \E frames \in {wal, Committed(p)} : wal' = Released(p, frames)
      PROVE  Alone'
  <2>1. ~disturbed /\ op'[p].ctx = NoFile /\ \A q \in Process \ {p} : op'[q] = op[q]
    BY <1>3, IdleType DEF Return, histories
  <2>2. CASE op[p].ctx = NoFile
    BY <1>3, <2>1, <2>2 DEF Alone, Released, Committed, Holding, histories
  <2>3. CASE op[p].ctx # NoFile
    <3>1. \A q \in Process \ {p} : op[q].ctx = NoFile
      BY <2>1, <2>3 DEF Alone
    <3>2. wal \in {NoFile, op[p].ctx} /\ Committed(p) \in {wal, op[p].ctx}
      BY <2>1, <3>1 DEF Alone, Committed, Holding
    <3>3. wal' = NoFile
      BY <1>3, <2>1, <2>3, <3>1, <3>2 DEF Released, Alone, Committed, Holding
    <3> QED BY <1>3, <2>1, <3>1, <3>3 DEF Alone, histories
  <2> QED BY <2>2, <2>3
<1>4. ASSUME NEW p \in Process, NEW r, Begins(p, r), Held = {}, ~disturbed, UNCHANGED mixed,
             p \in Command => r.ctx \in {dir'["main"], NoFile}, wal' = NoFile
      PROVE  Alone'
  BY <1>0, <1>4 DEF Begins, Alone
<1>5. ASSUME Joins PROVE Held = {} /\ ~disturbed /\ wal = NoFile /\ UNCHANGED mixed
  BY <1>0, <1>5, FileFacts DEF Joins, Alone
<1>6. ASSUME NEW p \in Command, CmdInit(p) PROVE Alone'
  <2>1. PICK f \in File :
             /\ \/ Exists("main") /\ f = dir["main"] /\ UNCHANGED <<dir, file, made>>
                \/ ~Exists("main") /\ f = made + 1 /\ NewFile("main", "init")
             /\ Begins(p, Doing("init", "read", f, f))
    BY <1>6, InitEffect
  <2>2. dir'["main"] = f
    BY <2>1 DEF NewFile, TypeOK, Name
  <2>3. Joins /\ wal' \in {wal, NoFile}
    BY <1>6 DEF CmdInit
  <2> QED BY <1>4, <1>5, <2>1, <2>2, <2>3 DEF Doing
<1>7. ASSUME NEW p \in Command, RequireDB(p) PROVE Alone'
  <2>1. Joins
    BY <1>7 DEF RequireDB
  <2> QED BY <1>4, <1>5, <1>7, <2>1, RequireEffect DEF Doing, Closing
<1>8. ASSUME NEW p \in Command, OpenHub(p) PROVE Alone'
  <2>1. dir'["main"] = dir["main"] /\ wal' = wal
    BY <1>8 DEF OpenHub, NewFile, TypeOK, Name
  <2>2. PICK f \in File : Begins(p, Doing("hub", "read", dir["main"], f))
    BY <1>8, HubEffect
  <2>3. CASE Exists("main")
    <3>1. Joins
      BY <1>8, <2>3 DEF OpenHub
    <3> QED BY <1>4, <1>5, <2>1, <2>2, <3>1 DEF Doing
  <2>4. CASE ~Exists("main") /\ UNCHANGED histories
    BY <2>1, <2>2, <2>4 DEF Begins, Doing, Exists, Alone, histories
  <2> QED BY <1>8, <2>3, <2>4 DEF OpenHub
<1>9. ASSUME NEW verb \in {"apply", "output"}, NEW force \in BOOLEAN, NEW noArchive \in BOOLEAN,
             InspectPythonDB(verb, force, noArchive)
      PROVE  Alone'
  <2>1. Joins
    BY <1>9 DEF InspectPythonDB
  <2>2. CASE UNCHANGED op /\ wal' = NoFile
    BY <1>0, <1>5, <2>1, <2>2 DEF Alone
  <2>3. ASSUME NEW r, Begins(Importer, r), UNCHANGED wal PROVE Alone'
    BY <1>4, <1>5, <2>1, <2>3
  <2> QED BY <1>9, <2>2, <2>3, InspectEffect
<1>10. ASSUME NEW p \in Process, ReadApplied(p) \/ ApplyVersion(p) \/ Migrated(p) PROVE Alone'
  BY <1>1, <1>10, RunCourse
<1>11. ASSUME (\E p \in Command : CommandEnds(p)) \/ ImportEnds PROVE Alone'
  BY <1>3, <1>11 DEF CommandEnds, ImportEnds
<1>12. CASE Rollback
  BY <1>0, <1>12 DEF Rollback, Alone
<1>13. ASSUME NEW p \in Process, Mix(p) PROVE Alone'
  BY <1>0, <1>13, FileFacts DEF Mix, Alone, Fits
<1>14. ASSUME NEW p \in Process, Die(p) PROVE Alone'
  BY <1>14 DEF Die
<1> QED
  BY <1>2, <1>6, <1>7, <1>8, <1>9, <1>10, <1>11, <1>12, <1>13, <1>14, ImportCourse
     DEF Acts, RunAll, RunHub, CmdImport

(***************************************************************************)
(* The theorems.                                                           *)
(***************************************************************************)
LEMMA Invariance == Spec => []Inv
<1>1. Inv /\ [Next]_vars => Inv'
  <2> SUFFICES ASSUME Inv, [Next]_vars PROVE Inv'
    OBVIOUS
  <2>1. CASE Acts
    <3>1. Grows
      BY <2>1, FilesGrow
    <3> QED BY <2>1, <3>1, TypeStep, KnownStep, RecordedStep, LegacyStep, FillingStep, PlacedStep DEF Inv
  <2>2. CASE UNCHANGED vars
    BY <2>2 DEF vars, Inv, TypeOK, Known, Recorded, Limit, LegacyPlace, Filling, Whole, Placed, Exists
  <2> QED BY <2>1, <2>2 DEF Next
<1> QED BY InitInv, <1>1, PTL DEF Spec

\* Every file, name and process state has its type (internal/migrate, internal/importer).
THEOREM TypeCorrect == Spec => []TypeOK
BY Invariance, PTL DEF Inv

\* With any number of commands and failures the Python ledger is the ledger or its backup,
\* until a file is opened beside the WAL of another (importer.ApplyInPlace).
THEOREM LegacyCorrect == Spec => []LegacyKept
<1>1. Inv => LegacyKept
  BY DEF Inv, LegacyPlace, LegacyKept
<1> QED BY <1>1, Invariance, PTL

\* An imported file that has the ledger's name is migrated and copied in full, until a file
\* is opened beside the WAL of another (importer.ApplyInPlace).
THEOREM MovedCorrect == Spec => []MovedWhole
<1>1. Inv => MovedWhole
  BY DEF Inv, Placed, Whole, MovedWhole
<1> QED BY <1>1, Invariance, PTL

LEMMA AloneInvariance == Spec => [](Holding /\ Alone)
<1>1. Init => Holding /\ Alone
  <2> SUFFICES ASSUME Init PROVE Holding /\ Alone
    OBVIOUS
  <2>1. \A p \in Process : op[p] = Idle
    BY DEF Init
  <2> QED BY <2>1 DEF Init, Idle, Doing, Holding, Alone, Process
<1>2. Inv /\ Holding /\ Alone /\ [Next]_vars => (Holding /\ Alone)'
  <2>1. Inv /\ Holding /\ Alone /\ Acts => (Holding /\ Alone)'
    BY HoldingStep, AloneStep
  <2>2. Holding /\ Alone /\ UNCHANGED vars => (Holding /\ Alone)'
    BY DEF Holding, Alone, vars
  <2> QED BY <2>1, <2>2 DEF Next
<1> QED BY <1>1, <1>2, Invariance, PTL DEF Spec

\* While one process at a time has the ledger open and none dies with it, nobody finds the
\* WAL of another file beside it, however often it is imported, moved and moved back
\* (importer.ApplyInPlace, storage.Open).
THEOREM FitsCorrect == Spec => []UndisturbedFits
<1>1. Inv /\ Alone => UndisturbedFits
  <2> SUFFICES ASSUME Inv, Alone, ~disturbed PROVE ~mixed /\ wal \in {NoFile, dir["main"]}
    BY DEF UndisturbedFits
  <2>1. CASE wal # NoFile
    <3>1. PICK p \in Command : op[p].ctx = wal
      BY <2>1 DEF Alone
    <3> QED BY <2>1, <3>1 DEF Alone
  <2> QED BY <2>1 DEF Alone
<1> QED BY <1>1, Invariance, AloneInvariance, PTL

\* No verb works on a file some version of which is missing, whoever migrated it and
\* however many tried at once (migrate.RunAll, migrate.RunHub).
THEOREM ReadyCorrect == Spec => []ReadyMeansMigrated
<1>1. Inv => ReadyMeansMigrated
  BY DEF Inv, Recorded, Limit, ReadyMeansMigrated, Process
<1> QED BY <1>1, Invariance, PTL
=============================================================================
