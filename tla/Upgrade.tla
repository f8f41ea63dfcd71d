------------------------------- MODULE Upgrade -------------------------------
(***************************************************************************)
(* Opening, migrating and importing ledgers: internal/migrate/runner.go,   *)
(* internal/app, internal/importer and the commands init and import        *)
(* python-db.                                                              *)
(*                                                                         *)
(* Names of the .devdb directory refer to database files.  A process that  *)
(* has a file open keeps it when the name is given to another file.  Every *)
(* command applies the pending migrations, one transaction per version,    *)
(* after reading once which are applied.  The import in place builds a new *)
(* file beside the Python ledger, copies the rows, and swaps the files with *)
(* two renames.                                                            *)
(*                                                                         *)
(* A ledger is in WAL mode: what is committed stays in development.db-wal, *)
(* which belongs to the name, until the last process to close the ledger   *)
(* moves it into the file; SQLite does not when the file has been moved.   *)
(* Whoever opens a file beside the WAL of another reads and writes a       *)
(* mixture; what becomes of the ledger then is not followed any further.   *)
(***************************************************************************)
EXTENDS Naturals, FiniteSets

CONSTANTS
    Command,        \* processes that run init, a hub verb or any other verb
    Importer,       \* the process that runs import python-db, one at a time
    MaxVersion,     \* the last version of SourceMigrations
    HubVersion,     \* the last version of HubMigrations
    LegacyVersion,  \* the version of the Python ledger
    MaxFile,        \* bound: files created
    MaxFaults       \* bound: crashes and failed steps

Process == Command \cup {Importer}
File == 0..MaxFile
Legacy == 0
NoFile == MaxFile + 1
Name == {"main", "tmp", "backup", "out", "hub"}
Version == 1..MaxVersion

ASSUME UpgradeAssumption ==
    /\ Importer \notin Command
    /\ MaxVersion \in Nat /\ HubVersion \in Version /\ LegacyVersion \in Version
    /\ MaxFile \in Nat /\ MaxFaults \in Nat

VARIABLES
    dir,       \* the file of each name
    file,      \* schema_migrations, the ledger's rows and who created the file, the
               \* frames it has in a WAL included
    wal,       \* the file whose frames are in development.db-wal
    made,      \* the files created so far
    op,        \* the command each process runs
    faults,    \* crashes and failed steps so far
    mixed,     \* history: a file met, or the creation of one removed, the WAL of another
    disturbed  \* history: two processes had the ledger open at once, one died with it, or
               \* it was replaced under one

vars == <<dir, file, wal, made, op, faults, mixed, disturbed>>

\* The author of each applied version; whether the rows of the Python ledger are in it.
Content == [migs : [Version -> {"none", "go", "py"}], rows : BOOLEAN, by : {"python", "init", "import"}]
Fresh(by) == [migs |-> [v \in Version |-> "none"], rows |-> FALSE, by |-> by]
Doing(verb, step, ctx, on) ==
    [verb |-> verb, step |-> step, ctx |-> ctx, on |-> on, applied |-> {},
     force |-> FALSE, noArchive |-> FALSE]
Idle == Doing("none", "idle", NoFile, NoFile)
Closing(ctx) == Doing("none", "close", ctx, NoFile)
Verb == {"none", "init", "require", "hub", "apply", "output"}
Step == {"idle", "guard", "import", "read", "migrate", "ready", "copy",
         "archive", "remove", "rename", "replace", "restore", "close"}

\* ctx is Context.DB, the ledger every command opens first if it is there; on is the file
\* it migrates: the same, the hub or what the import builds.
Op == [verb : Verb, step : Step, ctx : File \cup {NoFile}, on : File \cup {NoFile},
       applied : SUBSET Version, force : BOOLEAN, noArchive : BOOLEAN]

TypeOK ==
    /\ dir \in [Name -> File \cup {NoFile}]
    /\ file \in [File -> Content]
    /\ wal \in File \cup {NoFile}
    /\ made \in File
    /\ op \in [Process -> Op]
    /\ faults \in 0..MaxFaults
    /\ mixed \in BOOLEAN /\ disturbed \in BOOLEAN

\* A Python ledger and nothing else; its last process may have left frames behind.
Init ==
    /\ dir = [n \in Name |-> IF n = "main" THEN Legacy ELSE NoFile]
    /\ file = [f \in File |->
           IF f = Legacy
             THEN [migs |-> [v \in Version |-> IF v <= LegacyVersion THEN "py" ELSE "none"],
                   rows |-> TRUE, by |-> "python"]
             ELSE Fresh("init")]
    /\ wal \in {NoFile, Legacy}
    /\ made = 0
    /\ op = [p \in Process |-> Idle]
    /\ faults = 0
    /\ mixed = FALSE /\ disturbed = (wal # NoFile)
-----------------------------------------------------------------------------
Exists(n) == dir[n] # NoFile

\* Defect: every ledger with versions passes for Python's.
MutatedDetectSchema(f) ==
    IF \E v \in Version : file[f].migs[v] # "none" THEN "python" ELSE "unknown"

\* Descriptions that begin with "go:" mark a Go ledger; other versions a Python one.
DetectSchema(f) ==
    IF \E v \in Version : file[f].migs[v] = "go" THEN "go"
    ELSE IF \E v \in Version : file[f].migs[v] = "py" THEN "python" ELSE "unknown"

Go(p, step) == op' = [op EXCEPT ![p].step = step]
Return(p) == op' = [op EXCEPT ![p] = Idle]

\* The command is over but for closing Context.DB.
Finish(p) == op' = [op EXCEPT ![p] = Closing(op[p].ctx)]
-----------------------------------------------------------------------------
(* The ledger's WAL. *)

Held == {op[p].ctx : p \in Process} \ {NoFile}

\* The ledger is opened with its own WAL, or created where no other file needs one: SQLite
\* removes a WAL it finds beside an empty file.
Fits ==
    IF Exists("main")
      THEN wal \in {NoFile, dir["main"]} /\ Held \subseteq {dir["main"]}
      ELSE Held = {} /\ (wal = NoFile \/ wal \notin {dir[n] : n \in Name})

\* A command opens the ledger.
Joins ==
    /\ Fits
    /\ disturbed' = (disturbed \/ Held # {})
    /\ UNCHANGED mixed

\* It opens or creates one that does not fit.
Mix(p) ==
    /\ op[p].step = "idle" /\ ~Fits
    /\ mixed' = TRUE
    /\ disturbed' = (disturbed \/ Held # {})
    /\ UNCHANGED <<dir, file, wal, made, op, faults>>

\* What a transaction of the command leaves in the ledger's WAL.
Committed(p) == IF op[p].verb \in {"init", "require"} THEN op[p].on ELSE wal

\* Defect: the command exits without closing the ledger.
MutatedReleased(p, frames) == frames

\* What closing the ledger leaves there: the last process to do so moves the frames into
\* the file, unless the file has another name by now.
Released(p, frames) ==
    IF /\ frames = op[p].ctx /\ frames = dir["main"]
       /\ \A q \in Process \ {p} : op[q].ctx # frames
      THEN NoFile ELSE frames

histories == <<mixed, disturbed>>
-----------------------------------------------------------------------------
(* The migration runner. *)

\* Opening a name without a file creates one: the pragmas write its header.
NewFile(n, by) ==
    /\ made < MaxFile
    /\ made' = made + 1
    /\ file' = [file EXCEPT ![made + 1] = Fresh(by)]
    /\ dir' = [dir EXCEPT ![n] = made + 1]

\* Defect: the last version is left out.
MutatedPending(p) ==
    {v \in Version \ op[p].applied : v < (IF op[p].verb = "hub" THEN HubVersion ELSE MaxVersion)}

Pending(p) ==
    (1..(IF op[p].verb = "hub" THEN HubVersion ELSE MaxVersion)) \ op[p].applied

\* The versions are read once, from a table that is created when it is missing.
ReadApplied(p) ==
    LET applied == {v \in Version : file[op[p].on].migs[v] # "none"}
    IN  /\ op[p].step = "read"
        /\ op' = [op EXCEPT ![p].step = "migrate", ![p].applied = applied]
        /\ \/ UNCHANGED wal
           \/ applied = {} /\ wal' = Committed(p)
        /\ UNCHANGED <<dir, file, made, faults, histories>>

\* Defect: the next version is noted as applied.
MutatedApplyVersion(p) ==
    /\ op[p].step = "migrate"
    /\ \E v \in Pending(p) :
        /\ \A u \in Pending(p) : v <= u
        /\ file[op[p].on].migs[v] = "none"
        /\ file' = [file EXCEPT ![op[p].on].migs[v] = "go"]
        /\ op' = [op EXCEPT ![p].applied = @ \cup {v + 1}]
    /\ wal' = Committed(p)
    /\ UNCHANGED <<dir, made, faults, histories>>

\* The transaction of the next version.  Another process may have committed it since: the
\* INSERT fails on the primary key, everything is rolled back and the command fails.
ApplyVersion(p) ==
    /\ op[p].step = "migrate"
    /\ \E v \in Pending(p) :
        /\ \A u \in Pending(p) : v <= u
        /\ \/ /\ file[op[p].on].migs[v] = "none"
              /\ file' = [file EXCEPT ![op[p].on].migs[v] = "go"]
              /\ wal' = Committed(p)
              /\ op' = [op EXCEPT ![p].applied = @ \cup {v}]
           \/ /\ file[op[p].on].migs[v] # "none"
              /\ Finish(p)
              /\ UNCHANGED <<file, wal>>
    /\ UNCHANGED <<dir, made, faults, histories>>

Migrated(p) ==
    /\ op[p].step = "migrate" /\ Pending(p) = {}
    /\ Go(p, IF p = Importer THEN "copy" ELSE "ready")
    /\ UNCHANGED <<dir, file, wal, made, faults, histories>>

RunAll(p) == op[p].verb # "hub" /\ (ReadApplied(p) \/ ApplyVersion(p) \/ Migrated(p))
RunHub(p) == op[p].verb = "hub" /\ (ReadApplied(p) \/ ApplyVersion(p) \/ Migrated(p))

\* devdb init opens the ledger if it is there, closes it again, opens or creates it and
\* migrates it, whatever it holds.
CmdInit(p) ==
    /\ op[p].step = "idle" /\ Joins
    /\ \/ /\ Exists("main")
          /\ op' = [op EXCEPT ![p] = Doing("init", "read", dir["main"], dir["main"])]
          /\ wal' = IF Held = {} THEN NoFile ELSE wal
          /\ UNCHANGED <<dir, file, made>>
       \/ /\ ~Exists("main") /\ NewFile("main", "init")
          /\ op' = [op EXCEPT ![p] = Doing("init", "read", made + 1, made + 1)]
          /\ wal' = NoFile
    /\ UNCHANGED faults

\* Every other verb needs a ledger that exists and is not Python's.
RequireDB(p) ==
    /\ op[p].step = "idle"
    /\ Exists("main") /\ Joins
    /\ op' = [op EXCEPT ![p] =
           IF DetectSchema(dir["main"]) = "python"
             THEN Closing(dir["main"])
             ELSE Doing("require", "read", dir["main"], dir["main"])]
    /\ UNCHANGED <<dir, file, wal, made, faults>>

\* The hub has a WAL of its own.
OpenHub(p) ==
    /\ op[p].step = "idle"
    /\ IF Exists("main") THEN Joins ELSE UNCHANGED histories
    /\ \/ /\ Exists("hub")
          /\ op' = [op EXCEPT ![p] = Doing("hub", "read", dir["main"], dir["hub"])]
          /\ UNCHANGED <<dir, file, made>>
       \/ /\ ~Exists("hub") /\ NewFile("hub", "init")
          /\ op' = [op EXCEPT ![p] = Doing("hub", "read", dir["main"], made + 1)]
    /\ UNCHANGED <<wal, faults>>

\* The verb does its work on the file it opened, if it has not failed, and closes it.
CommandEnds(p) ==
    /\ op[p].step \in {"ready", "close"}
    /\ \E frames \in {wal, Committed(p)} : wal' = Released(p, frames)
    /\ Return(p)
    /\ UNCHANGED <<dir, file, made, faults, histories>>
-----------------------------------------------------------------------------
(* The import. *)

At(step) == op[Importer].step = step
Applying == op[Importer].verb = "apply"
Target == IF Applying THEN "tmp" ELSE "out"
MayFail == faults < MaxFaults /\ faults' = faults + 1

\* An error: the import in place removes what it has built.
Abandon ==
    /\ dir' = IF Applying THEN [dir EXCEPT !["tmp"] = NoFile] ELSE dir
    /\ Finish(Importer)

\* InspectPythonDB opens the ledger, which creates it when there is none, and refuses
\* what is not Python's.
InspectPythonDB(verb, force, noArchive) ==
    /\ At("idle") /\ Joins
    /\ \/ /\ Exists("main")
          /\ op' = [op EXCEPT ![Importer] =
                 IF DetectSchema(dir["main"]) = "python"
                   THEN [Doing(verb, IF verb = "apply" THEN "guard" ELSE "import", dir["main"], NoFile)
                             EXCEPT !.force = force, !.noArchive = noArchive]
                   ELSE Closing(dir["main"])]
          /\ UNCHANGED <<dir, file, wal, made>>
       \/ /\ ~Exists("main")
          /\ NewFile("main", "init")
          /\ wal' = NoFile
          /\ UNCHANGED op
    /\ UNCHANGED faults

CmdImport ==
    \/ \E force, noArchive \in BOOLEAN : InspectPythonDB("apply", force, noArchive)
    \/ \E replace \in BOOLEAN : InspectPythonDB("output", replace, FALSE)

\* A backup with a Go schema stops the import, unless forced.
ApplyInPlace ==
    /\ At("guard")
    /\ IF ~op[Importer].force /\ Exists("backup") /\ DetectSchema(dir["backup"]) = "go"
         THEN Finish(Importer) /\ UNCHANGED dir
         ELSE Go(Importer, "import") /\ dir' = [dir EXCEPT !["tmp"] = NoFile]
    /\ UNCHANGED <<file, wal, made, faults, histories>>

\* A Python ledger is no destination, and one that holds rows is refused unless it may be
\* replaced.
MayReplace ==
    Exists(Target) =>
        /\ DetectSchema(dir[Target]) # "python"
        /\ DetectSchema(dir[Target]) = "go" =>
               Applying \/ op[Importer].force \/ ~file[dir[Target]].rows

\* The ledger must still be Python's; the destination is removed and created again.
ImportPythonDB ==
    /\ At("import")
    /\ \/ /\ DetectSchema(dir["main"]) = "python" /\ MayReplace
          /\ NewFile(Target, "import")
          /\ op' = [op EXCEPT ![Importer].step = "read", ![Importer].on = made + 1]
       \/ /\ ~(DetectSchema(dir["main"]) = "python" /\ MayReplace)
          /\ Abandon
          /\ UNCHANGED <<file, made>>
    /\ UNCHANGED <<wal, faults, histories>>

\* Defect: the error of a copy is dropped.
MutatedCopyLegacyData ==
    /\ At("copy")
    /\ \/ /\ file' = [file EXCEPT ![op[Importer].on].rows = file[dir["main"]].rows]
          /\ UNCHANGED faults
       \/ MayFail /\ UNCHANGED file
    /\ IF Applying THEN Go(Importer, IF op[Importer].noArchive THEN "remove" ELSE "archive")
                   ELSE Finish(Importer)
    /\ UNCHANGED <<dir, wal, made, histories>>

\* One transaction copies every table from the file that has the ledger's name.
CopyLegacyData ==
    /\ At("copy")
    /\ file' = [file EXCEPT ![op[Importer].on].rows = file[dir["main"]].rows]
    /\ IF Applying THEN Go(Importer, IF op[Importer].noArchive THEN "remove" ELSE "archive")
                   ELSE Finish(Importer)
    /\ UNCHANGED <<dir, wal, made, faults, histories>>

\* The tables only Python had go to JSONL files, which nothing reads.
ArchivePythonOnly ==
    /\ At("archive")
    /\ Go(Importer, "remove")
    /\ UNCHANGED <<dir, file, wal, made, faults, histories>>

\* A failed copy is rolled back; a failed import, archive or first rename leaves the ledger.
ImportFails ==
    /\ \E step \in {"read", "migrate", "copy", "archive", "rename"} : At(step)
    /\ MayFail
    /\ Abandon
    /\ UNCHANGED <<file, wal, made, histories>>

RemoveBackup ==
    /\ At("remove")
    /\ dir' = [dir EXCEPT !["backup"] = NoFile]
    /\ Go(Importer, "rename")
    /\ UNCHANGED <<file, wal, made, faults, histories>>

\* The rename moves the file; its WAL stays under the ledger's name.
RenameLedger ==
    /\ At("rename")
    /\ dir' = [dir EXCEPT !["backup"] = dir["main"], !["main"] = NoFile]
    /\ Go(Importer, "replace")
    /\ UNCHANGED <<file, wal, made, faults, histories>>

RenameImported ==
    /\ At("replace")
    /\ dir' = [dir EXCEPT !["main"] = dir["tmp"], !["tmp"] = NoFile]
    /\ Finish(Importer)
    /\ UNCHANGED <<file, wal, made, faults, histories>>

RenameImportedFails ==
    /\ At("replace")
    /\ MayFail
    /\ Go(Importer, "restore")
    /\ UNCHANGED <<dir, file, wal, made, histories>>

\* The ledger gets its name back, or does not; the new file is removed.
RestoreBackup ==
    /\ At("restore")
    /\ \/ dir' = [dir EXCEPT !["main"] = dir["backup"], !["backup"] = NoFile, !["tmp"] = NoFile]
       \/ dir' = [dir EXCEPT !["tmp"] = NoFile]
    /\ Finish(Importer)
    /\ UNCHANGED <<file, wal, made, faults, histories>>

\* The import ends like every command: the ledger it read is closed.
ImportEnds ==
    /\ At("close")
    /\ wal' = Released(Importer, wal)
    /\ Return(Importer)
    /\ UNCHANGED <<dir, file, made, faults, histories>>

\* The documented rollback: the operator moves the backup over the ledger.
Rollback ==
    /\ At("idle") /\ Exists("backup")
    /\ dir' = [dir EXCEPT !["main"] = dir["backup"], !["backup"] = NoFile]
    /\ disturbed' = (disturbed \/ Held # {})
    /\ UNCHANGED <<file, wal, made, op, faults, mixed>>

Die(p) ==
    /\ op[p].step # "idle"
    /\ MayFail
    /\ disturbed' = TRUE
    /\ Return(p)
    /\ UNCHANGED <<dir, file, wal, made, mixed>>
-----------------------------------------------------------------------------
Acts ==
    \/ \E p \in Process : RunAll(p) \/ Die(p) \/ Mix(p)
    \/ \E p \in Command : CmdInit(p) \/ RequireDB(p) \/ OpenHub(p) \/ RunHub(p) \/ CommandEnds(p)
    \/ CmdImport \/ ApplyInPlace \/ ImportPythonDB \/ CopyLegacyData \/ ArchivePythonOnly
    \/ ImportFails \/ RemoveBackup \/ RenameLedger \/ RenameImported \/ RenameImportedFails
    \/ RestoreBackup \/ ImportEnds \/ Rollback

\* Nothing is said of what follows a mixture.
Next == (~mixed /\ Acts) \/ (mixed /\ UNCHANGED vars)

Spec == Init /\ [][Next]_vars
-----------------------------------------------------------------------------
(* Properties. *)

\* However an import is cut short, repeated or rolled back, and whatever other commands
\* do meanwhile, the Python ledger is the ledger or its backup, with its rows there or in
\* the WAL that is still beside the ledger (importer.ApplyInPlace removes a backup and
\* moves the ledger), until a process opens a ledger beside the WAL of another.
LegacyKept ==
    ~mixed => /\ dir["main"] = Legacy \/ dir["backup"] = Legacy
              /\ file[Legacy].rows

\* A ledger that came out of an import in place is whole: every migration is applied and
\* the rows are copied, although the file is filled step by step under another name and
\* crashes leave half-filled ones there; until it is opened beside the WAL of another.
MovedWhole ==
    ~mixed /\ Exists("main") /\ file[dir["main"]].by = "import" =>
        /\ file[dir["main"]].rows
        /\ \A v \in Version : file[dir["main"]].migs[v] = "go"

\* Whoever opens the ledger finds no WAL beside it but its own, through any sequence of
\* commands, imports, failed imports and rollbacks, as long as one process at a time has
\* the ledger open and none dies with it: the renames of an import leave the WAL behind
\* (python_ledger.go:186-198), but each close has emptied it before.
UndisturbedFits == ~disturbed => ~mixed /\ wal \in {NoFile, dir["main"]}

\* A verb starts its work on a file on which every version is recorded, also when several
\* commands migrate it at the same time and one of them dies between two versions
\* (migrate.RunAll and RunHub read the applied versions before the transactions).
ReadyMeansMigrated ==
    \A p \in Command : op[p].step = "ready" =>
        \A v \in 1..(IF op[p].verb = "hub" THEN HubVersion ELSE MaxVersion) :
            file[op[p].on].migs[v] # "none"

=============================================================================
