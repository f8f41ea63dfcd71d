# devdb-go in TLA+

devdb keeps one SQLite ledger per project (`.devdb/development.db`) and one hub per
user that caches a snapshot of every registered ledger.  There is no server: every
`devdb` invocation is a process of its own, and the processes of several agents, cron
jobs and watchers meet only in files.  A statement or a committed transaction is atomic
and serializable (SQLite, `internal/storage/db.go`); everything larger is not.  These
modules model what happens between the statements.

## 1. The system

| Component | State | Operations | Hard part |
|---|---|---|---|
| planning (`internal/domain/planning`) | `plans`, `milestones`, `plan_items`, `plan_item_acceptance`, `status_log` | create, add, start, pause, meet, close, status, reconcile, scaffold | checks before the transaction; rollups that must follow three levels; a repair that works from a report read row by row |
| hub (`internal/domain/hub`) | registry file, hub tables `projects` and `project_snapshots`, `sync_state` in every ledger | register, unregister, sync, watch, list, project, doctor | four files and no transaction over them; deciding from times and flags whether a cached row is still good |
| archive (`internal/domain/archive`) | `archive_entries` and the tables it empties | run, search, restore, gc | parents and children move together; restore and gc work row by row |
| verification (`internal/domain/verification`) | `verification_runs`, `_inputs`, `_failures` | record, add inputs, finish, dismiss, query | is an old pass still valid for the files as they are? |
| inventory (`internal/domain/inventory`) | `repo_files`, `scan_runs`, `file_change_events` | scan, external sync, freshness, context | the disk is read before the ledger, the ledger before the transaction |
| review (`internal/domain/review`), grasscutter | `review_runs`, `review_findings` | start, add, import, finish, resolve, suggest-cuts | a cap and a finished flag checked before the insert |
| storage, migrate, app | the SQLite file and its schema | open, retry, init, migrate | a retried transaction body; two processes migrating at once |
| importer (`internal/importer`) | the ledger file, its backup, a temporary file | import, apply in place, rollback | two renames; a file filled under another name |
| small records (feedback, tasks, reminders, goals, features, approval) | one table each | add, change status | their archive, gc and restore |
| architecture notes, openclaw adapter | `architecture_notes`, an external namespace of `repo_files` | add, update, verify, sync, friction scan | hashes read path by path; a namespace replaced in a retried transaction |
| status, catalog, cli, output, git | none of their own | reports, text, flags | pure I/O or text processing |

Interactions: reconcile and the archive run inside `ledger housekeeping` on the tables
the planning verbs write; the hub opens, and by opening changes, the ledgers of all
projects; verification compares its inputs with the inventory's tables.

What makes each correct:

* planning: a status always has its audit row; close and reconcile write what the items
  call for now and not what they called for when somebody looked; the tree settles once
  nobody edits it;
* hub: the registry stays a one-to-one naming when registrations lose each other's
  entries or die, until two of them write at the same time; a row has its project; a
  settled project is eventually shown as it is; doctor calls fresh only what is current;
* archive: nothing is lost or left behind without its parent, what a retired row held
  last can be had back (reminders and tasks apart, which gc archives as it read them), and
  repeated runs do empty the tables;
* verification and inventory: a reused pass is a pass of the files as they are;
* review: a finished run and a full file get no more findings than the agents that were
  already on their way (those that are forced or come back from the archive apart), and a
  run that a command opened does not stay open behind it;
* notes: a sync leaves in its namespace what it found on disk, and every memory file
  comes to have a fresh note;
* migrate and importer: no verb works on a half-migrated ledger, and the Python ledger is
  in place or the backup whatever step of the import fails, until a file is opened beside
  the WAL of another, which takes two processes at once or a killed one.

`PROJECT.json` lists every component with its status and every hazard at its line.

## 2. Modules

| Module | Models |
|---|---|
| `PlanRollup` | the rollup rules as pure operators: `MilestoneStatusFromChildren`, `PlanStatusFromMilestones`, and what one reconcile transaction writes |
| `Planning` | the plan tree under concurrent processes |
| `ReconcileStudy` | reconcile alone, from every tree the schema admits |
| `HubSync` | registry, hub and ledgers under concurrent commands and watchers |
| `Cache` | what the hub promises its readers, abstractly; `HubSync` implements it |
| `Inventory` | the files of a repository and the scans that record them |
| `Verification` | runs recorded while scans go on, and the reuse decision; it extends `Inventory` and composes the two |
| `Records` | the flat tables with archive run, restore, gc and the friction scan |
| `Vault` | what the archive promises of a row, abstractly; `Records` and `Planning` implement it |
| `Review` | several agents reviewing one run, and `suggest-cuts` |
| `Notes` | architecture notes, the external namespace and the OpenClaw sync |
| `Upgrade` | opening, migrating and importing ledger files |
| `MCPlanning`, `MCReconcileStudy`, `MCHubSync`, `MCVerification`, `MCRecords`, `MCReview`, `MCNotes`, `MCUpgrade` | symmetry sets and other values for TLC |
| `PlanningProofs`, `ReconcileProofs`, `HubSyncProofs`, `VerificationProofs`, `RecordsProofs`, `ReviewProofs`, `NotesProofs`, `UpgradeProofs` | the theorems |

Operators whose name starts with `Mutated` belong to no specification.  Each is a
plausible defect of the operator that follows it and exists to confirm that some
property notices it; section 4 names the pairs.

### Planning

A verb that is one statement or one transaction is one action with the code's name
(`AddItem`, `StartItem`, `MeetAcceptance`, ...).  A verb that reads first and writes
later is several, and `op[w]` holds what process w has read:

* close: `CloseCheck` is the count of open criteria, `CloseCommit` the transaction with
  the status, the audit row, `MaybeCompleteMilestone` and the plan;
* pause: `PauseCheck`, `PauseCommit`; milestone add: `AddMilestoneRead`,
  `AddMilestoneInsert`, where the UNIQUE(plan_id, number) constraint decides the race;
* reconcile: `ScanPlans`, `ScanMilestones`, `ScanChildren`, `ScanPlanStatus` are the
  queries of `FindPlanTreeDrift`, each with a snapshot of its own, and `ReconcileApply`
  is the transaction, which uses nothing of the report but the row ids;
* archive run: `ArchiveItems` and `ArchiveLog`, a transaction each;
* `Abandon` is a process that is killed, runs out of busy retries, or is refused.

An item and its criteria are rows that the archive moves, so `Planning` too implements
`Vault`, under its own `Where`: that is `ImplementsVault`.

Abstractions: ids are numbers in order of creation, so "created before the cutoff" is an
initial segment; the order of plans in a scan (`created_at`) is arbitrary; the count of a
milestone's items and the lookup of its plan's status are one read; of `status_log` only
the newest row of an item is kept; titles, bodies, evidence, files and approval are left
out.  Only items leave through the archive here; restoring them is not modelled, and the
tables without children are in `Records`.

### HubSync

The state is the four kinds of files: `db`, `written`, `dirty`, `lastHub` are the
ledger of a project (whether the file exists, which content, its two `sync_state` keys),
`registry` the registry file, `hubProject` and `hubRow` the hub's tables.  Every file
access and every statement is an action.  A sync is, per project, `SyncCollect` (the
`os.Stat`), `SyncOpen` (which may create and migrate the ledger), `SyncRead` for each
query of `CollectSnapshot`, `SyncProject`, `SyncRow`, `SyncMark` and `SyncClean`.  The
queries share no transaction, so a snapshot is the set of the contents they saw: one when
nobody wrote meanwhile, none when the ledger could not be opened, `{Missing}` when the
file was not there.  Register and unregister are the read,
`RegistryTruncate`, `RegistryWrite` (`os.WriteFile` truncates first) and the statements
on the hub.  A write starts at the beginning of the file whatever is in it by then: of
longer content that another process has put there since, it leaves the end (`Leftover`),
whole entries and perhaps one that is cut, which is read as an entry of any words.
Commands may `Crash` between any two.  `LocalWrite`, `InitSource` and `DeleteSource` are
what users do to a ledger.

Abstractions: a content is identified by the instant it was written, which is also the
file's mtime; instants are 0..MaxClock and saturate; `hub register --auto` is a
sequence of registers; `list`, `project` and `doctor` change nothing beyond the sync
they may start, so doctor's verdict is the operator `Freshness`; ledgers in the Python
schema, unreadable ledgers and SQLITE_BUSY in the hub are left out.  A process that has a
ledger open while the file is deleted and made again may be shown the new file, where a
POSIX system goes on showing the old one; the model allows more than happens.  So it does
for `Leftover`: which entries are last, and how long they are, is not in the model.  One
`write` of the registry is one step, and entries that stand twice in the same words are
one.  `torn` is history: a write found the file not empty.

`Cache` knows origins that hold a value or are gone, clients that fetch, and what is shown
under each key: what one client saw of one origin in one fetch.  `HubSync` implements it
with the ledgers as origins, the syncs between `SyncCollect` and `SyncRow` as fetches
(`FetchOf`) and the hub's rows as what is shown (`Shown`); that is `ImplementsCache`.

### Inventory and Verification

`disk` is what the files hold, `repoFiles` the table of what the last scan saw, `events`
the change log, `clock` the last time stamp any process took.  `inventory scan` is
`ScanInventory` (the walk of the disk), `Stamp` (`now`, taken before the transaction),
`ReadExisting` (the SELECT it compares with) and `CommitScan` (the one transaction);
`scan[s]` holds what scanner s has read.  An INSERT that meets a row another scan made is
a `Conflict` and leaves only `GiveUp`; an UPDATE of a row that is gone changes nothing.

`verify record` is `RecordRun`, `ResolveInputs`, one `AddInput` per row, `FinishRun` and,
for a failed run, `ReplaceFailures`: separate statements with no transaction around them.
`EndRecord` is a recorder that dies between two of them, or one without `--finished`.
`Dismiss` is `verify dismiss`.  Queries change nothing, so their answers are operators on
the state: `Reused` is what `verify query` offers, `HubFresh` what the hub's snapshot
says.  `collected` is not a table; it records which rows a recorder had read.

Abstractions: all runs are of one command, since runs of different commands never
meet; a text's hash identifies it, and binary files, which get no hash, cannot be told
apart from one another; the role of a file is a function of its path (`Broad`); time
stamps never tie; a walk sees the disk at one instant; a query sees the ledger at one
instant.  External rows, explicit `--inputs`, the git-aware file list and the freshness
and context reports of the inventory are left out (external rows are in `Notes`).

### Records and Vault

A row is a number in the order of `created_at`; `table` says where it was inserted,
`live` whether it is there, `status`, `note` and `ref` are the columns a verb or a where
clause looks at, and `archive` holds `archive_entries` with the payload.  An editing verb
is one statement, so one action; the `Cmd...` actions carry the names of the commands.
The processes keep what they read in `op`:

* archive run and housekeeping: `CountRows` is the count of all tables with its early
  return, `ArchiveTable` the transaction of one table in the order of `Place`, and
  `ArchiveTableFails` the one a foreign key rolls back, which ends the run;
* restore: `Select`, then `RestoreRow`, `RestoreSkip` (INSERT OR IGNORE of a row that is
  there) or `RestoreFails` per entry, then `DeleteEntries`;
* gc: `ReadFeedback`, `ReadFindings`, `GCClose` and `GCWontfix` per row, then for
  reminders and tasks `ReadTable` and per row `GCInsert` and `GCDelete`, which are not a
  transaction;
* the friction scan: `FrictionRead`, then `FrictionAdd` per line;
* `Die` ends any of these between two statements.

`Vault` knows only where each row is: nowhere, in its table or in the archive.  It
allows a recording, a shelving of several rows, a return of one.  `Records` implements it
under `Where`, with a row counted as archived when an entry of it is and the table has
it no longer; that is the property `ImplementsVault`.

Abstractions: statuses that no statement tells apart are one value; texts and time
stamps are left out except as "older than the cutoff" (`aged`, and any earlier cutoff for
gc); which findings miss their file is chosen freely for gc; the append-only logs are
left out.

### Review

`run` is `review_runs` with `finished_at`, `finding` the bag of `review_findings`, and
`op[a]` what agent a holds.  `AddFinding` is `GetRun`, `ValidateFinding`, `CountFindings`
and `InsertFinding`; an import and `suggest-cuts` are loops around it (`NextItem`,
`EndItems`), with the code's distinction between the errors that end the loop and those
that do not (`Fail`); `AddFindingUncapped` is `--force-cap`; `FinishRun` is `FinishRead`
and `FinishUpdate`.  An id given as a prefix resolves for the checks and is then passed
on as given, so it counts nothing, violates the foreign key of an insert and updates no
row.  `ArchiveFindings` and `ArchiveRuns` take rows away, `RestoreFinding` and
`RestoreRun` are a row that `archive restore` inserts; `stored` is what the archive holds
of findings.  A restored finding is not counted against the cap, so the cap holds for what
`AddFinding` let in, and the others carry the field `uncapped`.  That field, `late`,
`heuristic` and `abandoned` are history and decide nothing.

Abstractions: severities, principles and texts are left out but for the rejection they
may cause; one tier, so one cap; the heuristics on source text are a choice of findings; a
restore is a sequence of rows, any of them, so that its selection, its end and its death
need no state (they are in `Records`).

### Notes

`row` is the content hash in `repo_files`; `note` is `architecture_notes`, of which the ids
up to `made` are in use, and `older` relates two of them by `updated_at`.  Writing a note is
`SourceSnapshot` per path and `StoreNote`, shared by `arch add`, `arch update` and the sync.
A sync is `Discover`, `ReadFile` per file, `ReadExisting`, `SyncExternalSources` (the
transaction), `ListNotes`, and `UpsertNote` per file.  `CommitBusy` is an attempt that
SQLITE_BUSY rolls back: the next one works on the map of existing paths from which the
failed one has deleted what was listed.  Both external and repository rows are in `row`;
`ScanCommit` is all that is needed of `Inventory` here.  The field `alone` is history.

Abstractions: one workspace, and one namespace; titles, bodies and links are left out;
archived notes and `ValidateSourcePaths` write nothing that matters here.

### Upgrade

`dir` maps the names in `.devdb` to files and `file` says what is in each: which versions
are applied, by whom, and whether the Python rows are there.  A process keeps the files it
opened when their names move on:  `op[p].ctx`, the ledger that `app.Open` opens for every
command and `Close` closes, and `op[p].on`, the file it migrates.  `ReadApplied`,
`ApplyVersion` and `Migrated` are the runner; `CmdInit`, `RequireDB` and `OpenHub` are the
three ways in.  The import is `InspectPythonDB`, `ApplyInPlace`, `ImportPythonDB`, the
runner, `CopyLegacyData`, `ArchivePythonOnly`, `RemoveBackup`, `RenameLedger`,
`RenameImported`, with `ImportFails`, `RenameImportedFails` and `RestoreBackup` for the
errors, `ImportEnds` for the deferred close, and `Rollback` for the documented way back.

Ledgers are in WAL mode (`storage/db.go:98`), and the renames move the database file
alone.  `wal` says of which file `development.db-wal` has frames.  Transactions put them
there (`Committed`); the last process that closes the ledger moves them into the file,
unless the file has been renamed, when SQLite leaves the WAL where it is (`Released`).  A
process that opens the ledger beside the WAL of another file, or while another has a
different file open under this name, or creates one and so removes such a WAL, does not
fit (`Fits`): it is `Mix`, and the behaviour ends there with `mixed`, because what SQLite
reads from then on is a mixture of two databases.  `disturbed` is history: two processes
had the ledger open at once, or one was killed with it, or it was replaced under one.

Abstractions: which columns are copied is one Boolean; the JSONL files of Python-only
tables are written and never read; one import at a time (the temporary name is fixed,
`python_ledger.go:154`, so two would share it); frames in the WAL of a file are part of
what `file` says of it; `devdb init` opens, closes and opens the ledger in one step; the
move of frames when the ledger is closed does not fail; the import's own connections to
the ledger (the inspection, the copy, the archive of Python-only tables) are closed while
`Context.DB` is open and so move nothing; the hub and the files the import builds keep
their names while they are open, or are empty when a WAL is found beside them, so their
WALs are left out.

## 3. Runs

| Run | Instance | Shows |
|---|---|---|
| `planning_editors` | 2 agents, 1 plan, 1 milestone, 2 items, archive | types, audit rows, close, rollups and plan moves under all interleavings |
| `planning_quiet` | 1 agent, 1 housekeeper, 1 item, 1 criterion, fairness | convergence; a stale report never becomes a wrong status; no orphaned criterion; `Vault` implemented |
| `reconcile_passes` | every tree of 3 milestones and 2 items | two passes repair, and never over an open item |
| `hub_watch` | 1 command, 1 watcher, 1 project, 2 aliases, fairness | registry and foreign key under races and crashes; `Cache` implemented; a settled project becomes current and stays so |
| `verify_ledger` | 2 recorders, 2 scanners, 2 files | a reused pass covers the scanned files; failures are heard; no unlogged change but back to what a scan had read |
| `records` | 1 process of each kind, 2 rows, all tables, fairness | nothing lost; the last copy kept; `Vault` implemented; repeated sweeps drain the tables |
| `review` | 2 agents, 1 run, 1 file, cap 1, 3 findings, sweeps and restores | the cap, the finished run, and what suggest-cuts leaves open |
| `notes` | 2 syncs (1 nightly), 1 author, 1 memory file, 1 source file, fairness | a commit replaces the namespace in spite of retries; the notes settle |
| `upgrade` | 2 commands, 1 importer, 2 versions, 3 new files | legacy rows kept and an import whole until WALs are mixed; no mixture when nobody is disturbed; no work on a half-migrated ledger |
| `planning_close_race` | 2 agents, 1 item, 1 criterion | violation: closed with an open criterion |
| `hub_fresh` | 1 command, 1 project | violation: fresh and yet not current |
| `verify_hub` | 1 recorder, 1 scanner, 2 files | violation: fresh over a later change of a broad file |

Bounds.  A race needs two processes, so two agents, or an agent and a housekeeper, are
enough for each pair of verbs; two items give a milestone every mix of an open and a
finished item; one milestone suffices where the property concerns one rollup, and
`reconcile_passes` has three because the walk's order matters only when a finished, an empty
and an open milestone meet.  Its two items still fill two of the three milestones in every
way, and leave at least one empty.  Two aliases for one directory are the smallest case in
which the registry and the hub's UNIQUE(root_path) can disagree.  Three instants distinguish
before, at and after; later ones saturate, which only merges states.  `hub_watch` has one
command, so two writes of the registry never overlap in it and `torn` stays FALSE;
`RegistryCorrect` is about any number of commands.  In `verify_ledger` one file exists and
one does not, so that one change can add, alter or remove a file; two runs are the fewest of
which one can hide the other.  Two scanners, with three processes started in all
(`MaxStarts`), are enough for one scan to undo what another did.  With two runs the limit on
candidates (20 in the code) never binds and no file is binary; the theorems hold for every
limit and any contents.

In `records` four verbs let a run with a finding be started, resolved and finished, and two
retire a row of any other table (`MCMaxVerbs`); two rows are a finding and its run, or a row
that is archived while another is not.  Two launches (`MaxRuns`) put a restore beside a
collection, or two of a kind behind one another, and the sweeps come on top, unlimited but
for one that dies.  Four entries of a row is the most these can make (the run has the same
states with `MaxCopy = 6`), so that bound never stops anything.  In `review` two agents are
the smallest number for which the bounds of `CapBounded` and `LateBounded` are above the
exact values the code aims at, and three findings exceed each of them if the model let them.
In `notes` two syncs, one edit between them and one more while the second runs, with one
lost commit or crash, are enough for a stale note, a second note of one file and a deletion
that a retry could forget.  In `upgrade` two versions give a moment between two migrations,
`HubVersion` below `MaxVersion` tells the two runners apart, and three files serve an
import, a failed one before it and an empty ledger that `init` or `import` made.  The
largest runs have 1.8 million (`review`), 1.8 million (`verify_ledger`), 1.2 million
(`upgrade`), 898,000 (`hub_watch`), 568,000 (`notes`) and 533,000 (`records`) distinct
states.  Theorems (section 5) remove the bounds for the safety properties.

Fairness.  `FairSpec` of Planning is weakly fair to `HousekeeperStep` only: `ledger
housekeeping` is meant to be scheduled, and a run that was started does continue.
`FairSpec` of HubSync is weakly fair to `SyncStep` of watchers only: a watcher is a
service whose loop goes on and that is restarted when it dies.  `CronSpec` of Records is
weakly fair to the passing of time and to `RunHousekeeping` of the sweepers, which cron
starts again and again.  `FairSpec` of Notes is weakly fair to `SyncStep` of the
`Nightly` syncs: `devdb-openclaw schedule` installs the cron job for them.  Editors,
users, commands, restores, collections, syncs by hand and crashes are never fair.

`QuietLedgerConverges` assumes that eventually only housekeeping changes the ledger;
`EventuallyCurrent` assumes that the project stays registered, that no other alias
holds its directory in the hub, and that its ledger is there or gone with its directory
(`Settled`); other processes may go on doing what they like.  `ArchiveDrains` excepts
only the state `Blocked`, described below, and `SyncSettles` assumes nothing: the bounds
on edits, verbs and faults are what lets people stop.

## 4. What the properties notice

| Property | Defect that breaks it |
|---|---|
| `TypeOK` (Planning) | a rule without an opinion is stored (`MutatedSyncedPlan`) |
| `AuditMatches` | only the first change of an item is logged (`MutatedSetItemStatus`) |
| `CloseRollsUp` | wontfix items keep a milestone open (`MutatedCompleteIfDone`) |
| `PlanMovesWithMilestones` | close syncs the plan before the milestone (`MutatedCloseCommit`) |
| `RollupWritesTruth` | items never started do not count as open (`MutatedCompleteIfStopped`); reconcile takes every reported milestone for a finished one (`MutatedReconcileApply`) |
| `ImplementsVault` (Planning) | the criteria of an archived item are deleted and get no entry (`MutatedArchiveItems`) |
| `NoOrphanCriterion` | a criterion is accepted for an archived item (`MutatedAddAcceptance`) |
| `QuietLedgerConverges` | drift of active plans is not reported (`MutatedScanPlanStatus`) |
| `TwoPassesRepair` | a plan is recomputed only if it was reported (`MutatedReconciledPlan`) |
| `NoPlanDoneOverOpenItem` | one done item makes a milestone done (`MutatedMilestoneStatus`) |
| `TypeOK` (HubSync) | registry entries lose their directory (`MutatedRegistryWrite`) |
| `RegistryInjective` | register looks for the alias only (`MutatedRegister`) |
| `RowsHaveProject` | no foreign key on snapshots (`MutatedUnregisterProject`) |
| `EventuallyCurrent` | a watcher trusts `needsRefresh` (`MutatedSyncAll`) |
| `ImplementsCache` | a missing ledger leaves what the hub already shows (`MutatedSyncCollect`) |
| `TypeOK` (Verification) | files without a row become inputs (`MutatedCollectInputs`) |
| `ReuseCoversInventory` | the numbers of inputs are not compared (`MutatedMatches`) |
| `FailureHeard` | runs are ordered by their start (`MutatedStamped`) |
| `ChangesRecorded` | a row is deleted without an event (`MutatedChanged`) |
| `TypeOK` (Records) | restore takes the columns in another order (`MutatedRestoreRow`) |
| `NothingLost` | restore deletes entries by `source_id` (`MutatedDeleteEntries`) |
| `LatestCopyKept` | an entry is made of what such rows usually hold (`MutatedMoved`) |
| `ImplementsVault` (Records) | gc makes no second entry of a row (`MutatedGCInsert`) |
| `ArchiveDrains` | runs are archived before their findings (`MutatedFirst`) |
| `TypeOK` (Review) | a finding is resolved without being looked up (`MutatedResolveFinding`) |
| `CapBounded` | one finding too many is let through (`MutatedCountFindings`) |
| `LateBounded` | a finished run is as good as an open one (`MutatedGetRun`) |
| `HeuristicRunsEnd` | an error returns before the run is finished (`MutatedFail`) |
| `TypeOK` (Notes) | an updated note keeps its old place in the order too (`MutatedTouched`) |
| `SyncReplacesNamespace` | a failed attempt uses up the deletions (`MutatedCommitBusy`) |
| `SyncSettles` | the newest note of a path is the one kept up to date (`MutatedNoteOf`) |
| `TypeOK` (Upgrade) | the version after the one applied is noted (`MutatedApplyVersion`) |
| `LegacyKept` | a Go ledger passes for a Python one (`MutatedDetectSchema`) |
| `MovedWhole` | the error of the copy is dropped (`MutatedCopyLegacyData`) |
| `UndisturbedFits` | the command exits without closing the ledger (`MutatedReleased`) |
| `ReadyMeansMigrated` | the last version is never pending (`MutatedPending`) |

### Disagreements between the code and its documentation

The three violation runs state what a comment or document says and TLC refutes it; the
findings in `PROJECT.json` quote the lines.  Met on the way, without a run of their own:

* `plan item status` closes an item over open criteria (`service.go:608`), while
  `docs/go-native-parity-matrix.md:57` says close rejects open acceptance criteria;
* a pause that races a close puts the item back in progress (`service.go:190-196`);
* one reconcile pass may leave drift behind; `TwoPassesRepair` is the bound that holds for
  one housekeeper, and with two even it does not: the second pass to commit may apply a
  report made before the first one did;
* close reaches the plan through the item's own plan_id (`service.go:331`); an item that
  names only its milestone leaves the plan behind, while `skills/devdb/SKILL.md:290` says
  closing the last item in a milestone flips the parent plan;
* two registrations that both truncate the registry before either writes leave the end of
  the longer content behind the shorter one (`hub/registry.go:77`): a directory or an alias
  stands twice, or a line is cut; `RegistryInjective` is stated until that happens;
* a hub row may show counts from several states of a ledger, because `CollectSnapshot`
  (`hub/snapshot.go:125`) asks them in separate queries;
* a project registered again under a second alias is refused by the hub's
  UNIQUE(root_path) at every later sync (`hub/service.go:147`, `:285`);
* unregistering by directory removes the registry entry and leaves the hub's rows
  (`hub/service.go:196-201` delete by alias);
* marking a ledger as synced opens it, and opening creates: a ledger deleted during a
  sync comes back empty (`hub/service.go:320`), while
  `docs/metadata-sync-reliability.md:116` calls it missing.

And in the verification ledger, from the same reading:

* a scan that read the disk before a run finished and commits after it logs events
  stamped before the run, so `no_file_changes_since_last_green_run`
  (`verification/service.go:416`) can be answered over a change outside the scope;
* two scans that overlap can undo each other's rows without an event
  (`inventory/service.go:49` reads, `:113` begins to write); `ChangesRecorded` says that
  this is the only unlogged change, back to what the later commit had read;
* housekeeping queries without inputs (`commands_hygiene.go:413`), so it matches only
  runs that have none and never answers with a fresh pass;
* `dismissed_at` is only ever shown, though `service.go:159` says it excludes a run from
  failure counts: a dismissed run still decides queries;
* a pending run hides the last green one until it is finished;
* a recorder that died leaves some of its inputs, and a later removal of the other files
  can make that remainder match; `ReuseCoversInventory` therefore speaks of finished runs.

In the archive and the small records:

* `review resolve` stores any status.  A finished run whose finding has an unlisted one
  (`Blocked`) is due while the finding is not, the foreign key rolls the sweep back, and
  every later archive run stops there again, before features, reminders and tasks;
* a feedback made of a marked line is made again by the next friction scan once the first
  one is archived (`openclaw/friction.go:29` looks at the table only);
* restoring several entries of one row brings back whichever comes first; the others are
  skipped and stay;
* gc updates by id what it has read as open before, so its wontfix overwrites a
  resolution made in between;
* the dry run of housekeeping calls the inventory scan read-only
  (`commands_hygiene.go:391`), which writes rows and events;
* `skills/devdb/SKILL.md:117` and `:119` say gc archives old open feedback (it closes it),
  and `:148` documents a flag that restore does not have;
* approving by a prefix, an unknown id or an archived task writes the log row only and
  reports success.

In review and notes:

* finishing by a prefix of the id updates no row and reports success
  (`review/service.go:320-324`; the comments at `:301` and `:414` say prefixes resolve);
  adding by a prefix fails on the foreign key after a cap check that counted nothing;
* two finishes of one run both succeed, and `files_reviewed` is counted before the
  findings that are still on their way;
* `archive restore` puts findings back without a look at the cap
  (`archive/service.go:673`), so a file can have more than the cap by any number of sweeps
  and restores; `CapBounded` counts what `AddFinding` let in;
* findings without a file are not capped (`file_path = NULL` matches nothing);
* a retry of the external sync counts its files twice into the result
  (`inventory/external.go:102`); the rows are right, which is `SyncReplacesNamespace`;
* the sync replaces all sources of a note that names a memory file, hand-written ones
  included (`openclaw/sync.go:80`).

In migrate and the importer:

* `devdb init` does not look at the schema: on a Python ledger it applies the versions
  Python had not, after which the ledger passes for Go's and the import refuses it;
* a crash between the two renames (`python_ledger.go:186`, `:190`) leaves no ledger;
  `:139` and the migration plan call the swap atomic.  The rows are in the backup
  (`LegacyKept`), but the next `import` or `init` makes an empty ledger in their place;
* ledgers are in WAL mode (`storage/db.go:98`) and the renames leave `development.db-wal`
  where it is.  Frames that are in it at that moment, of a process killed before, of
  another one that has the ledger open, or of an `init` during the copy, are missing from
  the backup and stand beside the new ledger, which then is read through them; and SQLite
  moves no frames into a file that has been renamed.  A kill after the first rename and an
  `init` on the free name remove them for good.  `UndisturbedFits` says that this takes
  two processes with the ledger open at once, or a killed one;
* the guard against a backup with a Go schema is not reached by the program's own steps.

## 5. Proofs

All theorems hold for arbitrary sets of plans, criteria, processes, roots, aliases, runs,
notes and files and any bounds, from the named assumptions `MaxNumberAssumption`,
`PlanningAssumption`, `HubAssumption`, `RowAssumption`, `InventoryAssumption`,
`VerificationAssumption`, `RecordsAssumption`, `ReviewAssumption`, `UpgradeAssumption` and
`NotesAssumption` (bounds are naturals, processes of one kind are not of the other, the
null values are not members of what they stand beside, runs are finitely many).

`PlanningProofs`.  `TypeCorrect` is inductive by itself once the reconcile fold is
typed: for its type it is enough that every value `PlanBefore` takes passed through
`SyncedPlan` (`SyncedPlanType`, `ReconciledTypes`); what the values are is in
`ReconcileProofs`.  `AuditCorrect` and
`NoOrphans` go through by cases on the few actions that touch items (`ItemSteps`).
The action properties rest on what the tree-changing steps write (`TreeSteps`):
`SyncSettlesPlan` says a synced plan agrees with its milestones, `ItemsDecide` that a
milestone with items does not depend on its plan, `FinishedMeansDone` that a milestone
whose items are terminal, one of them done, is done.  From these `PlansFollow`,
`RollupTruthful` and `CloseComplete`.  `PlanRefinement` maps every step to one of `Vault`:
a row is recorded, a finished item is shelved together with all its criteria, or every row
stays where it is.

`ReconcileProofs`.  `PlanBefore` is a recursive function over milestone numbers, and
nothing follows from a recursive definition before such a function is known to exist.
`Induction` is the induction over the naturals, stated about a set and proved from the
well-foundedness of `<`; from it come `WalkExists` and `PlanBeforeDef`, that `PlanBefore`
is what its definition says.  `FirstPass` then computes what one transaction leaves: the
milestones that have items follow them, and the plan follows the milestones.
`SecondPass` shows that from such a tree a transaction with an exact report leaves nothing
to report.  `NoPlanDoneCorrect` holds for any number of housekeepers: by `OpenStays`
the plan is not made done over a milestone whose items are open, if that milestone is
reported or says so already.  `TwoPassesCorrect`
assumes that there is one housekeeper (`OneHousekeeper`), as the run does; with two it is
false, as section 4 says.  Its invariant has, next to the types, `Exact` (what
the scan has reported so far is what the tables, which nobody else changes, hold) and
`Passed` (what the passes committed so far have established).

`HubSyncProofs`.  `TypeCorrect` needs `SyncHasTarget`: a sync past its first step knows
its project.  `RegistryCorrect` needs `RegistrySound`, the same injectivity for the file
image every registering or unregistering process holds in memory (`FilesInjective`),
because a crash or a slower writer can put any of those images in place.  `RegistryInv`
has it until `torn`, and `TornStays` that there is no way back.  `RowsCorrect`
follows from the foreign-key checks of `SyncRow` and `UnregisterProject`.  `HubRefinement`
says that `HubSync` implements `Cache`.  The steps are sorted by what they do to the
mapped variables (`StepEffect`: nothing, a ledger changes, a fetch begins, sees or ends,
a row is forgotten), and each sort is a step of `Cache`.

`VerificationProofs`.  `ReuseCorrect` and `FailureCorrect` need `FinishedIsWhole`: a run
with a finish time has as inputs all it had collected.  For `FailureCorrect`,
`NewerIsCandidate` shows that a run newer than a candidate is a candidate too, so the
limit never hides a failure behind an older pass.  `ChangesCorrect` holds for any number
of scanners.  It needs `StampsAreNew`: no event of the log, and no other scan under way,
has the time stamp of a scan that is yet to commit, so what the commit logs is new
(`CommitLogs`).

`RecordsProofs`.  The inductive invariant adds four parts to `TypeOK`.  `Sweeping`: a
sweep has a table to go.  `Traced`: whatever a process holds is a row that was recorded,
and gc holds rows of reminders and tasks only.  `AllSafe` gives `NothingLost`: an entry is
free when no running restore has inserted it, for only such an entry will be deleted, and
a row needs a free entry of its own for every collection that is about to delete it, and
one more when it is not in its table.  `Kept`
gives `LatestCopyKept` in the same way: a row out of its table has a free entry with its
last status and note.  `Refinement` sorts the steps into four kinds (`StepKinds`:
recorded, returned, shelved, or all stay), and `WhereIs` turns each into a step of `Vault`.

`ReviewProofs`.  `LateInv` adds to the late findings of a run the agents that have passed
the check and can still insert: together at most all agents but the one that finished.
`CapInv` does the same for the rows of a file that the cap let in and the agents that the
count has let through; rows that were forced or restored make the count larger and so only
stop agents, and a row that is taken away and comes back is one of them.  Whoever is let
through has seen at most `Cap - 1` rows, and no more than all agents are through at once.
`HeurInv` ties an open `suggest-cuts` run to an agent that has it, by its full id, or to
`abandoned`.

`NotesProofs`.  The type invariant includes `Ordered`, that `older` is a strict total order
of the notes: the model's `NoteOf`, the oldest note of a path, is a `CHOOSE`, which is
typed only if such a note exists, and `OldestExists` proves that of any set of notes, by
the least number of ids for which it could fail.  `Known` says that whatever note a
process refers to was made.  `NamespaceReplaced` needs `Covered`: as long as no other sync
has committed, the map of existing paths, which a failed attempt may have thinned out,
and the files that were listed together cover every row of the namespace.

`UpgradeProofs`.  The invariant is the conjunction of `TypeOK`, `Known` (names and
processes refer to files that were made), `Recorded` (what a process believes applied is
recorded in the file it has), `LegacyPlace` (where the Python ledger is at each step of
the import), `Filling` (only the importer has the file it fills, and how far it is) and
`Placed` (a file in place that an import made is whole), which the steps that move a file
rest on.  After a mixture no step follows but stuttering, so the invariant need not say
what holds there, and `LegacyCorrect` and `MovedCorrect` do not either.  `FitsCorrect`
adds `Holding` (which steps have the ledger open) and `Alone`: until somebody is
disturbed at most one process has a ledger open, it is the one in place, and the WAL is
of that ledger or empty.

Every invariant and every step property of the passing runs is a theorem, and so are the
three refinements.  Model-checked only are the liveness properties
`QuietLedgerConverges`, `EventuallyCurrent`, `ArchiveDrains` and `SyncSettles`, since
fairness and ENABLED are beyond the prover, and all refutations.  `TwoPassesCorrect`
assumes more than its module does, one housekeeper.  Three properties end with an event
that the code does not prevent and their text names: `RegistryInjective` with two writes
at once (`torn`), `LegacyKept` and `MovedWhole` with a mixture of two files (`mixed`).

## 6. Not modelled

* Hub reports, `status`, catalog and analytics, `inventory context` and `loc`, archive
  search: they read, and nothing decides by what they print.
* Rendering, flags, path resolution and the calls to git: pure I/O.
* The heuristics on source text and the parsing of markdown: which findings or sections
  come out is a choice in the models.
* The backoff of the retry loop: how long a process waits changes no interleaving.  That
  a transaction body is run again is in `Notes`, for the one body that changes variables
  outside it.
* Plan files, item bodies and the backfill of legacy items, and the scaffold as one
  command: its statements are actions of `Planning`.
* Restoring plan items: `Records` has restore for the tables without children.
* What happens to a ledger once it is read beside the WAL of another file: `Upgrade` stops
  there, and so says nothing of what rows remain.
* Inputs of a verification run that are given by hand, and unreadable ledgers in the hub.
* The numbers of plan items: they are read (`planning/service.go:104`) before the insert
  and not unique, so two agents can number two items alike; they only order the display.

What could follow: an abstract hand-over of a ledger that `Upgrade` implements; the
scaffold and the restoring of plan items as actions of `Planning`; external rows in
`Inventory`.
