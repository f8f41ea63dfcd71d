------------------------------- MODULE HubSync -------------------------------
(***************************************************************************)
(* The metadata hub (internal/domain/hub): a registry file that names the  *)
(* projects of a user, and a hub database that caches one snapshot of each *)
(* project's ledger.                                                       *)
(*                                                                         *)
(* Ledgers, registry and hub are separate files with no transaction across *)
(* them, so every file access and every SQL statement is an action, and    *)
(* what a process has read so far is op[w].  Watchers run `hub sync        *)
(* --watch` for ever; commands are one-shot processes and may die anywhere.*)
(***************************************************************************)
EXTENDS Naturals

CONSTANTS
    Root,      \* project directories
    Alias,     \* names projects are registered under
    Command,   \* one-shot devdb processes
    Watcher,   \* hub sync --watch processes
    NoRoot,    \* no projects row for an alias
    NoRow,     \* no project_snapshots row for an alias
    NoTarget,  \* a sync is between two projects
    Missing,   \* what the snapshot of a missing ledger says
    MaxClock   \* bound: distinguishable instants

Process == Command \cup Watcher
Target == Alias \X Root

ASSUME HubAssumption ==
    /\ MaxClock \in Nat
    /\ Command \cap Watcher = {}
    /\ NoRoot \notin Root
    /\ NoTarget \notin Target
    /\ Missing \notin 0..MaxClock

\* A snapshot row: the project it was taken from, when it was stored, and what its
\* queries saw: contents of the ledger, more than one when it was written meanwhile;
\* that it is missing; or nothing, when it could not be opened.
Instant == 0..MaxClock
Content == Instant \cup {Missing}
Row == [root : Root, at : Instant, snap : SUBSET Content]

ASSUME RowAssumption == \A row \in Row : row # NoRow

VARIABLES
    db,         \* the ledger file of a project
    written,    \* when its content last changed; identifies the content, and its mtime
    dirty,      \* sync_state.metadata_dirty = '1'
    lastHub,    \* sync_state.last_hub_sync_at; 0 when there is none
    registry,   \* the entries of the registry file
    torn,       \* history: a write has found the registry file not empty
    hubProject, \* hub table projects: root_path by alias
    hubRow,     \* hub table project_snapshots by alias
    clock,      \* the wall clock
    op          \* what each process is doing

ledgers == <<db, written, dirty, lastHub>>
hub == <<hubProject, hubRow>>
vars == <<db, written, dirty, lastHub, registry, torn, hubProject, hubRow, clock, op>>

\* removed: the project has no .devdb directory; absent: the directory is there and
\* the database file is not; empty: a file without tables, which storage.Open
\* creates; revived: such a file after a sync has migrated it.
FileState == {"present", "removed", "absent", "empty", "revived"}
Exists(r) == db[r] \in {"present", "empty", "revived"}

\* From MaxClock on the instants are no longer told apart.
Tick == IF clock < MaxClock THEN clock + 1 ELSE clock

-----------------------------------------------------------------------------
Idle == [kind |-> "idle"]

Syncing == [kind : {"sync"},
            step : {"next", "open", "read", "project", "row", "mark", "clean"},
            refresh : BOOLEAN, todo : SUBSET Target, target : Target \cup {NoTarget},
            snap : SUBSET Content, at : Instant]

\* A sync of the projects in todo, between two of them.
SyncOf(refresh, todo) ==
    [kind |-> "sync", step |-> "next", refresh |-> refresh, todo |-> todo,
     target |-> NoTarget, snap |-> {}, at |-> 0]

Registering == [kind : {"register"}, step : {"truncate", "write", "project"},
                target : Target, exists : BOOLEAN, file : SUBSET Target]
Unregistering == [kind : {"unregister"}, step : {"truncate", "write", "row", "project"},
                  key : Alias \cup Root, file : SUBSET Target]

TypeOK ==
    /\ db \in [Root -> FileState]
    /\ written \in [Root -> Instant]
    /\ dirty \in [Root -> BOOLEAN]
    /\ lastHub \in [Root -> Instant]
    /\ registry \in SUBSET Target
    /\ torn \in BOOLEAN
    /\ hubProject \in [Alias -> Root \cup {NoRoot}]
    /\ hubRow \in [Alias -> Row \cup {NoRow}]
    /\ clock \in Instant
    /\ op \in [Process -> {Idle} \cup Syncing \cup Registering \cup Unregistering]

\* No project is registered yet.  A ledger converted from the Python tool brings its
\* metadata_dirty along (copyLegacyData); no Go code but the sync writes it.
Init ==
    /\ db \in [Root -> {"present", "removed"}]
    /\ written = [r \in Root |-> 0]
    /\ dirty \in {d \in [Root -> BOOLEAN] : \A r \in Root : d[r] => db[r] = "present"}
    /\ lastHub = [r \in Root |-> 0]
    /\ registry = {}
    /\ torn = FALSE
    /\ hubProject = [a \in Alias |-> NoRoot]
    /\ hubRow = [a \in Alias |-> NoRow]
    /\ clock = 0
    /\ op = [w \in Process |-> Idle]

-----------------------------------------------------------------------------
(* What users do to a project's ledger.                                    *)

\* Any writing command in the project: the ledger is migrated when it must be and
\* written; sync_state and the hub are left as they are.
LocalWrite(r) ==
    /\ Exists(r)
    /\ clock < MaxClock
    /\ clock' = Tick
    /\ db' = [db EXCEPT ![r] = "present"]
    /\ written' = [written EXCEPT ![r] = Tick]
    /\ UNCHANGED <<dirty, lastHub, registry, torn, hub, op>>

\* devdb init in a project without a ledger.
InitSource(r) ==
    /\ ~Exists(r)
    /\ clock < MaxClock
    /\ clock' = Tick
    /\ db' = [db EXCEPT ![r] = "present"]
    /\ written' = [written EXCEPT ![r] = Tick]
    /\ UNCHANGED <<dirty, lastHub, registry, torn, hub, op>>

\* The user deletes the database file, or the whole .devdb directory.
DeleteSource(r, how) ==
    /\ Exists(r)
    /\ db' = [db EXCEPT ![r] = how]
    /\ dirty' = [dirty EXCEPT ![r] = FALSE]
    /\ lastHub' = [lastHub EXCEPT ![r] = 0]
    /\ UNCHANGED <<written, registry, torn, hub, clock, op>>

\* storage.Open on a project's database path creates the file if it can.
Opened(r) == [db EXCEPT ![r] = IF @ = "absent" THEN "empty" ELSE @]

\* The content of ledger r is new.
Rewritten(r) == clock' = Tick /\ written' = [written EXCEPT ![r] = Tick]

-----------------------------------------------------------------------------
(* SyncOne for the projects of a list, one statement at a time.            *)

\* SyncAll takes every registered project, List with refresh and Project those
\* whose ledger exists and needsRefresh asks for.
SyncStart(w, refresh, todo) ==
    /\ op[w] = Idle
    /\ op' = [op EXCEPT ![w] = SyncOf(refresh, todo)]
    /\ UNCHANGED <<ledgers, registry, torn, hub, clock>>

\* A watcher that trusts needsRefresh.
MutatedSyncAll(w) == SyncStart(w, TRUE, registry)

SyncAll(w) == SyncStart(w, FALSE, registry)

List(w) == SyncStart(w, TRUE, {t \in registry : Exists(t[2])})

\* Project: the same for the one project asked for.
Project(w, t) ==
    /\ t \in registry
    /\ SyncStart(w, TRUE, {u \in {t} : Exists(u[2])})

NewerThan(r, at) == Exists(r) /\ written[r] > at

\* needsRefresh, on the ledger as it is now.
NeedsRefresh(t) ==
    LET row == hubRow[t[1]]
        r == t[2]
    IN  CASE row = NoRow \/ dirty[r] -> TRUE
          [] OTHER -> IF lastHub[r] # 0
                        THEN lastHub[r] > row.at
                        ELSE NewerThan(r, row.at) \/ db[r] = "absent"

\* A project whose row is good enough is passed over; looking has opened its ledger.
SyncSkip(w, t) ==
    /\ op[w].kind = "sync" /\ op[w].step = "next" /\ op[w].refresh
    /\ t \in op[w].todo
    /\ ~NeedsRefresh(t)
    /\ op' = [op EXCEPT ![w].todo = @ \ {t}]
    /\ UNCHANGED <<ledgers, registry, torn, hub, clock>>

\* A missing ledger leaves what the hub already shows.
MutatedSyncCollect(w, t) ==
    LET r == t[2]
        looked == IF op[w].refresh /\ hubRow[t[1]] # NoRow THEN Opened(r) ELSE db
        gone == looked[r] \in {"absent", "removed"}
    IN  /\ op[w].kind = "sync" /\ op[w].step = "next"
        /\ t \in op[w].todo
        /\ op[w].refresh => NeedsRefresh(t)
        /\ db' = looked
        /\ IF looked # db THEN Rewritten(r) ELSE UNCHANGED <<clock, written>>
        /\ op' = [op EXCEPT ![w].step = IF gone THEN "project" ELSE "open",
                            ![w].target = t, ![w].todo = @ \ {t},
                            ![w].refresh = IF op[w].todo = {t} THEN FALSE ELSE @,
                            ![w].snap = IF gone /\ hubRow[t[1]] # NoRow
                                          THEN hubRow[t[1]].snap
                                          ELSE IF gone THEN {Missing} ELSE {}]
        /\ UNCHANGED <<dirty, lastHub, registry, torn, hub>>

\* CollectSnapshot: a missing ledger makes a snapshot that says so.  After the last
\* project of the list, what the list was for makes no difference any more.
SyncCollect(w, t) ==
    LET r == t[2]
        looked == IF op[w].refresh /\ hubRow[t[1]] # NoRow THEN Opened(r) ELSE db
        gone == looked[r] \in {"absent", "removed"}
    IN  /\ op[w].kind = "sync" /\ op[w].step = "next"
        /\ t \in op[w].todo
        /\ op[w].refresh => NeedsRefresh(t)
        /\ db' = looked
        /\ IF looked # db THEN Rewritten(r) ELSE UNCHANGED <<clock, written>>
        /\ op' = [op EXCEPT ![w].step = IF gone THEN "project" ELSE "open",
                            ![w].target = t, ![w].todo = @ \ {t},
                            ![w].refresh = IF op[w].todo = {t} THEN FALSE ELSE @,
                            ![w].snap = IF gone THEN {Missing} ELSE {}]
        /\ UNCHANGED <<dirty, lastHub, registry, torn, hub>>

\* The ledger is opened, which creates it again if only the file was deleted since, and
\* migrated; in a project that is gone by now that fails.
SyncOpen(w) ==
    LET r == op[w].target[2]
    IN  /\ op[w].kind = "sync" /\ op[w].step = "open"
        /\ IF db[r] \in {"absent", "empty"}
             THEN Rewritten(r) /\ db' = [db EXCEPT ![r] = "revived"]
             ELSE UNCHANGED <<db, written, clock>>
        /\ op' = [op EXCEPT ![w].step = IF db[r] = "removed" THEN "project" ELSE "read"]
        /\ UNCHANGED <<dirty, lastHub, registry, torn, hub>>

\* One of the queries of the snapshot, or the last: each sees the ledger as it is by
\* then, and a file that was deleted as it was.
SyncRead(w) ==
    LET r == op[w].target[2]
    IN  /\ op[w].kind = "sync" /\ op[w].step = "read"
        /\ \E step \in {"read", "project"} :
               op' = [op EXCEPT ![w].step = step, ![w].snap = @ \cup {written[r]}]
        /\ UNCHANGED <<ledgers, registry, torn, hub, clock>>

\* projects is keyed by alias and UNIQUE(root_path).
RootTaken(a, r) == \E b \in Alias \ {a} : hubProject[b] = r

SyncNext(w) == [op EXCEPT ![w] = SyncOf(@.refresh, @.todo)]

\* The snapshot gets its time only now, after it was collected.
SyncProject(w) ==
    LET a == op[w].target[1]
        r == op[w].target[2]
    IN  /\ op[w].kind = "sync" /\ op[w].step = "project"
        /\ clock' = Tick
        /\ IF RootTaken(a, r)
             THEN op' = SyncNext(w) /\ UNCHANGED hubProject
             ELSE /\ hubProject' = [hubProject EXCEPT ![a] = r]
                  /\ op' = [op EXCEPT ![w].step = "row", ![w].at = Tick]
        /\ UNCHANGED <<ledgers, registry, torn, hubRow>>

\* The row is refused when the projects row it refers to has been deleted.  Stored, the
\* snapshot is not needed any more.
SyncRow(w) ==
    LET a == op[w].target[1]
        row == [root |-> op[w].target[2], at |-> op[w].at, snap |-> op[w].snap]
    IN  /\ op[w].kind = "sync" /\ op[w].step = "row"
        /\ IF hubProject[a] = NoRoot
             THEN op' = SyncNext(w) /\ UNCHANGED hubRow
             ELSE /\ hubRow' = [hubRow EXCEPT ![a] = row]
                  /\ op' = [op EXCEPT ![w].step = "mark", ![w].snap = {}]
        /\ UNCHANGED <<ledgers, registry, torn, hubProject, clock>>

HasTables(r) == db[r] \in {"present", "revived"}

\* markSourceSynced opens the ledger and writes two keys; errors are dropped.
SyncMark(w) ==
    LET r == op[w].target[2]
    IN  /\ op[w].kind = "sync" /\ op[w].step = "mark"
        /\ db' = Opened(r)
        /\ IF db[r] = "absent" THEN Rewritten(r) ELSE UNCHANGED <<clock, written>>
        /\ lastHub' = [lastHub EXCEPT ![r] = IF HasTables(r) THEN op[w].at ELSE @]
        /\ op' = [op EXCEPT ![w].step = "clean", ![w].at = 0]
        /\ UNCHANGED <<dirty, registry, torn, hub>>

SyncClean(w) ==
    LET r == op[w].target[2]
    IN  /\ op[w].kind = "sync" /\ op[w].step = "clean"
        /\ dirty' = [dirty EXCEPT ![r] = IF HasTables(r) THEN FALSE ELSE @]
        /\ op' = SyncNext(w)
        /\ UNCHANGED <<db, written, lastHub, registry, torn, hub, clock>>

SyncEnd(w) ==
    /\ op[w].kind = "sync" /\ op[w].step = "next"
    /\ op[w].todo = {}
    /\ op' = [op EXCEPT ![w] = Idle]
    /\ UNCHANGED <<ledgers, registry, torn, hub, clock>>

SyncStep(w) ==
    \/ SyncAll(w)
    \/ \E t \in Target : SyncSkip(w, t) \/ SyncCollect(w, t)
    \/ SyncOpen(w) \/ SyncRead(w)
    \/ SyncProject(w) \/ SyncRow(w) \/ SyncMark(w) \/ SyncClean(w) \/ SyncEnd(w)

-----------------------------------------------------------------------------
(* Register and Unregister: read the registry, write it back, then the hub. *)

\* Only the alias is looked for.
MutatedRegister(w, a, r) ==
    /\ op[w] = Idle
    /\ op' = [op EXCEPT ![w] =
            [kind |-> "register", step |-> "truncate", target |-> <<a, r>>,
             exists |-> Exists(r),
             file |-> {t \in registry : t[1] # a} \cup {<<a, r>>}]]
    /\ UNCHANGED <<ledgers, registry, torn, hub, clock>>

\* Register drops the entries with the alias or the root it is about to add.
Register(w, a, r) ==
    /\ op[w] = Idle
    /\ op' = [op EXCEPT ![w] =
            [kind |-> "register", step |-> "truncate", target |-> <<a, r>>,
             exists |-> Exists(r),
             file |-> {t \in registry : t[1] # a /\ t[2] # r} \cup {<<a, r>>}]]
    /\ UNCHANGED <<ledgers, registry, torn, hub, clock>>

\* Unregister takes an alias or a project directory.
Unregister(w, key) ==
    LET named == {t \in registry : key \in {t[1], t[2]}}
    IN  /\ op[w] = Idle
        /\ named # {}
        /\ op' = [op EXCEPT ![w] = [kind |-> "unregister", step |-> "truncate",
                                    key |-> key, file |-> registry \ named]]
        /\ UNCHANGED <<ledgers, registry, torn, hub, clock>>

\* os.WriteFile empties the file, then writes from its own offset 0.
RegistryTruncate(w) ==
    /\ op[w].kind \in {"register", "unregister"} /\ op[w].step = "truncate"
    /\ registry' = {}
    /\ op' = [op EXCEPT ![w].step = "write"]
    /\ UNCHANGED <<ledgers, torn, hub, clock>>

\* What shorter new content leaves of a file that another process has filled since: its
\* last entries and, where the new content ends within a line, the rest of that line,
\* which is read as an entry of any words.
Leftover(file) ==
    IF registry = {} \/ file = {} THEN {registry}
    ELSE {whole \cup cut : whole \in SUBSET registry \ {registry},
                           cut \in {{}} \cup {{t} : t \in Target}}

\* The entries lose their directory.
MutatedRegistryWrite(w) ==
    /\ op[w].kind \in {"register", "unregister"} /\ op[w].step = "write"
    /\ registry' = {<<t[1]>> : t \in op[w].file}
    /\ torn' = (torn \/ registry # {})
    /\ op' = [op EXCEPT ![w].step =
                IF op[w].kind = "register" THEN "project" ELSE "row"]
    /\ UNCHANGED <<ledgers, hub, clock>>

RegistryWrite(w) ==
    /\ op[w].kind \in {"register", "unregister"} /\ op[w].step = "write"
    /\ \E left \in Leftover(op[w].file) : registry' = op[w].file \cup left
    /\ torn' = (torn \/ registry # {})
    /\ op' = [op EXCEPT ![w].step =
                IF op[w].kind = "register" THEN "project" ELSE "row"]
    /\ UNCHANGED <<ledgers, hub, clock>>

\* The projects row; a taken root ends Register with an error, a project that
\* existed goes on to its first sync.
RegisterProject(w) ==
    LET a == op[w].target[1]
        r == op[w].target[2]
    IN  /\ op[w].kind = "register" /\ op[w].step = "project"
        /\ hubProject' = IF RootTaken(a, r) THEN hubProject
                                            ELSE [hubProject EXCEPT ![a] = r]
        /\ op' = [op EXCEPT ![w] =
                IF RootTaken(a, r) \/ ~op[w].exists
                  THEN Idle
                  ELSE SyncOf(FALSE, {<<a, r>>})]
        /\ UNCHANGED <<ledgers, registry, torn, hubRow, clock>>

\* The rows named by the key as it was typed: a directory names none.
UnregisterRow(w) ==
    /\ op[w].kind = "unregister" /\ op[w].step = "row"
    /\ hubRow' = [a \in Alias |-> IF a = op[w].key THEN NoRow ELSE hubRow[a]]
    /\ op' = [op EXCEPT ![w].step = "project"]
    /\ UNCHANGED <<ledgers, registry, torn, hubProject, clock>>

\* The row a sync stored in between is not looked for.
MutatedUnregisterProject(w) ==
    /\ op[w].kind = "unregister" /\ op[w].step = "project"
    /\ hubProject' = [a \in Alias |-> IF a = op[w].key THEN NoRoot ELSE hubProject[a]]
    /\ op' = [op EXCEPT ![w] = Idle]
    /\ UNCHANGED <<ledgers, registry, torn, hubRow, clock>>

\* Refused when a sync has stored a new row in between.
UnregisterProject(w) ==
    /\ op[w].kind = "unregister" /\ op[w].step = "project"
    /\ hubProject' = [a \in Alias |->
            IF a = op[w].key /\ hubRow[a] = NoRow THEN NoRoot ELSE hubProject[a]]
    /\ op' = [op EXCEPT ![w] = Idle]
    /\ UNCHANGED <<ledgers, registry, torn, hubRow, clock>>

\* A process that is killed leaves its finished statements behind.
Crash(w) ==
    /\ op[w] # Idle
    /\ op' = [op EXCEPT ![w] = Idle]
    /\ UNCHANGED <<ledgers, registry, torn, hub, clock>>

-----------------------------------------------------------------------------
UserStep ==
    \E r \in Root :
        \/ LocalWrite(r)
        \/ InitSource(r)
        \/ \E how \in {"absent", "removed"} : DeleteSource(r, how)

CommandStep(w) ==
    \/ SyncStep(w)
    \/ List(w)
    \/ \E t \in Target : Project(w, t)
    \/ \E a \in Alias, r \in Root : Register(w, a, r)
    \/ \E key \in Alias \cup Root : Unregister(w, key)
    \/ RegistryTruncate(w) \/ RegistryWrite(w) \/ RegisterProject(w)
    \/ UnregisterRow(w) \/ UnregisterProject(w)
    \/ Crash(w)

Next ==
    \/ UserStep
    \/ \E w \in Command : CommandStep(w)
    \/ \E w \in Watcher : SyncStep(w)

Spec == Init /\ [][Next]_vars

\* A watcher is a service: it is restarted, and its loop keeps going.
FairSpec == Spec /\ \A w \in Watcher : WF_vars(SyncStep(w))

-----------------------------------------------------------------------------
(* Properties.                                                             *)

(***************************************************************************)
(* Registrations that read the same registry, lose each other's entries or *)
(* die between truncating and writing still never make it name a project   *)
(* twice or two projects alike (Register's filter, service.go:127-134); it *)
(* takes two writes that truncate before either writes (registry.go:77).   *)
(***************************************************************************)
RegistryInjective ==
    ~torn => \A t, u \in registry : t[1] = u[1] \/ t[2] = u[2] => t = u

(***************************************************************************)
(* A snapshot row always has its projects row, also when an unregister and *)
(* a sync of the same alias interleave (SyncOne, service.go:277, against   *)
(* the two deletes of Unregister, service.go:196-201).                     *)
(***************************************************************************)
RowsHaveProject == \A a \in Alias : hubRow[a] # NoRow => hubProject[a] # NoRoot

\* What the hub shows for a registered project is what its ledger holds now.
Current(a, r) ==
    /\ hubRow[a] # NoRow
    /\ hubRow[a].root = r
    /\ hubRow[a].snap = {IF Exists(r) THEN written[r] ELSE Missing}

\* The project stays registered, no other alias holds its root in the hub, and its
\* ledger is either there or gone with its directory.
Settled(a, r) ==
    /\ <<a, r>> \in registry
    /\ ~RootTaken(a, r)
    /\ db[r] \in {"present", "revived", "removed"}

(***************************************************************************)
(* "If the hub is stale but the source is fresh, running hub-sync should   *)
(* reconcile them" (docs/metadata-sync-reliability.md:119): once a project *)
(* is settled, a watcher makes its hub row current for good, whatever      *)
(* other processes still do or have left half done.                        *)
(***************************************************************************)
EventuallyCurrent ==
    \A a \in Alias, r \in Root : <>[]Settled(a, r) => <>[]Current(a, r)

\* Doctor's verdict on a registered project (diagnoseFreshness).
Freshness(a, r) ==
    LET row == hubRow[a]
    IN  CASE ~Exists(r)                                       -> "missing"
          [] Exists(r) /\ row = NoRow                         -> "stale"
          [] Exists(r) /\ row # NoRow /\ dirty[r]             -> "dirty"
          [] OTHER ->
                IF IF lastHub[r] # 0 THEN lastHub[r] > row.at
                                     ELSE NewerThan(r, row.at)
                  THEN "dirty"
                  ELSE IF row.snap \subseteq {Missing} THEN "error" ELSE "fresh"

(***************************************************************************)
(* Every local write leaves the source marked, so doctor calls fresh only  *)
(* a project whose hub row shows its ledger as it is                       *)
(* (docs/metadata-sync-reliability.md:11-18 and 63).                       *)
(***************************************************************************)
FreshMeansCurrent ==
    \A t \in registry : Freshness(t[1], t[2]) = "fresh" => Current(t[1], t[2])

-----------------------------------------------------------------------------
(* The hub as a cache of the ledgers.                                      *)

There == [r \in Root |-> Exists(r)]

\* The process is collecting a snapshot or has not stored it yet.
Fetching(w) == op[w].kind = "sync" /\ op[w].step \in {"open", "read", "project", "row"}

FetchOf ==
    [w \in Process |->
        IF Fetching(w)
          THEN {[key |-> op[w].target[1], origin |-> op[w].target[2], seen |-> op[w].snap]}
          ELSE {}]

Shown ==
    [a \in Alias |-> IF hubRow[a] = NoRow THEN {} ELSE {<<hubRow[a].root, hubRow[a].snap>>}]

C == INSTANCE Cache
        WITH Origin <- Root, Key <- Alias, Client <- Process, Value <- Instant,
             held <- written, there <- There, fetch <- FetchOf, shown <- Shown

(***************************************************************************)
(* What the hub shows under an alias is what one sync saw of the ledger of *)
(* one registered project, whoever syncs, writes, deletes, registers,      *)
(* unregisters or dies meanwhile (CollectSnapshot, snapshot.go:69, and     *)
(* SyncOne, service.go:276-304).                                           *)
(***************************************************************************)
ImplementsCache == C!Spec
=============================================================================
