-------------------------------- MODULE Notes --------------------------------
(***************************************************************************)
(* Architecture notes (internal/domain/architecture, the arch verbs), the  *)
(* external namespace of the inventory (inventory/external.go) and the     *)
(* sync of the OpenClaw adapter, which keeps a note for every memory file  *)
(* of its workspace.                                                       *)
(*                                                                         *)
(* A note holds its source paths and the hash of each; it is stale when    *)
(* repo_files says otherwise.  The hashes are read path by path, and the   *)
(* note is written after the last one.  A sync reads the files, replaces   *)
(* the rows of its namespace in one transaction, which is run again when   *)
(* the database is busy, lists the notes and then writes them one by one.  *)
(***************************************************************************)
EXTENDS Naturals

CONSTANTS
    Memory,     \* the memory files of the workspace
    Source,     \* files of the repository
    Content,    \* what a file may hold, told apart by its hash
    Absent,     \* no file, no row, no hash
    Syncer,     \* processes running devdb-openclaw sync
    Nightly,    \* those of them that cron starts, the others are started by hand
    Author,     \* processes running arch verbs
    MaxNote,    \* bound: notes
    MaxEdits,   \* bound: changes of files
    MaxVerbs,   \* bound: arch verbs and syncs by hand
    MaxFaults   \* bound: busy transactions and crashes

Path == Memory \cup Source
Process == Syncer \cup Author
NoteId == 1..MaxNote
NoNote == 0

ASSUME NotesAssumption ==
    /\ Memory \cap Source = {} /\ Absent \notin Content
    /\ Syncer \cap Author = {} /\ Nightly \subseteq Syncer
    /\ MaxNote \in Nat /\ MaxEdits \in Nat /\ MaxVerbs \in Nat /\ MaxFaults \in Nat

VARIABLES
    disk,      \* the files
    row,       \* repo_files.content_hash
    note,      \* architecture_notes: source_paths and source_hashes
    made,      \* the newest note id
    older,     \* the pairs of notes of which the first has the older updated_at
    sync,      \* what each sync holds
    write,     \* what each process holds of the note it is about to write
    edits,     \* changes of files so far
    verbs,     \* arch verbs and syncs by hand so far
    faults     \* busy transactions and crashes so far

vars == <<disk, row, note, made, older, sync, write, edits, verbs, faults>>
files == <<disk, row>>
notes == <<note, made, older>>
counters == <<edits, verbs, faults>>

Hash == Content \cup {Absent}
NoHashes == [p \in Path |-> Absent]
Note == [sources : SUBSET Path, hashes : [Path -> Hash]]

\* The note to update, or NoNote for an INSERT; its sources, those whose hash is not
\* read yet, and the hashes read.  A verify has found its note fresh.
Draft ==
    [verb : {"write"}, note : NoNote..MaxNote, left : SUBSET Path, new : Note]
    \cup [verb : {"verify"}, note : NoteId]
NoDraft == [verb |-> "none"]

\* The files as read, and those not read yet; the paths that had a row; the note of each
\* path as listed (NoNote for none) and the paths whose note is not written yet.  alone
\* is history: no other sync has committed since this one read the rows.
Sync ==
    [stage : {"read", "existing", "commit", "list", "notes"}, read : [Memory -> Hash],
     left : SUBSET Memory, existing : SUBSET Memory, alone : BOOLEAN,
     bySource : [Memory -> NoNote..MaxNote]]
NoSync == [stage |-> "none"]

\* Notes are never deleted.
Notes == 1..made

\* updated_at tells any two notes apart and orders them.
Ordered ==
    /\ older \in SUBSET (Notes \X Notes)
    /\ \A m, n \in Notes : m # n <=> <<m, n>> \in older \/ <<n, m>> \in older
    /\ \A k, m, n \in Notes :
           <<k, m>> \in older /\ <<m, n>> \in older => <<k, n>> \in older

TypeOK ==
    /\ disk \in [Path -> Hash]
    /\ row \in [Path -> Hash]
    /\ note \in [NoteId -> Note]
    /\ made \in 0..MaxNote
    /\ Ordered
    /\ sync \in [Syncer -> Sync \cup {NoSync}]
    /\ write \in [Process -> Draft \cup {NoDraft}]
    /\ edits \in 0..MaxEdits
    /\ verbs \in 0..MaxVerbs
    /\ faults \in 0..MaxFaults

Init ==
    /\ \E c \in Content : disk = [p \in Path |-> c]
    /\ row = NoHashes
    /\ note = [n \in NoteId |-> [sources |-> {}, hashes |-> NoHashes]]
    /\ made = 0
    /\ older = {}
    /\ sync = [s \in Syncer |-> NoSync]
    /\ write = [w \in Process |-> NoDraft]
    /\ edits = 0
    /\ verbs = 0
    /\ faults = 0

Stale(n) == \E p \in note[n].sources : row[p] = Absent \/ row[p] # note[n].hashes[p]

-----------------------------------------------------------------------------
(* Writing a note, which Add, Update and the sync share.  A Mutated...     *)
(* operator is no part of the model: it is a defect the code could have in *)
(* the operator after it.                                                  *)

Begin(w, n, sources) ==
    /\ write[w] = NoDraft
    /\ write' = [write EXCEPT ![w] =
           [verb |-> "write", note |-> n, left |-> sources,
            new |-> [sources |-> sources, hashes |-> NoHashes]]]

\* sourceSnapshot reads path by path; a path without a row is an error, which ends an
\* arch verb and a sync alike.
SourceSnapshot(w) ==
    /\ write[w].verb = "write"
    /\ \E p \in write[w].left :
        IF row[p] = Absent
        THEN /\ write' = [write EXCEPT ![w] = NoDraft]
             /\ sync' = IF w \in Syncer THEN [sync EXCEPT ![w] = NoSync] ELSE sync
        ELSE /\ write' = [write EXCEPT ![w].left = @ \ {p}, ![w].new.hashes[p] = row[p]]
             /\ sync' = sync
    /\ UNCHANGED <<files, notes, counters>>

\* Defect: the note stays older than those it was older than.
MutatedTouched(n) == older \cup ((Notes \ {n}) \X {n})

\* updated_at = now: no note is newer than n any more.
Touched(n) == {e \in older : n \notin {e[1], e[2]}} \cup ((Notes \ {n}) \X {n})

\* The INSERT or the UPDATE ... WHERE id = ?.
StoreNote(w) ==
    /\ write[w].verb = "write"
    /\ write[w].left = {}
    /\ LET n == IF write[w].note = NoNote THEN made + 1 ELSE write[w].note
       IN  /\ n <= MaxNote
           /\ note' = [note EXCEPT ![n] = write[w].new]
           /\ made' = IF n > made THEN n ELSE made
           /\ older' = Touched(n)
    /\ write' = [write EXCEPT ![w] = NoDraft]
    /\ UNCHANGED <<files, sync, counters>>

Spend == verbs < MaxVerbs /\ verbs' = verbs + 1 /\ UNCHANGED <<edits, faults>>

\* ValidateSourcePaths comes first and writes nothing.
CmdArchAdd(w, sources) ==
    /\ Spend
    /\ Begin(w, NoNote, sources)
    /\ UNCHANGED <<files, notes, sync>>

\* Without --source the note keeps the ones it was read with.
CmdArchUpdate(w, n) ==
    /\ Spend
    /\ \E sources \in {note[n].sources} \cup (SUBSET Path \ {{}}) : Begin(w, n, sources)
    /\ UNCHANGED <<files, notes, sync>>

\* A stale note is left alone; of a fresh one last_verified_at and updated_at are set in
\* another statement.  verify --all is this for each active note.
CmdArchVerify(w, n) ==
    /\ Spend
    /\ write[w] = NoDraft
    /\ write' = IF Stale(n) THEN write ELSE [write EXCEPT ![w] = [verb |-> "verify", note |-> n]]
    /\ UNCHANGED <<files, notes, sync>>

Verify(w) ==
    /\ write[w].verb = "verify"
    /\ older' = Touched(write[w].note)
    /\ write' = [write EXCEPT ![w] = NoDraft]
    /\ UNCHANGED <<files, note, made, sync, counters>>

-----------------------------------------------------------------------------
(* The sync of one workspace.                                              *)

In(s, stage) == sync[s].stage = stage
Goto(s, stage) == sync' = [sync EXCEPT ![s].stage = stage]

Discover(s) ==
    /\ In(s, "none")
    /\ sync' = [sync EXCEPT ![s] =
           [stage |-> "read", read |-> [m \in Memory |-> Absent], left |-> Memory,
            existing |-> {}, alone |-> TRUE, bySource |-> [m \in Memory |-> NoNote]]]
    /\ IF s \in Nightly THEN UNCHANGED counters ELSE Spend
    /\ UNCHANGED <<files, notes, write>>

ReadFile(s) ==
    /\ In(s, "read")
    /\ \E m \in sync[s].left :
           sync' = [sync EXCEPT ![s].read[m] = disk[m], ![s].left = @ \ {m}]
    /\ UNCHANGED <<files, notes, write, counters>>

ReadExisting(s) ==
    /\ In(s, "read")
    /\ sync[s].left = {}
    /\ sync' = [sync EXCEPT ![s].stage = "commit",
                             ![s].existing = {m \in Memory : row[m] # Absent}]
    /\ UNCHANGED <<files, notes, write, counters>>

Listed(s) == {m \in Memory : sync[s].read[m] # Absent}

\* Upserts what was read and deletes what else had a row.
Replaced(s) ==
    [p \in Path |->
        IF p \in Listed(s) THEN sync[s].read[p]
        ELSE IF p \in sync[s].existing THEN Absent ELSE row[p]]

SyncExternalSources(s) ==
    /\ In(s, "commit")
    /\ row' = Replaced(s)
    /\ sync' = [t \in Syncer |->
           IF t = s THEN [sync[s] EXCEPT !.stage = "list"]
           ELSE IF In(t, "commit") THEN [sync[t] EXCEPT !.alone = FALSE] ELSE sync[t]]
    /\ UNCHANGED <<disk, notes, write, counters>>

\* Defect: the paths to delete are taken out of the map too.
MutatedCommitBusy(s) ==
    /\ In(s, "commit")
    /\ faults < MaxFaults
    /\ faults' = faults + 1
    /\ sync' = [sync EXCEPT ![s].existing = {}]
    /\ UNCHANGED <<files, notes, write, edits, verbs>>

\* The transaction fails with SQLITE_BUSY, rolls back and is run again, on the map of
\* existing rows from which the failed attempt has taken what was listed.
CommitBusy(s) ==
    /\ In(s, "commit")
    /\ faults < MaxFaults
    /\ faults' = faults + 1
    /\ sync' = [sync EXCEPT ![s].existing = @ \ Listed(s)]
    /\ UNCHANGED <<files, notes, write, edits, verbs>>

With(m) == {n \in Notes : m \in note[n].sources}

\* Defect: the first note listed is kept, which is the one updated last.
MutatedNoteOf(m) ==
    IF With(m) = {} THEN NoNote
    ELSE CHOOSE n \in With(m) : \A k \in With(m) : <<n, k>> \notin older

\* The list is by updated_at, newest first, and later notes overwrite earlier ones.
NoteOf(m) ==
    IF With(m) = {} THEN NoNote
    ELSE CHOOSE n \in With(m) : \A k \in With(m) : <<k, n>> \notin older

ListNotes(s) ==
    /\ In(s, "list")
    /\ sync' = [sync EXCEPT ![s].stage = "notes", ![s].left = Listed(s),
                             ![s].bySource = [m \in Memory |-> NoteOf(m)]]
    /\ UNCHANGED <<files, notes, write, counters>>

\* Update or Add for the next source, with this one path: other sources of the note go.
UpsertNote(s) ==
    /\ In(s, "notes")
    /\ \E m \in sync[s].left :
        /\ Begin(s, sync[s].bySource[m], {m})
        /\ sync' = [sync EXCEPT ![s].left = @ \ {m}]
    /\ UNCHANGED <<files, notes, counters>>

SyncEnd(s) ==
    /\ In(s, "notes")
    /\ sync[s].left = {}
    /\ write[s] = NoDraft
    /\ sync' = [sync EXCEPT ![s] = NoSync]
    /\ UNCHANGED <<files, notes, write, counters>>

SyncStep(s) ==
    \/ Discover(s) \/ ReadFile(s) \/ ReadExisting(s) \/ SyncExternalSources(s)
    \/ ListNotes(s) \/ UpsertNote(s) \/ SyncEnd(s) \/ SourceSnapshot(s) \/ StoreNote(s)

\* The process is killed, or a statement fails and it returns.
Die(s) ==
    /\ sync[s] # NoSync
    /\ faults < MaxFaults
    /\ faults' = faults + 1
    /\ sync' = [sync EXCEPT ![s] = NoSync]
    /\ write' = [write EXCEPT ![s] = NoDraft]
    /\ UNCHANGED <<files, notes, edits, verbs>>

-----------------------------------------------------------------------------
\* Somebody writes or removes a file.
Edit(p) ==
    /\ edits < MaxEdits
    /\ edits' = edits + 1
    /\ \E c \in Hash \ {disk[p]} : disk' = [disk EXCEPT ![p] = c]
    /\ UNCHANGED <<row, notes, sync, write, verbs, faults>>

\* A scan of the repository brings its rows up to date and passes over external ones;
\* Inventory has it in full.
ScanCommit ==
    /\ row' = [p \in Path |-> IF p \in Source THEN disk[p] ELSE row[p]]
    /\ UNCHANGED <<disk, notes, sync, write, counters>>

AuthorStep(w) ==
    \/ \E sources \in SUBSET Path \ {{}} : CmdArchAdd(w, sources)
    \/ \E n \in Notes : CmdArchUpdate(w, n) \/ CmdArchVerify(w, n)
    \/ SourceSnapshot(w) \/ StoreNote(w) \/ Verify(w)

Next ==
    \/ \E s \in Syncer : SyncStep(s) \/ CommitBusy(s) \/ Die(s)
    \/ \E w \in Author : AuthorStep(w)
    \/ \E p \in Path : Edit(p)
    \/ ScanCommit

Spec == Init /\ [][Next]_vars

\* The adapter's schedule command installs a cron job that syncs every night.
FairSpec == Spec /\ \A s \in Nightly : WF_vars(SyncStep(s))
-----------------------------------------------------------------------------
(* Properties.                                                             *)

\* "SyncExternalSources replaces one provider namespace" (inventory/external.go:35): if
\* no other sync commits between its read of the rows and its commit, the namespace is
\* afterwards what it found on disk, nothing more and nothing less, however many
\* attempts of the transaction were rolled back before.
SyncReplacesNamespace ==
    [][\A s \in Syncer :
        In(s, "commit") /\ sync'[s].stage = "list" /\ sync[s].alone =>
            \A m \in Memory : row'[m] = sync[s].read[m]]_vars

\* Every memory file has its row and a note, and every note about one is fresh, also the
\* second note that two syncs at once made of a file.
Settled ==
    /\ \A m \in Memory : row[m] = disk[m]
    /\ \A m \in Memory : disk[m] # Absent => \E n \in Notes : m \in note[n].sources
    /\ \A n \in Notes : (\E m \in note[n].sources \cap Memory : disk[m] # Absent) => ~ Stale(n)

\* Nightly syncs bring the inventory and the notes of the memory files up to date once
\* people stop, whatever syncs and arch verbs did to each other before
\* (openclaw/sync.go).
SyncSettles == <>[]Settled
=============================================================================
