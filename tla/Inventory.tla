------------------------------ MODULE Inventory ------------------------------
(***************************************************************************)
(* The file inventory (internal/domain/inventory): repo_files says what    *)
(* the files of a repository looked like when they were last scanned, and  *)
(* file_change_events what each scan found changed.                        *)
(*                                                                         *)
(* A scan reads the disk, takes its time stamp, reads repo_files and only  *)
(* then writes, in one transaction, what it concluded from the three.  The *)
(* files change and other scans write in between; a scan may fail or die   *)
(* at any point.  Rows of kind external belong to provider adapters; scans *)
(* pass over them and the model leaves them out.                           *)
(***************************************************************************)
EXTENDS Naturals

CONSTANTS
    File,      \* paths of the repository
    Sub,       \* the paths under one directory of it
    Present,   \* the paths that exist at first
    Text,      \* contents of text files, told apart by their hash
    Binary,    \* contents of binary files of one size, which get no hash
    NoHash,    \* content_hash NULL
    Absent,    \* no such file, no such row
    Scanner,   \* processes running inventory scan
    MaxEdits,  \* bound: changes of files
    MaxStarts  \* bound: scans started, and what a composing module counts with them

Content == Text \cup Binary
Hash == Text \cup {NoHash}

ASSUME InventoryAssumption ==
    /\ Sub \subseteq File
    /\ Present \subseteq File
    /\ Absent \notin Content \cup Hash
    /\ MaxEdits \in Nat
    /\ MaxStarts \in Nat

VARIABLES
    disk,      \* what each path holds
    repoFiles, \* repo_files: content_hash by path
    events,    \* file_change_events
    clock,     \* the last time stamp taken; later ones are larger
    scan,      \* what each scanner is doing
    edits,     \* changes of files so far
    starts     \* scans, and the like, started so far

inventoryVars == <<disk, repoFiles, events, clock, scan, edits, starts>>

\* hash is new_hash, Absent when the file was removed.
Event == [path : File, hash : Hash \cup {Absent}, createdAt : Nat]

\* An empty file list means a walk of the whole repository.
ScanPaths == {File, Sub}

HashOf(content) == IF content \in Binary THEN NoHash ELSE content

\* records is the walk of the disk, existing the SELECT on repo_files; step names
\* what the process has done so far.
Idle == [step |-> "idle"]

Listing == [File -> Hash \cup {Absent}]

Scan == [step : {"read", "stamped", "compared"}, paths : SUBSET File, records : Listing,
         existing : Listing, at : Nat]

Nothing == [f \in File |-> Absent]

InventoryTypeOK ==
    /\ disk \in [File -> Content \cup {Absent}]
    /\ repoFiles \in Listing
    /\ events \subseteq Event
    /\ clock \in Nat
    /\ scan \in [Scanner -> {Idle} \cup Scan]
    /\ edits \in 0..MaxEdits
    /\ starts \in 0..MaxStarts

\* A repository after its first scan, which logged every file as added.
InventoryInit ==
    /\ disk \in [File -> Content \cup {Absent}]
    /\ \A f \in File : disk[f] = Absent <=> f \notin Present
    /\ repoFiles = [f \in File |-> IF f \in Present THEN HashOf(disk[f]) ELSE Absent]
    /\ events = {[path |-> f, hash |-> HashOf(disk[f]), createdAt |-> 0] : f \in Present}
    /\ clock = 0
    /\ scan = [s \in Scanner |-> Idle]
    /\ edits = 0
    /\ starts = 0

-----------------------------------------------------------------------------
\* An editor or a checkout creates, changes or removes a file.
Edit(f, content) ==
    /\ edits < MaxEdits
    /\ content # disk[f]
    /\ disk' = [disk EXCEPT ![f] = content]
    /\ edits' = edits + 1
    /\ UNCHANGED <<repoFiles, events, clock, scan, starts>>

\* ScanInventory walks the paths and hashes what it finds.
ScanInventory(s, paths) ==
    /\ scan[s] = Idle
    /\ starts < MaxStarts
    /\ starts' = starts + 1
    /\ scan' = [scan EXCEPT ![s] =
           [step |-> "read", paths |-> paths, at |-> 0, existing |-> Nothing,
            records |-> [f \in File |-> IF f \in paths /\ disk[f] # Absent
                                        THEN HashOf(disk[f]) ELSE Absent]]]
    /\ UNCHANGED <<disk, repoFiles, events, clock, edits>>

\* now is taken once, before the transaction that uses it.
Stamp(s) ==
    /\ scan[s].step = "read"
    /\ clock' = clock + 1
    /\ scan' = [scan EXCEPT ![s].step = "stamped", ![s].at = clock + 1]
    /\ UNCHANGED <<disk, repoFiles, events, edits, starts>>

ReadExisting(s) ==
    /\ scan[s].step = "stamped"
    /\ scan' = [scan EXCEPT ![s].step = "compared", ![s].existing = repoFiles]
    /\ UNCHANGED <<disk, repoFiles, events, clock, edits, starts>>

-----------------------------------------------------------------------------
(* A Mutated... operator is no part of the model: it is a defect the code   *)
(* could have in the operator after it, which a property must detect.      *)

\* The paths a scan inserts, updates and deletes, and those it logs an event for.
Added(o) == {f \in o.paths : o.records[f] # Absent /\ o.existing[f] = Absent}
Seen(o) == {f \in o.paths : o.records[f] # Absent /\ o.existing[f] # Absent}
Removed(o) == {f \in o.paths : o.records[f] = Absent /\ o.existing[f] # Absent}
\* Defect: rows are deleted without an event.
MutatedChanged(o) == {f \in o.paths : o.records[f] \notin {o.existing[f], Absent}}
Changed(o) == {f \in o.paths : o.records[f] # o.existing[f]}

\* An INSERT of a path that meanwhile has a row fails, and the scan with it.
Conflict(o) == \E f \in Added(o) : repoFiles[f] # Absent

\* An UPDATE of a row that is gone changes nothing.
Written(o) ==
    [f \in File |->
        IF f \in Added(o) \/ (f \in Seen(o) /\ repoFiles[f] # Absent) THEN o.records[f]
        ELSE IF f \in Removed(o) THEN Absent
        ELSE repoFiles[f]]

LoggedEvents(o) ==
    {[path |-> f, hash |-> o.records[f], createdAt |-> o.at] : f \in Changed(o)}

CommitScan(s) ==
    /\ scan[s].step = "compared"
    /\ ~ Conflict(scan[s])
    /\ repoFiles' = Written(scan[s])
    /\ events' = events \cup LoggedEvents(scan[s])
    /\ scan' = [scan EXCEPT ![s] = Idle]
    /\ UNCHANGED <<disk, clock, edits, starts>>

\* The process dies, the database stays busy, or an insert meets a row: the
\* transaction leaves nothing behind.
GiveUp(s) ==
    /\ scan[s] # Idle
    /\ scan' = [scan EXCEPT ![s] = Idle]
    /\ UNCHANGED <<disk, repoFiles, events, clock, edits, starts>>

InventoryNext ==
    \/ \E f \in File, content \in Content \cup {Absent} : Edit(f, content)
    \/ \E s \in Scanner :
        \/ \E paths \in ScanPaths : ScanInventory(s, paths)
        \/ Stamp(s)
        \/ ReadExisting(s)
        \/ CommitScan(s)
        \/ GiveUp(s)

=============================================================================
