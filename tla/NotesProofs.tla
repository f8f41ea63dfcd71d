----------------------------- MODULE NotesProofs -----------------------------
(***************************************************************************)
(* Theorems about Notes for any number of files, notes, syncs and authors: *)
(* the type invariant, with updated_at a strict order of the notes, and    *)
(* that a sync replaces its namespace however often its transaction was    *)
(* run again.                                                              *)
(***************************************************************************)
EXTENDS Notes, TLAPS, WellFoundedInduction

-----------------------------------------------------------------------------
(* The order of the notes.                                                 *)

(***************************************************************************)
(* Of any notes one was updated first, so the adapter's map of sources     *)
(* finds a note whenever there is one (openclaw/sync.go:68).  By the least *)
(* k for which notes up to k could have no oldest one.                     *)
(***************************************************************************)
LEMMA OldestExists ==
    ASSUME Ordered, made \in Nat, NEW T \in SUBSET Notes, T # {}
    PROVE  \E n \in T : \A k \in T : <<k, n>> \notin older
<1> DEFINE Oldest(U) == \E n \in U : \A k \in U : <<k, n>> \notin older
           K == {k \in Nat : \E U \in SUBSET Notes : U \subseteq 1..k /\ U # {} /\ ~Oldest(U)}
           R == {ss \in Nat \X Nat : ss[1] < ss[2]}
<1>1. SUFFICES ASSUME ~Oldest(T) PROVE FALSE
  OBVIOUS
<1>2. made \in K
  BY <1>1 DEF Notes
<1>3. PICK k \in K : \A j \in K : ~(j < k)
  <2>1. IsWellFoundedOn(R, Nat)
    BY NatLessThanWellFounded DEF OpToRel
  <2>2. K \in SUBSET Nat /\ K # {}
    BY <1>2
  <2> HIDE DEF K
  <2>3. PICK k \in K : \A j \in K : ~(<<j, k>> \in R)
    BY <2>1, <2>2, WFMin
  <2>4. \A j \in K : ~(j < k)
    BY <2>2, <2>3
  <2> QED BY <2>4
<1>4. PICK U \in SUBSET Notes : U \subseteq 1..k /\ U # {} /\ ~Oldest(U)
  OBVIOUS
<1> DEFINE V == U \ {k}
<1>5. k \in Nat /\ k \in U
  <2>1. k \in Nat
    OBVIOUS
  <2>2. CASE k \notin U
    <3>0. k # 0
      <4>1. 1..0 = {}
        OBVIOUS
      <4> HIDE DEF K
      <4> QED BY <1>4, <4>1
    <3>1. U \subseteq 1..(k - 1) /\ k - 1 \in Nat
      <4>1. \A u \in U : u \in 1..k /\ u # k
        BY <1>4, <2>2
      <4> HIDE DEF K
      <4> QED BY <2>1, <3>0, <4>1
    <3>2. k - 1 \in K
      BY <1>4, <3>1
    <3> HIDE DEF K
    <3> QED BY <1>3, <2>1, <3>2
  <2> QED BY <2>1, <2>2
<1>6. V \subseteq 1..(k - 1) /\ k - 1 \in Nat
  BY <1>4, <1>5
<1>7. \A m \in Notes : <<m, m>> \notin older
  BY DEF Ordered
<1>8. V # {}
  BY <1>4, <1>5, <1>7
<1>9. Oldest(V)
  <2>1. k - 1 \notin K
    <3> HIDE DEF K
    <3> QED BY <1>3, <1>5, <1>6
  <2> HIDE DEF V, Oldest
  <2>2. V \in SUBSET Notes
    BY <1>4 DEF V
  <2> QED BY <1>6, <1>8, <2>1, <2>2
<1>10. PICK n \in V : \A m \in V : <<m, n>> \notin older
  BY <1>9
<1>11. CASE <<k, n>> \notin older
  BY <1>4, <1>10, <1>11
<1>12. CASE <<k, n>> \in older
  <2>1. \A m \in V : <<m, k>> \notin older
    BY <1>4, <1>5, <1>10, <1>12 DEF Ordered
  <2>2. \A m \in U : <<m, k>> \notin older
    BY <1>4, <1>5, <1>7, <2>1
  <2> QED BY <1>4, <1>5, <2>2
<1> QED BY <1>11, <1>12

LEMMA NoteOfKnown ==
    ASSUME TypeOK, NEW m \in Memory
    PROVE  NoteOf(m) \in NoNote..made
<1>1. CASE With(m) = {}
  BY <1>1, NotesAssumption DEF NoteOf, NoNote, TypeOK
<1>2. CASE With(m) # {}
  <2>1. With(m) \in SUBSET Notes
    BY DEF With
  <2>2. \E n \in With(m) : \A k \in With(m) : <<k, n>> \notin older
    BY <1>2, <2>1, OldestExists, NotesAssumption DEF TypeOK
  <2>3. NoteOf(m) \in With(m)
    BY <1>2, <2>2 DEF NoteOf
  <2> QED BY <2>1, <2>3, NotesAssumption DEF TypeOK, Notes, NoNote
<1> QED BY <1>1, <1>2

(***************************************************************************)
(* Writing a note, an old one or the next new one, leaves the notes        *)
(* ordered, with that note the newest.                                     *)
(***************************************************************************)
LEMMA TouchedOrders ==
    ASSUME Ordered, made \in Nat, NEW n \in 1..(made + 1),
           made' = IF n > made THEN n ELSE made, older' = Touched(n)
    PROVE  Ordered'
<1> DEFINE old == {e \in older : n \notin {e[1], e[2]}}
<1>1. Notes' = Notes \cup {n} /\ Notes \subseteq Notes'
  BY DEF Notes
<1>2. older' = old \cup ((Notes \ {n}) \X {n})
  BY DEF Touched
<1>3. \A a, b : <<a, b>> \in older' <=>
        \/ <<a, b>> \in older /\ a # n /\ b # n
        \/ a \in Notes \ {n} /\ b = n
  BY <1>2 DEF Ordered
<1>4. older \in SUBSET (Notes \X Notes)
  BY DEF Ordered
<1>5. older' \in SUBSET (Notes' \X Notes')
  BY <1>1, <1>2, <1>4
<1>6. \A a, b \in Notes' : a # b <=> <<a, b>> \in older' \/ <<b, a>> \in older'
  BY <1>1, <1>3 DEF Ordered
<1>7. \A a, b, c \in Notes' :
        <<a, b>> \in older' /\ <<b, c>> \in older' => <<a, c>> \in older'
  <2> SUFFICES ASSUME NEW a \in Notes', NEW b \in Notes', NEW c \in Notes',
                      <<a, b>> \in older', <<b, c>> \in older'
               PROVE  <<a, c>> \in older'
    OBVIOUS
  <2>1. b # n /\ a # n
    BY <1>3
  <2> QED BY <1>1, <1>3, <2>1 DEF Ordered
<1> QED BY <1>5, <1>6, <1>7 DEF Ordered

-----------------------------------------------------------------------------
(* Type correctness.                                                       *)

LEMMA DraftRead ==
    ASSUME TypeOK, NEW w \in Process
    PROVE  /\ write[w].verb = "write" =>
                /\ write[w] \in [verb : {"write"}, note : NoNote..MaxNote, left : SUBSET Path,
                                 new : Note]
           /\ write[w].verb = "verify" => write[w] \in [verb : {"verify"}, note : NoteId]
<1>1. write[w] \in Draft \cup {NoDraft}
  BY DEF TypeOK
<1> QED BY <1>1 DEF Draft, NoDraft

LEMMA SyncRead ==
    ASSUME TypeOK, NEW s \in Syncer, sync[s].stage # "none"
    PROVE  sync[s] \in Sync
<1>1. sync[s] \in Sync \cup {NoSync}
  BY DEF TypeOK
<1> QED BY <1>1 DEF NoSync

\* The note that a process is about to write, and those a sync has listed, exist.
Known ==
    /\ \A w \in Process :
         write[w].verb \in {"write", "verify"} => write[w].note \in NoNote..made
    /\ \A s \in Syncer, m \in Memory :
         sync[s].stage # "none" => sync[s].bySource[m] \in NoNote..made

NotesInv == TypeOK /\ Known

LEMMA NotesInit == Init => NotesInv
<1> SUFFICES ASSUME Init PROVE NotesInv
  OBVIOUS
<1>1. made = 0 /\ older = {} /\ Notes = {}
  BY DEF Init, Notes
<1>2. Ordered
  BY <1>1 DEF Ordered
<1>3. disk \in [Path -> Hash] /\ row \in [Path -> Hash] /\ note \in [NoteId -> Note]
  BY DEF Init, NoHashes, Hash, Note
<1>4. 0 \in 0..MaxNote /\ 0 \in 0..MaxEdits /\ 0 \in 0..MaxVerbs /\ 0 \in 0..MaxFaults
  BY NotesAssumption
<1>5. TypeOK
  BY <1>1, <1>2, <1>3, <1>4 DEF TypeOK, Init
<1> QED BY <1>5 DEF NotesInv, Known, Init, NoDraft, NoSync

CountersOK == edits \in 0..MaxEdits /\ verbs \in 0..MaxVerbs /\ faults \in 0..MaxFaults

LEMMA SpendType == TypeOK /\ Spend => CountersOK'
BY NotesAssumption DEF TypeOK, Spend, CountersOK

LEMMA SameNotes == Ordered /\ UNCHANGED <<made, older>> => Ordered'
BY DEF Ordered, Notes

\* A step that changes only what processes hold is well typed when what they hold is.
LEMMA HoldStep ==
    ASSUME NotesInv, UNCHANGED notes, disk' \in [Path -> Hash], row' \in [Path -> Hash],
           CountersOK',
           \A w \in Process : write'[w] = write[w] \/ write'[w] = NoDraft
                \/ (write'[w] \in Draft /\ write'[w].note \in NoNote..made),
           write' \in [Process -> Draft \cup {NoDraft}],
           \A s \in Syncer : sync'[s] = sync[s] \/ sync'[s] = NoSync
                \/ (sync'[s] \in Sync /\ \A m \in Memory : sync'[s].bySource[m] \in NoNote..made),
           sync' \in [Syncer -> Sync \cup {NoSync}]
    PROVE  NotesInv'
<1>1. UNCHANGED <<note, made, older>>
  BY DEF notes
<1>2. TypeOK'
  BY <1>1, SameNotes DEF NotesInv, TypeOK, CountersOK
<1>3. Known'
  BY <1>1 DEF NotesInv, Known, NoDraft, NoSync
<1> QED BY <1>2, <1>3 DEF NotesInv

LEMMA BeginType ==
    ASSUME NotesInv, NEW w \in Process, NEW n \in NoNote..made, NEW sources \in SUBSET Path,
           Begin(w, n, sources)
    PROVE  /\ write' \in [Process -> Draft \cup {NoDraft}]
           /\ \A v \in Process : v # w => write'[v] = write[v]
           /\ write'[w] \in Draft /\ write'[w].note \in NoNote..made
<1> USE DEF NotesInv, TypeOK
<1> DEFINE d == [verb |-> "write", note |-> n, left |-> sources,
                 new |-> [sources |-> sources, hashes |-> NoHashes]]
<1>1. NoHashes \in [Path -> Hash] /\ n \in NoNote..MaxNote
  BY NotesAssumption DEF NoHashes, Hash, NoNote
<1>2. d \in Draft /\ d.note = n
  BY <1>1 DEF Draft, Note
<1> HIDE DEF d
<1>3. write' = [write EXCEPT ![w] = d]
  BY DEF Begin, d
<1> QED BY <1>2, <1>3

LEMMA SnapshotType ==
    ASSUME NotesInv, NEW w \in Process, SourceSnapshot(w)
    PROVE  NotesInv'
<1> USE DEF NotesInv, TypeOK
<1>1. PICK p \in write[w].left :
        IF row[p] = Absent
        THEN /\ write' = [write EXCEPT ![w] = NoDraft]
             /\ sync' = IF w \in Syncer THEN [sync EXCEPT ![w] = NoSync] ELSE sync
        ELSE /\ write' = [write EXCEPT ![w].left = @ \ {p}, ![w].new.hashes[p] = row[p]]
             /\ sync' = sync
  BY DEF SourceSnapshot
<1>2. write[w] \in [verb : {"write"}, note : NoNote..MaxNote, left : SUBSET Path, new : Note]
  BY DraftRead DEF SourceSnapshot
<1>3. p \in Path /\ write[w].note \in NoNote..made
  BY <1>2 DEF Known
<1>4. sync' \in [Syncer -> Sync \cup {NoSync}]
  BY <1>1
<1>5. \A s \in Syncer : sync'[s] = sync[s] \/ sync'[s] = NoSync
  BY <1>1
<1>6. write' \in [Process -> Draft \cup {NoDraft}]
      /\ \A v \in Process : write'[v] = write[v] \/ write'[v] = NoDraft
            \/ (write'[v] \in Draft /\ write'[v].note \in NoNote..made)
  <2>1. CASE row[p] = Absent
    BY <1>1, <2>1
  <2>2. CASE row[p] # Absent
    <3> DEFINE d == [write[w] EXCEPT !.left = write[w].left \ {p},
                                     !.new = [write[w].new EXCEPT !.hashes =
                                        [write[w].new.hashes EXCEPT ![p] = row[p]]]]
    <3>1. [write[w].new.hashes EXCEPT ![p] = row[p]] \in [Path -> Hash]
      BY <1>2, <1>3 DEF Note
    <3>2. d \in Draft /\ d.note = write[w].note
      BY <1>2, <3>1 DEF Draft, Note
    <3>3. write' = [write EXCEPT ![w] = d]
      BY <1>1, <1>2, <2>2 DEF Note
    <3> HIDE DEF d
    <3> QED BY <1>3, <3>2, <3>3
  <2> QED BY <2>1, <2>2
<1>7. UNCHANGED <<disk, row, notes, edits, verbs, faults>>
  BY DEF SourceSnapshot, files, counters
<1> QED BY <1>4, <1>5, <1>6, <1>7, HoldStep DEF CountersOK

LEMMA StoreType ==
    ASSUME NotesInv, NEW w \in Process, StoreNote(w) \/ Verify(w)
    PROVE  NotesInv'
<1> USE DEF NotesInv, TypeOK
<1>1. made \in Nat /\ made \in 0..MaxNote
  BY NotesAssumption
<1>2. PICK k \in 1..(made + 1) :
        /\ k <= MaxNote
        /\ note' \in [NoteId -> Note]
        /\ made' = IF k > made THEN k ELSE made
        /\ older' = Touched(k)
        /\ write' = [write EXCEPT ![w] = NoDraft]
        /\ UNCHANGED <<disk, row, sync, edits, verbs, faults>>
  <2>1. CASE StoreNote(w)
    <3>1. /\ write[w] \in [verb : {"write"}, note : NoNote..MaxNote, left : SUBSET Path,
                           new : Note]
          /\ write[w].note \in NoNote..made
      BY <2>1, DraftRead DEF StoreNote, Known
    <3>2. PICK k : k = IF write[w].note = NoNote THEN made + 1 ELSE write[w].note
      OBVIOUS
    <3>3. k \in 1..(made + 1)
      BY <1>1, <3>1, <3>2 DEF NoNote
    <3>4. /\ k <= MaxNote
          /\ note' = [note EXCEPT ![k] = write[w].new]
          /\ made' = IF k > made THEN k ELSE made
          /\ older' = Touched(k)
          /\ write' = [write EXCEPT ![w] = NoDraft]
          /\ UNCHANGED <<disk, row, sync, edits, verbs, faults>>
      BY <2>1, <3>2 DEF StoreNote, files, counters
    <3>5. note' \in [NoteId -> Note]
      BY <3>1, <3>4
    <3> QED BY <3>3, <3>4, <3>5
  <2>2. CASE Verify(w)
    <3>1. write[w].note \in NoteId /\ write[w].note \in NoNote..made
      BY <2>2, DraftRead DEF Verify, Known
    <3>2. PICK k : k = write[w].note
      OBVIOUS
    <3>3. k \in 1..(made + 1) /\ k <= MaxNote /\ ~(k > made)
      BY <1>1, <3>1, <3>2, NotesAssumption DEF NoNote, NoteId
    <3> QED BY <2>2, <3>2, <3>3 DEF Verify, files, counters
  <2> QED BY <2>1, <2>2
<1>3. made' \in 0..MaxNote /\ made <= made'
  BY <1>1, <1>2
<1>4. Ordered'
  BY <1>1, <1>2, TouchedOrders
<1>5. write' \in [Process -> Draft \cup {NoDraft}]
  BY <1>2
<1>6. TypeOK'
  BY <1>2, <1>3, <1>4, <1>5
<1>7. NoNote..made \subseteq NoNote..made'
  BY <1>1, <1>3 DEF NoNote
<1>8. Known'
  <2>1. \A v \in Process : write'[v] = write[v] \/ write'[v] = NoDraft
    BY <1>2
  <2> QED BY <1>2, <1>7, <2>1 DEF Known, NoDraft
<1> QED BY <1>6, <1>8

LEMMA AuthorType ==
    ASSUME NotesInv, NEW w \in Author, AuthorStep(w)
    PROVE  NotesInv'
<1> USE DEF NotesInv, TypeOK
<1>1. w \in Process
  BY DEF Process
<1>2. made \in Nat /\ made \in 0..MaxNote
  BY NotesAssumption
<1>3. ASSUME NEW n \in NoNote..made, NEW sources \in SUBSET Path, Spend, Begin(w, n, sources),
             UNCHANGED <<files, notes, sync>>
      PROVE  NotesInv'
  BY <1>1, <1>3, BeginType, SpendType, HoldStep DEF files
<1>4. ASSUME NEW sources \in SUBSET Path \ {{}}, CmdArchAdd(w, sources) PROVE NotesInv'
  <2>1. NoNote \in NoNote..made
    BY <1>2 DEF NoNote
  <2> QED BY <1>3, <1>4, <2>1 DEF CmdArchAdd
<1>5. ASSUME NEW n \in Notes, CmdArchUpdate(w, n) PROVE NotesInv'
  <2>1. n \in NoNote..made /\ n \in NoteId
    BY <1>2, NotesAssumption DEF Notes, NoNote, NoteId
  <2>2. note[n].sources \in SUBSET Path
    BY <2>1 DEF Note
  <2> QED BY <1>3, <1>5, <2>1, <2>2 DEF CmdArchUpdate
<1>6. ASSUME NEW n \in Notes, CmdArchVerify(w, n) PROVE NotesInv'
  <2>1. n \in NoNote..made /\ n \in NoteId
    BY <1>2, NotesAssumption DEF Notes, NoNote, NoteId
  <2> DEFINE d == [verb |-> "verify", note |-> n]
  <2>2. d \in Draft /\ d.note \in NoNote..made
    BY <2>1 DEF Draft
  <2> HIDE DEF d
  <2>3. write' = write \/ write' = [write EXCEPT ![w] = d]
    BY <1>6 DEF CmdArchVerify, d
  <2>4. /\ write' \in [Process -> Draft \cup {NoDraft}]
        /\ \A v \in Process : write'[v] = write[v]
              \/ (write'[v] \in Draft /\ write'[v].note \in NoNote..made)
    BY <2>2, <2>3
  <2>5. UNCHANGED <<files, notes, sync>> /\ CountersOK'
    BY <1>6, SpendType DEF CmdArchVerify
  <2> QED BY <2>4, <2>5, HoldStep DEF files
<1> QED BY <1>1, <1>4, <1>5, <1>6, SnapshotType, StoreType DEF AuthorStep

LEMMA SyncType ==
    ASSUME NotesInv, NEW s \in Syncer, SyncStep(s) \/ CommitBusy(s) \/ Die(s)
    PROVE  NotesInv'
<1> USE DEF NotesInv, TypeOK
<1>1. s \in Process /\ made \in Nat /\ made \in 0..MaxNote
  BY NotesAssumption DEF Process
<1>2. CountersOK
  BY DEF CountersOK
<1>3. sync[s].stage # "none" =>
        sync[s] \in Sync /\ \A m \in Memory : sync[s].bySource[m] \in NoNote..made
  BY SyncRead DEF Known
<1>4. ASSUME NEW y, y \in Sync, \A m \in Memory : y.bySource[m] \in NoNote..made,
             sync' = [sync EXCEPT ![s] = y]
      PROVE  /\ sync' \in [Syncer -> Sync \cup {NoSync}]
             /\ \A t \in Syncer : sync'[t] = sync[t]
                  \/ (sync'[t] \in Sync /\ \A m \in Memory : sync'[t].bySource[m] \in NoNote..made)
  BY <1>4
<1>5. CASE Discover(s)
  <2> DEFINE y == [stage |-> "read", read |-> [m \in Memory |-> Absent], left |-> Memory,
                   existing |-> {}, alone |-> TRUE, bySource |-> [m \in Memory |-> NoNote]]
  <2>1. y \in Sync /\ \A m \in Memory : y.bySource[m] \in NoNote..made
    <3>1. NoNote \in NoNote..made /\ NoNote \in NoNote..MaxNote
      BY <1>1, NotesAssumption DEF NoNote
    <3> QED BY <3>1 DEF Sync, Hash
  <2> HIDE DEF y
  <2>2. sync' = [sync EXCEPT ![s] = y] /\ UNCHANGED <<files, notes, write>>
    BY <1>5 DEF Discover, y
  <2>3. CountersOK'
    BY <1>2, <1>5, SpendType DEF Discover, counters, CountersOK
  <2> QED BY <1>4, <2>1, <2>2, <2>3, HoldStep DEF files
<1>6. CASE ReadFile(s)
  <2>1. PICK m \in sync[s].left :
           sync' = [sync EXCEPT ![s].read[m] = disk[m], ![s].left = @ \ {m}]
    BY <1>6 DEF ReadFile
  <2> DEFINE y == [sync[s] EXCEPT !.read = [sync[s].read EXCEPT ![m] = disk[m]],
                                  !.left = sync[s].left \ {m}]
  <2>2. sync[s] \in Sync /\ \A k \in Memory : sync[s].bySource[k] \in NoNote..made
    BY <1>3, <1>6 DEF ReadFile, In
  <2>3. m \in Memory /\ disk[m] \in Hash
    BY <2>2 DEF Sync, Path
  <2>4. y \in Sync /\ y.bySource = sync[s].bySource
    BY <2>2, <2>3 DEF Sync
  <2>5. sync' = [sync EXCEPT ![s] = y]
    BY <2>1, <2>2 DEF Sync
  <2> HIDE DEF y
  <2>6. UNCHANGED <<files, notes, write, counters>>
    BY <1>6 DEF ReadFile
  <2> QED BY <1>2, <1>4, <2>2, <2>4, <2>5, <2>6, HoldStep DEF files, counters, CountersOK
<1>7. CASE ReadExisting(s)
  <2> DEFINE y == [sync[s] EXCEPT !.stage = "commit",
                                  !.existing = {m \in Memory : row[m] # Absent}]
  <2>1. sync[s] \in Sync /\ \A m \in Memory : sync[s].bySource[m] \in NoNote..made
    BY <1>3, <1>7 DEF ReadExisting, In
  <2>2. y \in Sync /\ y.bySource = sync[s].bySource
    BY <2>1 DEF Sync
  <2>3. sync' = [sync EXCEPT ![s] = y]
    BY <1>7 DEF ReadExisting
  <2> HIDE DEF y
  <2>4. UNCHANGED <<files, notes, write, counters>>
    BY <1>7 DEF ReadExisting
  <2> QED BY <1>2, <1>4, <2>1, <2>2, <2>3, <2>4, HoldStep DEF files, counters, CountersOK
<1>8. CASE SyncExternalSources(s)
  <2>1. sync[s] \in Sync
    BY <1>3, <1>8 DEF SyncExternalSources, In
  <2>2. row' \in [Path -> Hash]
    <3>1. \A p \in Listed(s) : sync[s].read[p] \in Hash
      BY <2>1 DEF Sync, Listed
    <3> QED BY <1>8, <3>1 DEF SyncExternalSources, Replaced, Hash
  <2>3. \A t \in Syncer :
          sync'[t] = sync[t]
            \/ (sync'[t] \in Sync /\ \A m \in Memory : sync'[t].bySource[m] \in NoNote..made)
    <3> SUFFICES ASSUME NEW t \in Syncer, sync'[t] # sync[t]
                 PROVE  sync'[t] \in Sync /\ \A m \in Memory : sync'[t].bySource[m] \in NoNote..made
      OBVIOUS
    <3>1. \/ sync'[t] = [sync[t] EXCEPT !.stage = "list"] /\ sync[t].stage = "commit"
          \/ sync'[t] = [sync[t] EXCEPT !.alone = FALSE] /\ sync[t].stage = "commit"
      BY <1>8 DEF SyncExternalSources, In
    <3>2. sync[t] \in Sync /\ \A m \in Memory : sync[t].bySource[m] \in NoNote..made
      BY <3>1, SyncRead DEF Known
    <3> QED BY <3>1, <3>2 DEF Sync
  <2>4. sync' \in [Syncer -> Sync \cup {NoSync}]
    <3>1. \E f : sync' = [t \in Syncer |-> f[t]]
      <4> DEFINE f == [t \in Syncer |->
                        IF t = s THEN [sync[s] EXCEPT !.stage = "list"]
                        ELSE IF In(t, "commit") THEN [sync[t] EXCEPT !.alone = FALSE]
                        ELSE sync[t]]
      <4>1. sync' = f
        BY <1>8 DEF SyncExternalSources
      <4>2. f = [t \in Syncer |-> f[t]]
        OBVIOUS
      <4> HIDE DEF f
      <4> QED BY <4>1, <4>2
    <3> QED BY <2>3, <3>1
  <2>5. UNCHANGED <<disk, notes, write, counters>>
    BY <1>8 DEF SyncExternalSources
  <2> QED BY <1>2, <2>2, <2>3, <2>4, <2>5, HoldStep DEF counters, CountersOK
<1>9. CASE ListNotes(s)
  <2> DEFINE by == [m \in Memory |-> NoteOf(m)]
             y == [sync[s] EXCEPT !.stage = "notes", !.left = Listed(s), !.bySource = by]
  <2>1. sync[s] \in Sync
    BY <1>3, <1>9 DEF ListNotes, In
  <2>2. \A m \in Memory : NoteOf(m) \in NoNote..made /\ NoteOf(m) \in NoNote..MaxNote
    <3>1. NoNote..made \subseteq NoNote..MaxNote
      BY <1>1, NotesAssumption DEF NoNote
    <3> QED BY <3>1, NoteOfKnown
  <2>3. by \in [Memory -> NoNote..MaxNote] /\ \A m \in Memory : by[m] \in NoNote..made
    BY <2>2
  <2>4. sync' = [sync EXCEPT ![s] = y]
    BY <1>9 DEF ListNotes
  <2> HIDE DEF by
  <2>5. y \in Sync /\ y.bySource = by
    BY <2>1, <2>3 DEF Sync, Listed
  <2> HIDE DEF y
  <2>6. UNCHANGED <<files, notes, write, counters>>
    BY <1>9 DEF ListNotes
  <2> QED BY <1>2, <1>4, <2>3, <2>4, <2>5, <2>6, HoldStep DEF files, counters, CountersOK
<1>10. CASE UpsertNote(s)
  <2>1. PICK m \in sync[s].left :
           Begin(s, sync[s].bySource[m], {m}) /\ sync' = [sync EXCEPT ![s].left = @ \ {m}]
    BY <1>10 DEF UpsertNote
  <2> DEFINE y == [sync[s] EXCEPT !.left = sync[s].left \ {m}]
  <2>2. sync[s] \in Sync /\ \A k \in Memory : sync[s].bySource[k] \in NoNote..made
    BY <1>3, <1>10 DEF UpsertNote, In
  <2>3. m \in Memory /\ {m} \in SUBSET Path /\ sync[s].bySource[m] \in NoNote..made
    BY <2>2 DEF Sync, Path
  <2>4. y \in Sync /\ y.bySource = sync[s].bySource
    BY <2>2 DEF Sync
  <2>5. sync' = [sync EXCEPT ![s] = y]
    BY <2>1
  <2> HIDE DEF y
  <2>6. UNCHANGED <<files, notes, counters>>
    BY <1>10 DEF UpsertNote
  <2>7. /\ write' \in [Process -> Draft \cup {NoDraft}]
        /\ \A v \in Process : v # s => write'[v] = write[v]
        /\ write'[s] \in Draft /\ write'[s].note \in NoNote..made
    BY <1>1, <2>1, <2>3, BeginType
  <2> QED BY <1>2, <1>4, <2>2, <2>4, <2>5, <2>6, <2>7, HoldStep DEF files, counters, CountersOK
<1>11. CASE SyncEnd(s) \/ Die(s)
  <2>1. /\ sync' = [sync EXCEPT ![s] = NoSync]
        /\ write' = write \/ write' = [write EXCEPT ![s] = NoDraft]
        /\ UNCHANGED <<files, notes>>
    BY <1>11 DEF SyncEnd, Die
  <2>2. CountersOK'
    BY <1>2, <1>11, NotesAssumption DEF SyncEnd, Die, counters, CountersOK
  <2>3. /\ sync' \in [Syncer -> Sync \cup {NoSync}]
        /\ \A t \in Syncer : sync'[t] = sync[t] \/ sync'[t] = NoSync
    BY <2>1
  <2>4. /\ write' \in [Process -> Draft \cup {NoDraft}]
        /\ \A v \in Process : write'[v] = write[v] \/ write'[v] = NoDraft
    BY <1>1, <2>1
  <2> QED BY <2>1, <2>2, <2>3, <2>4, HoldStep DEF files
<1>12. CASE CommitBusy(s)
  <2> DEFINE y == [sync[s] EXCEPT !.existing = sync[s].existing \ Listed(s)]
  <2>1. sync[s] \in Sync /\ \A m \in Memory : sync[s].bySource[m] \in NoNote..made
    BY <1>3, <1>12 DEF CommitBusy, In
  <2>2. y \in Sync /\ y.bySource = sync[s].bySource
    BY <2>1 DEF Sync
  <2>3. sync' = [sync EXCEPT ![s] = y]
    BY <1>12 DEF CommitBusy
  <2> HIDE DEF y
  <2>4. UNCHANGED <<files, notes, write>> /\ CountersOK'
    BY <1>2, <1>12, NotesAssumption DEF CommitBusy, CountersOK
  <2> QED BY <1>4, <2>1, <2>2, <2>3, <2>4, HoldStep DEF files
<1> QED BY <1>1, <1>5, <1>6, <1>7, <1>8, <1>9, <1>10, <1>11, <1>12, SnapshotType, StoreType
        DEF SyncStep

LEMMA NotesNext == NotesInv /\ [Next]_vars => NotesInv'
<1> SUFFICES ASSUME NotesInv, [Next]_vars PROVE NotesInv'
  OBVIOUS
<1>1. ASSUME NEW p \in Path, Edit(p) PROVE NotesInv'
  <2>1. disk' \in [Path -> Hash] /\ CountersOK'
    BY <1>1, NotesAssumption DEF Edit, NotesInv, TypeOK, CountersOK
  <2> QED BY <1>1, <2>1, HoldStep DEF Edit, NotesInv, TypeOK
<1>2. CASE ScanCommit
  <2>1. row' \in [Path -> Hash]
    BY <1>2 DEF ScanCommit, NotesInv, TypeOK
  <2>2. CountersOK'
    BY <1>2 DEF ScanCommit, NotesInv, TypeOK, CountersOK, counters
  <2> QED BY <1>2, <2>1, <2>2, HoldStep DEF ScanCommit, NotesInv, TypeOK
<1>3. CASE UNCHANGED vars
  <2>1. CountersOK'
    BY <1>3 DEF vars, NotesInv, TypeOK, CountersOK
  <2> QED BY <1>3, <2>1, HoldStep DEF vars, notes, NotesInv, TypeOK
<1> QED BY <1>1, <1>2, <1>3, AuthorType, SyncType DEF Next

(***************************************************************************)
(* Every reachable state is well typed: in particular updated_at orders    *)
(* the notes, whoever wrote them, and no process is about to write a note  *)
(* that does not exist.                                                    *)
(***************************************************************************)
THEOREM NotesTypeCorrect == Spec => []TypeOK
<1>1. NotesInv => TypeOK
  BY DEF NotesInv
<1> QED BY <1>1, NotesInit, NotesNext, PTL DEF Spec

-----------------------------------------------------------------------------
(* Replacing a namespace.                                                  *)

(***************************************************************************)
(* Of a sync that nobody has interfered with, the map of existing rows and *)
(* what was listed together still cover the namespace, whatever the failed *)
(* attempts have taken out of the map (external.go:60, db.go:70).          *)
(***************************************************************************)
Covered ==
    \A s \in Syncer : In(s, "commit") /\ sync[s].alone =>
        \A m \in Memory : row[m] # Absent => m \in sync[s].existing \cup Listed(s)

\* Reading hashes and storing the note either goes on with the sync or ends it.
LEMMA NoteSteps ==
    ASSUME TypeOK, NEW s \in Syncer, SourceSnapshot(s) \/ StoreNote(s)
    PROVE  UNCHANGED row /\ (sync' = sync \/ sync'[s] = NoSync)
<1>1. CASE StoreNote(s)
  BY <1>1 DEF StoreNote, files
<1>2. CASE SourceSnapshot(s)
  <2>1. sync' = sync \/ sync' = [sync EXCEPT ![s] = NoSync]
    BY <1>2, Zenon DEF SourceSnapshot
  <2> QED BY <1>2, <2>1 DEF SourceSnapshot, files, TypeOK
<1> QED BY <1>1, <1>2

LEMMA CoveredStep == NotesInv /\ Covered /\ [Next]_vars => Covered'
<1> SUFFICES ASSUME NotesInv, Covered, [Next]_vars, NEW s \in Syncer,
                    In(s, "commit")', sync'[s].alone
             PROVE  \A m \in Memory : row'[m] # Absent =>
                        m \in sync'[s].existing \cup Listed(s)'
  BY DEF Covered
<1> USE DEF NotesInv, TypeOK
<1>1. sync'[s].stage = "commit"
  BY DEF In
<1>2. CASE UNCHANGED <<row, sync>>
  BY <1>2 DEF Covered, In, Listed
<1>3. ASSUME NEW w \in Author, AuthorStep(w) PROVE UNCHANGED <<row, sync>>
  BY <1>3, NotesAssumption
  DEF AuthorStep, CmdArchAdd, CmdArchUpdate, CmdArchVerify, SourceSnapshot, StoreNote, Verify,
      files
<1>4. ASSUME NEW p \in Path, Edit(p) PROVE UNCHANGED <<row, sync>>
  BY <1>4 DEF Edit
<1>5. CASE ScanCommit
  <2>1. UNCHANGED sync /\ \A m \in Memory : row'[m] = row[m]
    BY <1>5, NotesAssumption DEF ScanCommit, Path
  <2> QED BY <2>1 DEF Covered, In, Listed
<1>6. ASSUME NEW t \in Syncer, SyncStep(t) \/ CommitBusy(t) \/ Die(t), ~SyncExternalSources(t)
      PROVE  UNCHANGED row /\ \A u \in Syncer : u # t => sync'[u] = sync[u]
  BY <1>6 DEF SyncStep, Discover, ReadFile, ReadExisting, ListNotes, UpsertNote, SyncEnd,
              SourceSnapshot, StoreNote, CommitBusy, Die, files
<1>7. ASSUME NEW t \in Syncer, SyncExternalSources(t) PROVE FALSE
  <2>1. sync'[s] = IF s = t THEN [sync[t] EXCEPT !.stage = "list"]
                   ELSE IF In(s, "commit") THEN [sync[s] EXCEPT !.alone = FALSE] ELSE sync[s]
    BY <1>7 DEF SyncExternalSources
  <2>2. sync[t] \in Sync /\ (In(s, "commit") => sync[s] \in Sync)
    BY <1>7, SyncRead DEF SyncExternalSources, In
  <2>3. CASE s = t
    BY <1>1, <2>1, <2>2, <2>3 DEF Sync
  <2>4. CASE s # t /\ In(s, "commit")
    BY <2>1, <2>2, <2>4 DEF Sync
  <2>5. CASE s # t /\ ~In(s, "commit")
    BY <1>1, <2>1, <2>5 DEF In
  <2> QED BY <2>3, <2>4, <2>5
<1>8. CASE ReadExisting(s)
  <2>1. sync[s] \in Sync
    BY <1>8, SyncRead DEF ReadExisting, In
  <2>2. sync'[s].existing = {m \in Memory : row[m] # Absent} /\ UNCHANGED row
    BY <1>8, <2>1 DEF ReadExisting, Sync, files
  <2> QED BY <2>2
<1>9. CASE CommitBusy(s)
  <2>1. sync[s] \in Sync
    BY <1>9, SyncRead DEF CommitBusy, In
  <2>2. /\ sync'[s] = [sync[s] EXCEPT !.existing = sync[s].existing \ Listed(s)]
        /\ UNCHANGED row
    BY <1>9 DEF CommitBusy, files
  <2>3. /\ sync'[s].existing = sync[s].existing \ Listed(s)
        /\ sync'[s].alone = sync[s].alone /\ sync'[s].read = sync[s].read
    BY <2>1, <2>2 DEF Sync
  <2>4. Listed(s)' = Listed(s)
    BY <2>3 DEF Listed
  <2>5. \A m \in Memory : row[m] # Absent => m \in sync[s].existing \cup Listed(s)
    BY <1>9, <2>3 DEF Covered, CommitBusy
  <2> QED BY <2>2, <2>3, <2>4, <2>5
<1>10. ASSUME SyncStep(s) \/ Die(s), ~ReadExisting(s), ~SyncExternalSources(s)
       PROVE  UNCHANGED <<row, sync>>
  <2>1. CASE Discover(s)
    BY <1>1, <2>1 DEF Discover
  <2>2. CASE ReadFile(s)
    <3>1. sync[s] \in Sync /\ sync[s].stage = "read"
      BY <2>2, SyncRead DEF ReadFile, In
    <3> QED BY <1>1, <2>2, <3>1 DEF ReadFile, Sync
  <2>3. CASE ListNotes(s)
    <3>1. sync[s] \in Sync
      BY <2>3, SyncRead DEF ListNotes, In
    <3> QED BY <1>1, <2>3, <3>1 DEF ListNotes, Sync
  <2>4. CASE UpsertNote(s)
    <3>1. sync[s] \in Sync /\ sync[s].stage = "notes"
      BY <2>4, SyncRead DEF UpsertNote, In
    <3> QED BY <1>1, <2>4, <3>1 DEF UpsertNote, Sync
  <2>5. CASE SyncEnd(s) \/ Die(s)
    BY <1>1, <2>5 DEF SyncEnd, Die, NoSync
  <2>6. CASE SourceSnapshot(s) \/ StoreNote(s)
    BY <1>1, <2>6, NoteSteps DEF NoSync
  <2> QED BY <1>10, <2>1, <2>2, <2>3, <2>4, <2>5, <2>6 DEF SyncStep
<1>11. ASSUME NEW t \in Syncer, SyncStep(t) \/ CommitBusy(t) \/ Die(t)
       PROVE  \A m \in Memory : row'[m] # Absent => m \in sync'[s].existing \cup Listed(s)'
  <2>1. CASE t = s
    BY <1>2, <1>7, <1>8, <1>9, <1>10, <1>11, <2>1
  <2>2. CASE t # s
    <3>1. UNCHANGED row /\ sync'[s] = sync[s]
      BY <1>6, <1>7, <1>11, <2>2
    <3> QED BY <3>1 DEF Covered, In, Listed
  <2> QED BY <2>1, <2>2
<1>12. CASE UNCHANGED vars
  BY <1>2, <1>12 DEF vars
<1> QED BY <1>2, <1>3, <1>4, <1>5, <1>11, <1>12 DEF Next

LEMMA ReplaceStep ==
    ASSUME NotesInv, Covered, [Next]_vars, NEW s \in Syncer,
           In(s, "commit"), sync'[s].stage = "list", sync[s].alone, NEW m \in Memory
    PROVE  row'[m] = sync[s].read[m]
<1> USE DEF NotesInv, TypeOK
<1>1. sync[s] \in Sync /\ sync[s].stage = "commit"
  BY SyncRead DEF In
<1>2. SyncExternalSources(s)
  <2>1. sync'[s] # sync[s]
    BY <1>1
  <2>2. ASSUME NEW w \in Author, AuthorStep(w) PROVE FALSE
    BY <2>1, <2>2, NotesAssumption
    DEF AuthorStep, CmdArchAdd, CmdArchUpdate, CmdArchVerify, SourceSnapshot, StoreNote, Verify
  <2>3. ASSUME NEW t \in Syncer, t # s, SyncStep(t) \/ CommitBusy(t) \/ Die(t) PROVE FALSE
    <3>1. CASE SyncExternalSources(t)
      <4>1. sync'[s] = [sync[s] EXCEPT !.alone = FALSE]
        BY <2>3, <3>1 DEF SyncExternalSources
      <4> QED BY <1>1, <4>1 DEF Sync
    <3>2. CASE ~SyncExternalSources(t)
      BY <2>1, <2>3, <3>2
      DEF SyncStep, Discover, ReadFile, ReadExisting, ListNotes, UpsertNote, SyncEnd,
          SourceSnapshot, StoreNote, CommitBusy, Die
    <3> QED BY <3>1, <3>2
  <2>4. CASE SyncStep(s) \/ CommitBusy(s) \/ Die(s)
    <3>1. ~CommitBusy(s)
      BY <1>1 DEF CommitBusy, Sync
    <3>2. ~Die(s) /\ ~SourceSnapshot(s) /\ ~StoreNote(s)
      BY <2>1, NoteSteps DEF Die, NoSync
    <3>3. /\ ~Discover(s) /\ ~ReadFile(s) /\ ~ReadExisting(s) /\ ~ListNotes(s)
          /\ ~UpsertNote(s) /\ ~SyncEnd(s)
      BY <1>1 DEF Discover, ReadFile, ReadExisting, ListNotes, UpsertNote, SyncEnd, In
    <3> QED BY <2>4, <3>1, <3>2, <3>3 DEF SyncStep
  <2>5. ~(\E p \in Path : Edit(p)) /\ ~ScanCommit /\ ~UNCHANGED vars
    BY <2>1 DEF Edit, ScanCommit, vars
  <2> QED BY <2>2, <2>3, <2>4, <2>5 DEF Next
<1>3. row'[m] = IF m \in Listed(s) THEN sync[s].read[m]
                ELSE IF m \in sync[s].existing THEN Absent ELSE row[m]
  BY <1>2 DEF SyncExternalSources, Replaced, Path
<1>4. m \notin Listed(s) => sync[s].read[m] = Absent
  BY DEF Listed
<1>5. row[m] # Absent => m \in sync[s].existing \cup Listed(s)
  BY DEF Covered
<1> QED BY <1>3, <1>4, <1>5

(***************************************************************************)
(* After the commit of a sync that no other sync has overtaken the         *)
(* namespace is what the sync found on disk, however many attempts were    *)
(* rolled back before.                                                     *)
(***************************************************************************)
THEOREM NamespaceReplaced == Spec => SyncReplacesNamespace
<1> DEFINE Replaces == \A s \in Syncer :
                In(s, "commit") /\ sync'[s].stage = "list" /\ sync[s].alone =>
                    \A m \in Memory : row'[m] = sync[s].read[m]
<1>1. Init => Covered
  BY DEF Init, Covered, In, NoSync
<1>2. NotesInv /\ Covered /\ [Next]_vars => [Replaces]_vars
  BY ReplaceStep
<1> QED BY <1>1, <1>2, NotesInit, NotesNext, CoveredStep, PTL DEF Spec, SyncReplacesNamespace
=============================================================================
