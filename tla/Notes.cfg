SPECIFICATION FairSpec
CONSTANTS
    Memory = {m1}
    Source = {g1}
    Content = {v1, v2}
    Absent = Absent
    Syncer = {s1, s2}
    Nightly = {s1}
    Author = {a1}
    MaxNote = 4
    MaxEdits = 2
    MaxVerbs = 1
    MaxFaults = 1
INVARIANTS
    TypeOK
PROPERTIES
    SyncReplacesNamespace
    SyncSettles
