SPECIFICATION Spec
CONSTANTS
    File = {f1, f2}
    Sub = {f1}
    Present = {f1}
    Broad = {f2}
    Text = {t1, t2}
    Binary = {}
    NoHash = NoHash
    Absent = Absent
    Scanner = {s1, s2}
    Run = {v1, v2}
    CandidateLimit = 2
    MaxEdits = 1
    MaxStarts = 3
    MaxDismissals = 1
SYMMETRY LedgerSymmetry
CHECK_DEADLOCK FALSE
INVARIANTS
    TypeOK
    ReuseCoversInventory
    FailureHeard
PROPERTY
    ChangesRecorded
