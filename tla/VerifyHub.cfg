SPECIFICATION Spec
CONSTANTS
    File = {f1, f2}
    Sub = {f1}
    Present = {f1}
    Broad = {f2}
    Text = {t1, t2}
    Binary = {}
    NoHash = NoHash
    Absent = Absent
    Scanner = {s1}
    Run = {v1}
    CandidateLimit = 2
    MaxEdits = 1
    MaxStarts = 2
    MaxDismissals = 0
SYMMETRY LedgerSymmetry
CHECK_DEADLOCK FALSE
INVARIANT BroadChangeIsStale
