SPECIFICATION Spec
CONSTANTS
    Run = {r1}
    File = {f1}
    NoFile = NoFile
    Agent = {a1, a2}
    Cap = 1
    MaxFinding = 3
SYMMETRY ReviewSymmetry
INVARIANTS
    TypeOK
    CapBounded
    LateBounded
    HeuristicRunsEnd
