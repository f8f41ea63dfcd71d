SPECIFICATION Spec
CONSTANTS
    Command = {c1, c2}
    Importer = Importer
    MaxVersion = 2
    HubVersion = 1
    LegacyVersion = 1
    MaxFile = 3
    MaxFaults = 1
SYMMETRY Symmetry
INVARIANTS
    TypeOK
    LegacyKept
    MovedWhole
    UndisturbedFits
    ReadyMeansMigrated
