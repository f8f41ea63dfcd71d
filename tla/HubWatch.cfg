SPECIFICATION FairSpec
CONSTANTS
    Root = {r1}
    Alias = {a1, a2}
    Command = {c1}
    Watcher = {w1}
    MaxClock = 2
    NoRoot = NoRoot
    NoRow = NoRow
    NoTarget = NoTarget
    Missing = Missing
INVARIANTS
    TypeOK
    
    RowsHaveProject
PROPERTIES
    EventuallyCurrent
    ImplementsCache
