SPECIFICATION Spec
CONSTANTS
    Root = {r1}
    Alias = {a1}
    Command = {c1}
    Watcher = {}
    MaxClock = 3
    NoRoot = NoRoot
    NoRow = NoRow
    NoTarget = NoTarget
    Missing = Missing
INVARIANTS
    FreshMeansCurrent
