SPECIFICATION CronSpec
CONSTANTS
    MaxRow = 2
    MaxCopy = 4
    MaxVerbs <- MCMaxVerbs
    MaxRuns = 2
    MaxCrashes = 1
    Table = {"goals", "feedback", "runs", "findings", "features", "reminders", "tasks"}
    Sweeper = {s1}
    Restorer = {r1}
    Collector = {g1}
    Scanner = {o1}
    Line = {l1}
CHECK_DEADLOCK FALSE
INVARIANTS
    TypeOK
    NothingLost
    LatestCopyKept
PROPERTIES
    ImplementsVault
    ArchiveDrains
