SPECIFICATION FairSpec
CONSTANTS
    Plan = {p1}
    MaxNumber = 1
    MaxItem = 1
    Criterion = {c1}
    Agent = {a1}
    Housekeeper = {h1}
    NoPlan = NoPlan
    NoMilestone = NoMilestone
INVARIANTS
    NoOrphanCriterion
PROPERTIES
    RollupWritesTruth
    ImplementsVault
    QuietLedgerConverges
