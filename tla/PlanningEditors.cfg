SPECIFICATION Spec
CONSTANTS
    Plan = {p1}
    MaxNumber = 1
    MaxItem = 2
    Criterion = {}
    Agent = {a1, a2}
    Housekeeper = {}
    NoPlan = NoPlan
    NoMilestone = NoMilestone
SYMMETRY PlanningSymmetry
INVARIANTS
    TypeOK
    AuditMatches
PROPERTIES
    CloseRollsUp
    PlanMovesWithMilestones
    RollupWritesTruth
