SPECIFICATION QuietSpec
CONSTANTS
    Plan = {p1}
    MaxNumber = 3
    MaxItem = 2
    Criterion = {}
    Agent = {}
    Housekeeper = {h1}
    NoPlan = NoPlan
    NoMilestone = NoMilestone
    MaxPasses = 3
INVARIANTS
    TwoPassesRepair
PROPERTIES
    NoPlanDoneOverOpenItem
\* A bounded number of passes: the study ends.
CHECK_DEADLOCK FALSE
