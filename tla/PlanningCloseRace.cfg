SPECIFICATION Spec
CONSTANTS
    Plan = {p1}
    MaxNumber = 1
    MaxItem = 1
    Criterion = {c1}
    Agent = {a1, a2}
    Housekeeper = {}
    NoPlan = NoPlan
    NoMilestone = NoMilestone
PROPERTIES
    CloseGate
