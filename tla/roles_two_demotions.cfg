SPECIFICATION DemotionsSpec
CONSTANTS
    User = {u1, u2}
    Role = {"admin", "viewer"}
    AdminRequest = {q1, q2}
    Ops = {"set"}
    MaxSignups = 0
    MaxDemotions = 2
CHECK_DEADLOCK FALSE
SYMMETRY UserSymmetry
INVARIANTS
    AdminRemains
