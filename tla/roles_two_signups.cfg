SPECIFICATION RolesSpec
CONSTANTS
    User = {u1, u2}
    Role = {"admin", "viewer"}
    AdminRequest = {q1}
    Ops = {"set"}
    MaxSignups = 2
    MaxDemotions = 1
CHECK_DEADLOCK FALSE
SYMMETRY UserSymmetry
INVARIANTS
    OneElected
