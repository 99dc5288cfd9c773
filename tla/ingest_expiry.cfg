SPECIFICATION Spec
CONSTANTS
    Source = {s1}
    FaultPlans <- Expiring
    RetryLimit = 1
    ParseResults = {{1}}
    ExtractResults = {{a}}
    BatchSize = 1
CHECK_DEADLOCK FALSE
INVARIANTS
    NoDuplicatePages
