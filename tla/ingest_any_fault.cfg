SPECIFICATION Spec
CONSTANTS
    Source = {s1}
    FaultPlans <- Any
    RetryLimit = 2
    ParseResults = {{1}}
    ExtractResults = {{a}}
    BatchSize = 1
CHECK_DEADLOCK FALSE
INVARIANTS
    TypeOK
    CompletedHandsOff
    JobsHaveInputs
    CanonicalMatchesPages
    QuiescentConsistent
