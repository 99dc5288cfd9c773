SPECIFICATION Spec
CONSTANTS
    Source = {s1}
    FaultPlans <- Throwing
    RetryLimit = 3
    ParseResults = {{}, {1}, {1, 2}}
    ExtractResults = {{}, {a}, {a, b}}
    BatchSize = 2
CHECK_DEADLOCK FALSE
PROPERTIES
    ImplementsStages
