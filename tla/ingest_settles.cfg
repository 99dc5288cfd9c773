SPECIFICATION FairSpec
CONSTANTS
    Source = {s1}
    FaultPlans <- Interrupted
    RetryLimit = 1
    ParseResults = {{}}
    ExtractResults = {{}}
    BatchSize = 1
CHECK_DEADLOCK FALSE
PROPERTIES
    EventuallySettled
