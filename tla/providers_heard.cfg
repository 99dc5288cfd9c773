SPECIFICATION CacheSpec
CONSTANTS
    Loader = {c1, c2}
    Ttl = 3
    MaxVersion <- OneSave
CHECK_DEADLOCK FALSE
INVARIANTS
    HeardIsServed
