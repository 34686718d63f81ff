SPECIFICATION FairSpec

CONSTANTS
    Call = {c1, c2, c3}
    PoolSize = 2
    Attempts = 1
    N = 1
    Quarantine = 2
    MaxDelay = 1
    MaxTime = 2
    Share = {s1}
    NoId = NoId

PROPERTIES
    EveryCallSettles

\* The system stops when every call has settled.
CHECK_DEADLOCK FALSE
