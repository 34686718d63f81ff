SPECIFICATION Spec

CONSTANTS
    Call = {c1, c2}
    PoolSize = 2
    Attempts = 1
    N = 2
    Quarantine = 2
    MaxDelay = 1
    MaxTime = 3
    Share = {s1, s2}
    NoId = NoId

SYMMETRY Alike

INVARIANTS
    OutcomeIsOwn
    SocketWithinLease

\* The system stops when every call has settled.
CHECK_DEADLOCK FALSE
