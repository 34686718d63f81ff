SPECIFICATION FairSpec

CONSTANTS
    Worker = {w1, w2, w3}
    N = 3
    Quarantine = 2
    MaxTime = 4
    NoId = NoId

INVARIANTS
    TypeOK
    UniqueLeases
    NoIdentifierLost

PROPERTIES
    ExhaustionIsReal
    ImplementsPool
    AcquireReturns
