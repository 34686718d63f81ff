SPECIFICATION FairSpec

CONSTANTS
    Attempts = 2
    Timeout = 2
    Capacity = 1
    DrainLimit = 1

INVARIANTS
    TypeOK
    BareErrnoRejects
    LatencyIsMeasured
    ListeningIsBounded

PROPERTIES
    AttemptRunsFull
    AnswerInTimeDecides
    ImplementsContract
    Settles

\* A settled probe takes no more steps.
CHECK_DEADLOCK FALSE
