SPECIFICATION FairSpec

CONSTANTS
    Attempts = 2
    Timeout = 2
    Capacity = 2

INVARIANTS
    TypeOK
    LatencyIsMeasured
    AttemptIsBounded

PROPERTIES
    AttemptRunsFull
    AnswerInTimeDecides
    DeadlineIsNoError
    ImplementsContract
    Settles

\* A settled probe takes no more steps.
CHECK_DEADLOCK FALSE
