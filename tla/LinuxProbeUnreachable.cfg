SPECIFICATION Spec

CONSTANTS
    Attempts = 1
    Timeout = 1
    Capacity = 1
    DrainLimit = 1

INVARIANTS
    UnreachableSendResolves

\* A settled probe takes no more steps.
CHECK_DEADLOCK FALSE
