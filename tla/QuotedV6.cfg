SPECIFICATION Spec

CONSTANTS
    MaxHeaders = 4
    MaxLength = 2
    Rounds = 3

INVARIANTS
    TypeOK
    FindsMessage

\* The walk ends.
CHECK_DEADLOCK FALSE
