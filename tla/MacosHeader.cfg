SPECIFICATION MacosSpec

CONSTANTS
    Base = 16
    Sizes = {20, 24, 27, 28, 31, 32, 36, 55, 56, 60, 84, 255}
    Lengths = {0, 19, 27, 28, 40, 84, 255}
    Types = {0, 3, 4, 5, 11, 12}

INVARIANTS
    ReadAsSent

\* The packet has been read.
CHECK_DEADLOCK FALSE
