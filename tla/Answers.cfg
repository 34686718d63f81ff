SPECIFICATION Spec

CONSTANTS
    Address = {1, 2}
    Ident = {1, 2}
    Sequence = {1, 2}
    Sums = {0, 1}
    Parts = {0, 1}
    Local = 1
    Id = 1
    Seq = 1
    OwnSum = 0
    OwnFirst = 0
    OwnRest = 0

INVARIANTS
    OnlyOwnDecides
    OwnAnswersDecide
    TransportsAgree

\* The message is decided.
CHECK_DEADLOCK FALSE
