SPECIFICATION Spec

CONSTANTS
    Base = 8
    RequestV4 = 2
    ReplyV4 = 0
    RequestV6 = 4
    ReplyV6 = 5
    Local = 63
    Target = 17
    Ids = {0, 63}
    Seqs = {1, 8}
    MaxPayload = 3

INVARIANTS
    OwnAnswersAccepted
    DamageIsSeen
    QuotesAreToldApart

\* The payload has its greatest length.
CHECK_DEADLOCK FALSE
