SPECIFICATION Spec

CONSTANTS
    Call = {c1, c2}
    Address = {a1, a2}
    Identifier = {i1, i2}
    Limit = 3
    Any = Any
    None = None

INVARIANTS
    SourceIsExact
    PingSocketsAreReady
    FallbackOnDenialOnly
    DescriptorsReturned
