SPECIFICATION Spec
CONSTANTS
    None = None
    Conns = {c1, c2, c3}
    Scopes = {s1, s2}
    Panes = {p1}
    Identities = {i1}
    Ids <- MCIds
    NumIds = 1
    MaxPending = 1
    MaxCached = 1
    LastLease = 2
INVARIANTS
    BeliefSound
    LateInputBounded
PROPERTIES
    ImplementsLeaseService
    RebindOnlyByExactRetry
SYMMETRY Symmetry
CHECK_DEADLOCK FALSE
