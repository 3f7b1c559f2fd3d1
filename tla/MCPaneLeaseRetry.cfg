SPECIFICATION Spec
CONSTANTS
    None = None
    Conns = {c1, c2}
    Scopes = {s1}
    Panes = {p1}
    Identities = {i1, i2}
    Ids <- MCIds
    NumIds = 2
    MaxPending = 1
    MaxCached = 1
    LastLease = 1
INVARIANTS
    TypeOK
    OwnerAsked
SYMMETRY Symmetry
CHECK_DEADLOCK FALSE
