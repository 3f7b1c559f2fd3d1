SPECIFICATION FairSpec
CONSTANTS
    create = create
    stop = stop
    ok = ok
    None = None
    Overloaded = Overloaded
    Conns = {c1, c2}
    NumIds = 3
    Ids <- MCIds
    Bodies <- MCBodies
    Deferred <- MCDeferred
    Lenient <- MCDeferred
    Outcomes = {ok}
    MaxPending = 1
    MaxCached = 1
INVARIANTS
    TypeOK
    ExecutedAtMostOnce
    OneResult
    WaitersExact
PROPERTIES
    Answered
    ImplementsAtMostOnce
CHECK_DEADLOCK FALSE
