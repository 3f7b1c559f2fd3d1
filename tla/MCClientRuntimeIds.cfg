\* No break is needed: a stop has its ID when the connection it asks for once more
\* is used by a re-attachment first, which takes and writes a higher one.
SPECIFICATION Spec
CONSTANTS
    LastCall = 2
    LastScope = 2
    MaxBreaks = 1
INVARIANTS IdsIncrease
CHECK_DEADLOCK FALSE
