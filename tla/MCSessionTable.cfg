SPECIFICATION FairSpec
CONSTANTS
    n1 = n1
    n2 = n2
    t1 = t1
    t2 = t2
    pi = pi
    None = None
    Creates = {r1, r2}
    Identities <- MCIdentities
    Metadata <- MCMetadata
    Updates <- MCUpdates
    Wanted = {1}
    Statuses = {"running", "exited", "failed"}
    Final = {"exited", "failed"}
    Schema = 1
    LastSession = 2
INVARIANTS
    TypeOK
    TableCoherent
    DrainedLeavesNoChild
    StatusEntries
PROPERTIES
    FinalStays
    CreateAnswered
    ImplementsDirectory
CHECK_DEADLOCK FALSE
