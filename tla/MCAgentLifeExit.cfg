\* No crash and no lost connection: an exit that is applied late is enough.
SPECIFICATION Spec
CONSTANTS
    Chats = {c1}
    Reports = {"running", "failed"}
    LastGeneration = 2
    MaxCrashes = 0
    MaxDrops = 0
INVARIANTS StartedIsRecorded
CHECK_DEADLOCK FALSE
