SPECIFICATION Spec
CONSTANTS
    Chats = {c1}
    Reports = {"running", "failed"}
    LastGeneration = 2
    MaxCrashes = 1
    MaxDrops = 1
INVARIANTS TypeOK CleanIsDurable AgentRecorded NoGhostThinking
CHECK_DEADLOCK FALSE
