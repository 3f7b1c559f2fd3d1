SPECIFICATION FairSpec
CONSTANTS
    Stops = {r1, r2}
    Daemon = daemon
INVARIANTS TypeOK PendingAttended SingleDriver NoLostWakeup FinalizedOnce
PROPERTIES ImplementsStopService StopAnswered Finalizes
CHECK_DEADLOCK FALSE
