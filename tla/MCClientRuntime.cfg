SPECIFICATION Spec
CONSTANTS
    LastCall = 3
    LastScope = 3
    MaxBreaks = 2
INVARIANTS TypeOK AnswersMatch NoFalseAlarm
PROPERTY ImplementsCallService
CHECK_DEADLOCK FALSE
