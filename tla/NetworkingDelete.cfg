\* One session as in main.nim, one drop, nothing fails.
SPECIFICATION Spec
CONSTANTS
    MaxSessions = 1
    MaxDrops = 1
    StartMayFail = FALSE
INVARIANT GroupAliveWhenSet
\* The application stops at MaxSessions.
CHECK_DEADLOCK FALSE
