SPECIFICATION Spec
CONSTANTS
    Transports = {"cli"}
    Limit = 1
    Sizes <- MCSizes
    QueueMax = 1
    Callers <- MCCallers
    c1 = c1
    c2 = c2
    MaxVersion = 2
    MaxAttempts = 2
    MaxFrames = 1
    MaxDisturbances <- MCDisturbances
INVARIANTS SettledIsSeen
CHECK_DEADLOCK FALSE
