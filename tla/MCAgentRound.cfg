SPECIFICATION Spec
CONSTANTS
    Transports = {"api", "cli"}
    Limit = 1
    Sizes <- MCSizes
    QueueMax = 1
    Callers <- MCCallers
    c1 = c1
    c2 = c2
    MaxVersion = 2
    MaxAttempts = 2
    MaxFrames = 1
    MaxDisturbances <- MCDisturbances
INVARIANTS SettledIsSeenOverApi AnswerKept KeyOfTheTask SwitchedOffLeaves
SYMMETRY MCSymmetry
CONSTRAINT MCShortLines
CHECK_DEADLOCK FALSE
