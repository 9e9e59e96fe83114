\* One stream of a task while its rounds run and end.
CONSTANTS
    Writers <- Coroutines
    QueueMax = 2
    MaxEvents = 4
SPECIFICATION Spec
INVARIANTS NoGap NoPhantom
CHECK_DEADLOCK FALSE
