\* One page of a task while its rounds run and end.
CONSTANTS
    None = None
    Writers <- Coroutines
    PageQueueMax = 1
    MaxEvents = 3
    EventsPage = 2
    MaxAnswers = 1
    MaxFaults = 1
SPECIFICATION ChatSpec
INVARIANT CursorIsCovered
CHECK_DEADLOCK FALSE
