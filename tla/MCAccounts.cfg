\* Two handlers, two sessions, one challenge, two links.
CONSTANTS
    c1 = c1
    MaxSessions = 2
    MaxRequests = 2
    MaxLinks = 2
    Challenges = {c1}
    None = None
    MaxAttempts = 2
SPECIFICATION FairSpec
INVARIANT ErasedHasNoTasks
PROPERTIES ImplementsLifecycle DeletionEndsButForLateTasks
CHECK_DEADLOCK FALSE
