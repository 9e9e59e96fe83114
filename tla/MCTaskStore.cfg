\* Two tasks of one user contend for the quota; two attempts and two rounds each.
CONSTANTS
    u1 = u1 t1 = t1 t2 = t2
    Users = {u1}
    Tasks = {t1, t2}
    Slots = {s1, s2}
    Instances = {i1}
    Owner <- OneUser
    NoTask = NoTask
    NoInstance = NoInstance
    MaxDaily = 2
    MaxActive = 2
    MaxRunning = 1
    UserStorage = 2
    PlatformStorage = 2
    MaxTaskBytes = 2
    AttemptLimit = 2
    Sizes = {1}
    MaxRounds = 2
SYMMETRY SlotSymmetry
SPECIFICATION Spec
INVARIANTS TypeOK RoundMatchesTask LeaseMatchesRound HoldingsMatchTask CountersMatchHoldings StorageCoversHeld
PROPERTIES TerminalIsFinal IntentIsHonoured EpochFences ImplementsLifecycle
CHECK_DEADLOCK FALSE
