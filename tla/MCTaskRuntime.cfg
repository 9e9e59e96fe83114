\* One task whose process crashes once, under a new or the same instance id.
CONSTANTS
    u1 = u1 t1 = t1
    i1 = i1 i2 = i2
    Users = {u1}
    Tasks = {t1}
    Slots = {s1}
    Instances = {i1, i2}
    Owner <- OneTask
    NoTask = NoTask
    NoInstance = NoInstance
    MaxDaily = 1
    MaxActive = 1
    MaxRunning = 1
    UserStorage = 2
    PlatformStorage = 2
    MaxTaskBytes = 2
    AttemptLimit = 2
    Sizes = {1}
    MaxRounds = 1
    MaxCrashes = 1
    Disturbed = {t1}
    Switched = {t1}
    MaxCalls = 2
    LeaseTimely = FALSE
SYMMETRY MCSymmetry
SPECIFICATION RuntimeSpec
INVARIANT RuntimeTypeOK
PROPERTIES OnlyHolderWrites ImplementsStore
CHECK_DEADLOCK FALSE
