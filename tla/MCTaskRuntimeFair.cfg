\* One task and an agent that may hang, with a crash, requests and a kill switch.
CONSTANTS
    u1 = u1 t1 = t1
    i1 = i1 i2 = i2
    Users = {u1}
    Tasks = {t1}
    Slots = {s1}
    Instances = {i1}
    Owner <- OneTask
    NoTask = NoTask
    NoInstance = NoInstance
    MaxDaily = 1
    MaxActive = 1
    MaxRunning = 1
    UserStorage = 1
    PlatformStorage = 1
    MaxTaskBytes = 1
    AttemptLimit = 2
    Sizes = {0}
    MaxRounds = 1
    MaxCrashes = 1
    Disturbed = {t1}
    Switched = {t1}
    MaxCalls = 0
    LeaseTimely = TRUE
SPECIFICATION FairSpec
PROPERTIES RunningRoundEnds QueuedTaskEndsIfAgentsDo IntentEndsIfAgentsDo
CHECK_DEADLOCK FALSE
