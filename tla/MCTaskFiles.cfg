\* Three requests on one task with two names and one key.
CONSTANTS
    c1 = c1 c2 = c2 c3 = c3 a = a b = b k = k
    Calls = {c1, c2, c3}
    Names = {a, b}
    Keys = {k}
    Past = Past
    None = None
    MaxFailures = 1
SPECIFICATION FairSpec
INVARIANTS RowsHaveFiles FilesHaveRows NamesAreUnique OneEffectPerKey
PROPERTIES DeletedIsCleared
CHECK_DEADLOCK FALSE
