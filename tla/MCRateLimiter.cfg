\* Two users behind one address: two lock keys share a subject.
CONSTANTS
    r1 = r1 r2 = r2 r3 = r3 r4 = r4
    e1 = e1 e2 = e2 i1 = i1 i2 = i2
    Requests = {r1, r2, r3, r4}
    Subjects = {e1, e2, i1, i2}
    SubjectsOf <- OneAddress
    Limit = 2
    Window = 3
    MaxWait = 1
    MaxTime = 5
SPECIFICATION Spec
SYMMETRY PairAlike
INVARIANT OverrunBounded
CHECK_DEADLOCK FALSE
