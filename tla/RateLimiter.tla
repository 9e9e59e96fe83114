------------------------------ MODULE RateLimiter ------------------------------
(***************************************************************************)
(* rate_limit.py for one scope.  enforce is one transaction: it takes an   *)
(* advisory lock whose key is the whole set of subjects, counts the events *)
(* of the window subject by subject, and either refuses or inserts one     *)
(* event per subject, sweeps the expired rows of the scope and commits.    *)
(* PostgreSQL's now() is the time at which the transaction began, so that  *)
(* a request that waits for the lock counts and is recorded with the time  *)
(* of its arrival.                                                         *)
(***************************************************************************)
EXTENDS Naturals, FiniteSets

CONSTANTS
    Requests,         \* calls of enforce
    Subjects,         \* hashed emails, addresses, users and tasks
    SubjectsOf,       \* the subjects a request is charged to
    Limit, Window,    \* LIMITS[scope]
    MaxWait,          \* bound: how long a request waits for its lock
    MaxTime           \* bound: the clock

ASSUME LimiterAssumption ==
    /\ IsFiniteSet(Requests)
    /\ SubjectsOf \in [Requests -> (SUBSET Subjects) \ {{}}]
    /\ Limit \in Nat \ {0} /\ Window \in Nat \ {0} /\ MaxTime \in Nat
    /\ MaxWait \in 0 .. Window - 1

VARIABLES
    now,              \* the clock
    stage,            \* how far a request has come
    began,            \* now() of its transaction
    decidedAt,        \* when it was committed or refused
    rows              \* the requests whose rate_limit_events rows are committed

vars == <<now, stage, began, decidedAt, rows>>

\* "counted" is the window between the count and the commit, the lock held.
Open    == {"waiting", "counted"}
Decided == {"admitted", "refused", "failed"}

\* Mutant of LockFree: the advisory lock is not taken.
BugNoLock(r) == stage[r] = "waiting"

\* pg_advisory_xact_lock on the scope and the subjects of r, held until the commit.
LockFree(r) == \A q \in Requests : stage[q] = "counted" => SubjectsOf[q] # SubjectsOf[r]

\* The events of subject s a transaction that began at time n counts.
Counted(s, n) == {q \in rows : s \in SubjectsOf[q] /\ began[q] + Window > n}

AtLimit(r) == \E s \in SubjectsOf[r] : Cardinality(Counted(s, began[r])) >= Limit

Begin(r) ==
    /\ stage[r] = "new"
    /\ stage' = [stage EXCEPT ![r] = "waiting"]
    /\ began' = [began EXCEPT ![r] = now]
    /\ UNCHANGED <<now, decidedAt, rows>>

\* Lock and count: below the limit the lock is kept.
Pass(r) ==
    /\ stage[r] = "waiting" /\ LockFree(r)
    /\ ~ AtLimit(r)
    /\ stage' = [stage EXCEPT ![r] = "counted"]
    /\ UNCHANGED <<now, began, decidedAt, rows>>

\* Lock and count: a subject at its limit refuses the request, and the rollback
\* leaves nothing behind.
Refuse(r) ==
    /\ stage[r] = "waiting" /\ LockFree(r)
    /\ AtLimit(r)
    /\ stage' = [stage EXCEPT ![r] = "refused"]
    /\ decidedAt' = [decidedAt EXCEPT ![r] = now]
    /\ UNCHANGED <<now, began, rows>>

\* _CLEANUP_SQL: the rows of the scope outside the window of r, whatever their subject.
Swept(r) == {q \in rows : began[q] + Window <= began[r]}

\* The insert, the sweep and the commit.
Admit(r) ==
    /\ stage[r] = "counted"
    /\ stage' = [stage EXCEPT ![r] = "admitted"]
    /\ decidedAt' = [decidedAt EXCEPT ![r] = now]
    /\ rows' = (rows \ Swept(r)) \cup {r}
    /\ UNCHANGED <<now, began>>

\* The connection or the process is lost before the commit: nothing is recorded.
Fail(r) ==
    /\ stage[r] \in Open
    /\ stage' = [stage EXCEPT ![r] = "failed"]
    /\ decidedAt' = [decidedAt EXCEPT ![r] = now]
    /\ UNCHANGED <<now, began, rows>>

Tick ==
    /\ now < MaxTime
    /\ \A r \in Requests : stage[r] \in Open => now < began[r] + MaxWait
    /\ now' = now + 1
    /\ UNCHANGED <<stage, began, decidedAt, rows>>

Init ==
    /\ now = 0
    /\ stage = [r \in Requests |-> "new"]
    /\ began = [r \in Requests |-> 0]
    /\ decidedAt = [r \in Requests |-> 0]
    /\ rows = {}

Next ==
    \/ Tick
    \/ \E r \in Requests : Begin(r) \/ Pass(r) \/ Refuse(r) \/ Admit(r) \/ Fail(r)

Spec == Init /\ [][Next]_vars

--------------------------------------------------------------------------------
(* Properties *)

\* Type invariant; only admitted requests are recorded ("a refusal writes no event").
TypeOK ==
    /\ now \in 0 .. MaxTime
    /\ stage \in [Requests -> {"new"} \cup Open \cup Decided]
    /\ began \in [Requests -> 0 .. MaxTime]
    /\ decidedAt \in [Requests -> 0 .. MaxTime]
    /\ rows \subseteq {r \in Requests : stage[r] = "admitted"}

\* The requests of s admitted in the n units of time that end at t.
AdmittedIn(s, t, n) ==
    {r \in Requests : /\ stage[r] = "admitted" /\ s \in SubjectsOf[r]
                      /\ decidedAt[r] <= t /\ decidedAt[r] + n > t}

Keys(s) == {SubjectsOf[r] : r \in {q \in Requests : s \in SubjectsOf[q]}}

\* What lock, count and sweep do guarantee: the count is only exact for one lock key,
\* and each further key that shares the subject can slip one request past the limit.
\* The wait for the lock shortens the window, since an event is dated back to the
\* arrival of its request; no sweep by a younger request makes it any shorter.
OverrunBounded ==
    \A s \in Subjects, t \in 0 .. MaxTime :
       Keys(s) # {} => Cardinality(AdmittedIn(s, t, Window - MaxWait))
                          <= Limit - 1 + Cardinality(Keys(s))

--------------------------------------------------------------------------------
(* Documented, and not kept by the code *)

\* rate_limit.py: as soon as one subject reaches its limit within the window, the
\* request is refused; concurrent requests of a subject queue on the lock.
WithinLimit ==
    \A s \in Subjects, t \in 0 .. MaxTime :
       Cardinality(AdmittedIn(s, t, Window - MaxWait)) <= Limit

================================================================================
