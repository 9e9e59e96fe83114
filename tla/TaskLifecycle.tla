----------------------------- MODULE TaskLifecycle -----------------------------
(***************************************************************************)
(* What the task runtime promises the owner of a task, without rounds,     *)
(* leases, reservations or slots: the phases of task_state.py, the intent  *)
(* of an accepted abort, complete or delete, and the set of tasks that may *)
(* be executing, bounded for the platform and for each user.  TaskStore    *)
(* implements it.                                                          *)
(***************************************************************************)
EXTENDS Naturals, FiniteSets

CONSTANTS Tasks, Users, Owner,
          Capacity,     \* platform slots
          MaxRunning    \* rounds of one user executing at a time

VARIABLES phase,        \* tasks.status
          intent,       \* tasks.pending_terminal
          executing     \* the tasks that hold a slot

vars == <<phase, intent, executing>>

Unstarted == {"uploading", "queued", "ready"}
Live      == Unstarted \cup {"running"}
Ended     == {"completed", "failed", "aborted"}

ExecutingOf(u) == {t \in executing : Owner[t] = u}

Init == /\ phase = [t \in Tasks |-> "absent"]
        /\ intent = [t \in Tasks |-> "none"]
        /\ executing = {}

Move(t, p) == phase' = [phase EXCEPT ![t] = p]

Create(t)  == phase[t] = "absent" /\ Move(t, "uploading") /\ UNCHANGED <<intent, executing>>

\* The input is frozen, or the next message is sent.
Enqueue(t) == /\ phase[t] \in {"uploading", "ready"}
              /\ Move(t, "queued")
              /\ UNCHANGED <<intent, executing>>

Start(t) == /\ phase[t] = "queued"
            /\ Cardinality(executing) < Capacity
            /\ Cardinality(ExecutingOf(Owner[t])) < MaxRunning
            /\ Move(t, "running")
            /\ executing' = executing \cup {t}
            /\ UNCHANGED intent

\* The round of t ends of itself: settled, revoked, requeued or failed.  Possible
\* only while nobody asked for the end of t.
Conclude(t, p) == /\ t \in executing
                  /\ intent[t] = "none"
                  /\ p \in {"ready", "aborted", "queued", "failed"}
                  /\ Move(t, p)
                  /\ executing' = executing \ {t}
                  /\ UNCHANGED intent

\* The end of a running task is asked for: its round is given time to stop, then
\* the slot is freed, then the intent becomes the phase.
AskEnd(t, k) == /\ t \in executing
                /\ intent' = [intent EXCEPT ![t] = k]
                /\ UNCHANGED <<phase, executing>>

StopRound(t) == /\ t \in executing
                /\ intent[t] # "none"
                /\ executing' = executing \ {t}
                /\ UNCHANGED <<phase, intent>>

HonourIntent(t) == /\ phase[t] = "running"
                   /\ t \notin executing
                   /\ intent[t] # "none"
                   /\ Move(t, intent[t])
                   /\ intent' = [intent EXCEPT ![t] = "none"]
                   /\ UNCHANGED executing

\* An unstarted task is ended at once, by its owner or by the system.
End(t, p) == /\ phase[t] \in Unstarted
             /\ p \in Ended
             /\ Move(t, p)
             /\ UNCHANGED <<intent, executing>>

\* A kill switch or a suspension ends a queued or running task whatever its intent.
Kill(t) == /\ phase[t] \in {"queued", "running"}
           /\ Move(t, "aborted")
           /\ intent' = [intent EXCEPT ![t] = "none"]
           /\ executing' = executing \ {t}

Delete(t) == /\ phase[t] \in Live \cup Ended
             /\ Move(t, "deleted")
             /\ intent' = [intent EXCEPT ![t] =
                              IF phase[t] = "running" THEN "deleted" ELSE @]
             /\ executing' = executing \ {t}

\* A provider key is revoked: every unstarted task of the user fails together.
FailUnstarted(u) ==
    /\ phase' = [t \in Tasks |-> IF Owner[t] = u /\ phase[t] \in Unstarted
                                 THEN "failed" ELSE phase[t]]
    /\ UNCHANGED <<intent, executing>>

\* The account is removed with all its tasks.
Remove(u) ==
    LET T == {t \in Tasks : Owner[t] = u /\ phase[t] \notin {"absent", "gone"}}
    IN /\ phase' = [t \in Tasks |-> IF t \in T THEN "gone" ELSE phase[t]]
       /\ intent' = [t \in Tasks |-> IF t \in T THEN "none" ELSE intent[t]]
       /\ executing' = executing \ T

Next ==
    \/ \E t \in Tasks :
          \/ Create(t) \/ Enqueue(t) \/ Start(t)
          \/ \E p \in {"ready", "aborted", "queued", "failed"} : Conclude(t, p)
          \/ \E k \in {"completed", "aborted"} : AskEnd(t, k)
          \/ StopRound(t) \/ HonourIntent(t)
          \/ \E p \in Ended : End(t, p)
          \/ Kill(t) \/ Delete(t)
    \/ \E u \in Users : FailUnstarted(u) \/ Remove(u)

Spec == Init /\ [][Next]_vars

================================================================================
