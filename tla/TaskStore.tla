------------------------------- MODULE TaskStore -------------------------------
(***************************************************************************)
(* The durable half of the AgentCraft V2 task runtime: the rows of tasks,  *)
(* task_rounds, task_reservations, platform_slots, user_quota_usage,       *)
(* usage_daily and platform_storage, and every transaction that writes     *)
(* them.  One action is one owner_session transaction: it takes the task   *)
(* row lock or arbitrates by a conditional UPDATE, so it is atomic; a      *)
(* raise rolls it back, which is no step at all.                           *)
(*                                                                         *)
(* The actors that run outside the database (the executor, the reclaim     *)
(* job, the kill switches) are left as free as they can be here: any lease *)
(* token ever issued may be presented at any time.  TaskRuntime restricts  *)
(* them to what the process really does and refines this specification.    *)
(***************************************************************************)
EXTENDS Integers, FiniteSets, FiniteSetsExt

CONSTANTS
    Users, Tasks, Slots, Instances,
    Owner,            \* Owner[t] is the user a task belongs to
    NoTask,           \* what a free slot holds
    NoInstance,       \* lease_owner IS NULL
    MaxDaily, MaxActive, MaxRunning,       \* user_quotas
    UserStorage, PlatformStorage,          \* retained-bytes caps
    MaxTaskBytes,     \* input + output cap of one task (_MAX_TOTAL_BYTES)
    AttemptLimit,     \* _ATTEMPT_LIMIT
    Sizes,            \* the byte counts a commit or an output may have
    MaxRounds         \* bound: rounds (user messages) per task

ASSUME StoreAssumption ==
    /\ IsFiniteSet(Users) /\ IsFiniteSet(Tasks) /\ IsFiniteSet(Slots)
    /\ Owner \in [Tasks -> Users]
    /\ NoTask \notin Tasks
    /\ NoInstance \notin Instances
    /\ MaxDaily \in Nat /\ MaxActive \in Nat /\ MaxRunning \in Nat
    /\ UserStorage \in Nat /\ PlatformStorage \in Nat /\ MaxTaskBytes \in Nat
    /\ AttemptLimit \in Nat \ {0}
    /\ Sizes \subseteq Nat
    /\ MaxRounds \in Nat \ {0}

VARIABLES
    status,           \* tasks.status; "absent" before INSERT, "gone" after DELETE
    pendingTerminal,  \* tasks.pending_terminal
    round,            \* the newest task_rounds row of each task
    held,             \* the active / running reservations in state 'held'
    slot,             \* platform_slots.task_id
    activeTasks,      \* user_quota_usage.active_tasks
    runningTasks,     \* user_quota_usage.running_tasks
    startedToday,     \* usage_daily.tasks_started of the current day
    rootBytes,        \* bytes of the held task_root reservation
    copyBytes,        \* bytes of the held artifact_copy reservations
    storage,          \* user_quota_usage.retained_storage_bytes
    platformStorage   \* platform_storage.retained_storage_bytes

taskVars  == <<status, pendingTerminal, round>>
holdVars  == <<held, slot, activeTasks, runningTasks>>
byteVars  == <<rootBytes, copyBytes, storage, platformStorage>>
storeVars == <<taskVars, holdVars, startedToday, byteVars>>

--------------------------------------------------------------------------------
(* Vocabulary *)

LiveStatus     == {"uploading", "queued", "running", "ready"}
EndedStatus    == {"completed", "failed", "aborted"}
TerminalStatus == EndedStatus \cup {"deleted"}
TaskStatus     == LiveStatus \cup TerminalStatus
Intents        == {"completed", "aborted", "deleted"}

ActiveRound == {"pending", "running", "cancelling"}
ClosedRound == {"settled", "failed", "cancelled"}

Round == [no : Nat, state : ActiveRound \cup ClosedRound \cup {"none"},
          epoch : Nat, attempt : Nat,
          owner : Instances \cup {NoInstance}, lease : {"none", "live", "expired"}]

NoRound == [no |-> 0, state |-> "none", epoch |-> 0, attempt |-> 0,
            owner |-> NoInstance, lease |-> "none"]

\* INSERT of the next round of a task: pending, attempt 0, no lease.
FreshRound(n) == [no |-> n, state |-> "pending", epoch |-> 0, attempt |-> 0,
                  owner |-> NoInstance, lease |-> "none"]

\* Mutant of Unleased: the row starts afresh, and its epochs are issued again.
BugEpochReused(r, st) == [NoRound EXCEPT !.no = r.no, !.state = st]

\* The round row with the lease columns cleared, as every system path that
\* takes a round away from its executor leaves it; the epoch is kept.
Unleased(r, st) == [no |-> r.no, state |-> st, epoch |-> r.epoch, attempt |-> r.attempt,
                    owner |-> NoInstance, lease |-> "none"]

\* The round row claimed by instance i: the epoch and the attempt move together.
Claimed(r, i) == [no |-> r.no, state |-> "running", epoch |-> r.epoch + 1,
                  attempt |-> r.attempt + 1, owner |-> i, lease |-> "live"]

HasActiveRound(t) == round[t].state \in ActiveRound
TasksOf(u)        == {t \in Tasks : Owner[t] = u}
FreeSlots         == {s \in Slots : slot[s] = NoTask}

\* WHERE id = :rid AND lease_owner = :iid AND lease_epoch = :epoch AND state = 'running'
FenceHolds(t, n, i, e) ==
    /\ round[t].no = n
    /\ round[t].state = "running"
    /\ round[t].owner = i
    /\ round[t].epoch = e

--------------------------------------------------------------------------------
(* The release primitive of task_release.py *)

\* A decrement guarded by "WHERE column >= :n": refused rather than negative.
Lower(n, k) == IF n >= k THEN n - k ELSE n

\* held -> released for the given kinds of the tasks T of user u, the slot freed
\* and the counters lowered by the rows the UPDATE returned.
DropHolds(u, T, kinds) ==
    LET run == {t \in T : "running" \in held[t] \cap kinds}
        act == {t \in T : "active" \in held[t] \cap kinds}
    IN /\ held' = [t \in Tasks |-> IF t \in T THEN held[t] \ kinds ELSE held[t]]
       /\ slot' = [s \in Slots |-> IF slot[s] \in run THEN NoTask ELSE slot[s]]
       /\ runningTasks' = [runningTasks EXCEPT ![u] = Lower(@, Cardinality(run))]
       /\ activeTasks' = [activeTasks EXCEPT ![u] = Lower(@, Cardinality(act))]

BytesHeld(t) == rootBytes[t] + copyBytes[t]

\* Mutant of RefundBytes: refunded without releasing the row.
BugRefundRepeats(u, T) ==
    /\ storage' = [storage EXCEPT ![u] = Lower(@, MapThenSumSet(BytesHeld, T))]
    /\ platformStorage' = Lower(platformStorage, MapThenSumSet(BytesHeld, T))
    /\ UNCHANGED <<rootBytes, copyBytes>>

\* The storage reservations of T released and their bytes given back.
RefundBytes(u, T) ==
    LET n == MapThenSumSet(BytesHeld, T)
    IN /\ rootBytes' = [t \in Tasks |-> IF t \in T THEN 0 ELSE rootBytes[t]]
       /\ copyBytes' = [t \in Tasks |-> IF t \in T THEN 0 ELSE copyBytes[t]]
       /\ storage' = [storage EXCEPT ![u] = Lower(@, n)]
       /\ platformStorage' = Lower(platformStorage, n)

\* What release_task_holdings releases once the task has reached status st.
ReleasedKinds(st) ==
    IF st \in TerminalStatus THEN {"running", "active"} ELSE {"running"}

ReleaseHoldings(t, st) ==
    /\ DropHolds(Owner[t], {t}, ReleasedKinds(st))
    /\ IF st = "deleted" THEN RefundBytes(Owner[t], {t}) ELSE UNCHANGED byteVars

--------------------------------------------------------------------------------
(* Owner requests: task_service.py *)

\* _charge_creation_quota upserts the row of the current day, so the first creation
\* of a day starts the count again.
ChargeDaily(u) ==
    \/ /\ startedToday[u] < MaxDaily
       /\ startedToday' = [startedToday EXCEPT ![u] = @ + 1]
    \/ /\ MaxDaily > 0
       /\ startedToday' = [startedToday EXCEPT ![u] = 1]

CreateTask(t) ==
    LET u == Owner[t]
    IN /\ status[t] = "absent"
       /\ ChargeDaily(u)
       /\ activeTasks[u] < MaxActive
       /\ activeTasks' = [activeTasks EXCEPT ![u] = @ + 1]
       /\ status' = [status EXCEPT ![t] = "uploading"]
       /\ held' = [held EXCEPT ![t] = {"active"}]
       /\ UNCHANGED <<pendingTerminal, round, slot, runningTasks, byteVars>>

\* _charge_storage: both conditional increments succeed or the transaction fails.
Charge(u, n) ==
    /\ storage[u] + n <= UserStorage
    /\ platformStorage + n <= PlatformStorage
    /\ storage' = [storage EXCEPT ![u] = @ + n]
    /\ platformStorage' = platformStorage + n

CommitInput(t, n) ==
    /\ status[t] = "uploading"
    /\ n <= MaxTaskBytes
    /\ Charge(Owner[t], n)
    /\ rootBytes' = [rootBytes EXCEPT ![t] = n]
    /\ round' = [round EXCEPT ![t] = FreshRound(1)]
    /\ status' = [status EXCEPT ![t] = "queued"]
    /\ UNCHANGED <<pendingTerminal, holdVars, startedToday, copyBytes>>

\* abort / complete of a running task: the round is asked to stop and the
\* intent is recorded; the status moves when the round has been closed.
RequestTerminalWhileRunning(t, terminal) ==
    /\ status[t] = "running"
    /\ HasActiveRound(t)
    /\ round' = [round EXCEPT ![t].state = "cancelling"]
    /\ pendingTerminal' = [pendingTerminal EXCEPT ![t] = terminal]
    /\ UNCHANGED <<status, holdVars, startedToday, byteVars>>

\* Mutant of TerminalizeQueued: the pending round is left for dispatch to find.
BugRoundLeftPending(t, terminal) ==
    /\ status[t] = "queued"
    /\ status' = [status EXCEPT ![t] = terminal]
    /\ ReleaseHoldings(t, terminal)
    /\ UNCHANGED <<pendingTerminal, round, startedToday>>

TerminalizeQueued(t, terminal) ==
    /\ status[t] = "queued"
    /\ round' = [round EXCEPT ![t].state =
                    IF @ = "pending" THEN "cancelled" ELSE @]
    /\ status' = [status EXCEPT ![t] = terminal]
    /\ ReleaseHoldings(t, terminal)
    /\ UNCHANGED <<pendingTerminal, startedToday>>

FinalizeTerminal(t, terminal) ==
    /\ status[t] = "ready"
    /\ status' = [status EXCEPT ![t] = terminal]
    /\ ReleaseHoldings(t, terminal)
    /\ UNCHANGED <<pendingTerminal, round, startedToday>>

EndTask(t, terminal) ==
    \/ RequestTerminalWhileRunning(t, terminal)
    \/ TerminalizeQueued(t, terminal)
    \/ FinalizeTerminal(t, terminal)

AbortTask(t)    == EndTask(t, "aborted")
CompleteTask(t) == EndTask(t, "completed")

\* delete_task: a running round is only asked to stop, yet the task is deleted
\* and everything it holds, the slot included, is released at once.
DeleteTask(t) ==
    /\ status[t] \in LiveStatus \cup EndedStatus
    /\ round' = [round EXCEPT ![t].state =
                    CASE status[t] = "running" /\ @ \in ActiveRound -> "cancelling"
                      [] status[t] = "queued" /\ @ = "pending" -> "cancelled"
                      [] OTHER -> @]
    /\ pendingTerminal' = [pendingTerminal EXCEPT ![t] =
                              IF status[t] = "running" THEN "deleted" ELSE @]
    /\ status' = [status EXCEPT ![t] = "deleted"]
    /\ ReleaseHoldings(t, "deleted")
    /\ UNCHANGED startedToday

SendMessage(t) ==
    /\ status[t] = "ready"
    /\ ~ HasActiveRound(t)
    /\ round[t].no < MaxRounds
    /\ round' = [round EXCEPT ![t] = FreshRound(@.no + 1)]
    /\ status' = [status EXCEPT ![t] = "queued"]
    /\ UNCHANGED <<pendingTerminal, holdVars, startedToday, byteVars>>

--------------------------------------------------------------------------------
(* The dispatcher's jobs: task_dispatcher.py *)

\* Mutant of ClaimRound: the user's running quota is not checked.
BugClaimOverQuota(t, i) ==
    /\ round[t].state = "pending" /\ status[t] = "queued"
    /\ round' = [round EXCEPT ![t] = Claimed(@, i)]
    /\ status' = [status EXCEPT ![t] = "running"]
    /\ held' = [held EXCEPT ![t] = @ \cup {"running"}]
    /\ runningTasks' = [runningTasks EXCEPT ![Owner[t]] = @ + 1]
    /\ \E s \in FreeSlots : slot' = [slot EXCEPT ![s] = t]
    /\ UNCHANGED <<pendingTerminal, activeTasks, startedToday, byteVars>>

\* _claim_round: round, task, running reservation, running quota and slot move
\* together or not at all (_CandidateDropped).
ClaimRound(t, i) ==
    LET u == Owner[t]
    IN /\ round[t].state = "pending"
       /\ status[t] = "queued"
       /\ "running" \notin held[t]          \* one_live_running_reservation
       /\ runningTasks[u] < MaxRunning
       /\ round' = [round EXCEPT ![t] = Claimed(@, i)]
       /\ status' = [status EXCEPT ![t] = "running"]
       /\ held' = [held EXCEPT ![t] = @ \cup {"running"}]
       /\ runningTasks' = [runningTasks EXCEPT ![u] = @ + 1]
       /\ \E s \in FreeSlots : slot' = [slot EXCEPT ![s] = t]
       /\ UNCHANGED <<pendingTerminal, activeTasks, startedToday, byteVars>>

\* now() passes lease_expires_at.  Only a running round's lease is ever read.
LeaseExpires(t) ==
    /\ round[t].state = "running"
    /\ round[t].lease = "live"
    /\ round' = [round EXCEPT ![t].lease = "expired"]
    /\ UNCHANGED <<status, pendingTerminal, holdVars, startedToday, byteVars>>

\* Mutant of ReclaimExpiredRound: one attempt too many.
BugOneMoreAttempt(t, n, i, e) ==
    /\ FenceHolds(t, n, i, e)
    /\ LET st == IF round[t].attempt > AttemptLimit THEN "failed" ELSE "queued"
       IN /\ round' = [round EXCEPT ![t] =
                          Unleased(@, IF st = "failed" THEN "failed" ELSE "pending")]
          /\ status' = [status EXCEPT ![t] = st]
          /\ ReleaseHoldings(t, st)
    /\ UNCHANGED <<pendingTerminal, startedToday>>

\* _reclaim_expired_round for the candidate (n, i, e) of an earlier snapshot: the
\* fence is re-checked, the expiry is not.
ReclaimExpiredRound(t, n, i, e) ==
    /\ FenceHolds(t, n, i, e)
    /\ status[t] = "running"
    /\ LET exhausted == round[t].attempt >= AttemptLimit
           st == IF exhausted THEN "failed" ELSE "queued"
       IN /\ round' = [round EXCEPT ![t] =
                          Unleased(@, IF exhausted THEN "failed" ELSE "pending")]
          /\ status' = [status EXCEPT ![t] = st]
          /\ ReleaseHoldings(t, st)
    /\ UNCHANGED <<pendingTerminal, startedToday>>

\* Mutant of CancelCancellingRound: the round is closed, its slot is not released.
BugSlotKept(t, n) ==
    /\ round[t].no = n
    /\ round[t].state = "cancelling"
    /\ round' = [round EXCEPT ![t] = Unleased(@, "cancelled")]
    /\ UNCHANGED <<status, pendingTerminal, holdVars, startedToday, byteVars>>

\* _cancel_cancelling_round: closes the round only; the task keeps its intent.
CancelCancellingRound(t, n) ==
    /\ round[t].no = n
    /\ round[t].state = "cancelling"
    /\ round' = [round EXCEPT ![t] = Unleased(@, "cancelled")]
    /\ ReleaseHoldings(t, status[t])
    /\ UNCHANGED <<status, pendingTerminal, startedToday>>

SweepUploadTtl(t) ==
    /\ status[t] = "uploading"
    /\ status' = [status EXCEPT ![t] = "failed"]
    /\ ReleaseHoldings(t, "failed")
    /\ UNCHANGED <<pendingTerminal, round, startedToday>>

\* sweep_terminal_cleanup: rounds, messages and events are deleted and whatever
\* is still held is released and refunded; the task row stays.
SweepTerminalCleanup(t) ==
    /\ status[t] \in TerminalStatus
    /\ round' = [round EXCEPT ![t] = NoRound]
    /\ DropHolds(Owner[t], {t}, {"running", "active"})
    /\ RefundBytes(Owner[t], {t})
    /\ UNCHANGED <<status, pendingTerminal, startedToday>>

--------------------------------------------------------------------------------
(* The executor's transactions: task_executor.py, task_artifacts.py *)

RenewLease(t, n, i, e) ==
    /\ FenceHolds(t, n, i, e)
    /\ round' = [round EXCEPT ![t].lease = "live"]
    /\ UNCHANGED <<status, pendingTerminal, holdVars, startedToday, byteVars>>

\* settle; revoked is the outcome of _provider_revoked.
Settle(t, n, i, e, revoked) ==
    /\ FenceHolds(t, n, i, e)
    /\ LET st == CASE status[t] # "running" -> status[t]
                   [] revoked -> "aborted"
                   [] OTHER -> "ready"
       IN /\ status' = [status EXCEPT ![t] = st]
          /\ ReleaseHoldings(t, st)
    /\ round' = [round EXCEPT ![t].state = "settled"]
    /\ UNCHANGED <<pendingTerminal, startedToday>>

\* _enforce_round_deadline, the write after the bounded stop.
FailOnDeadline(t, n, i, e) ==
    /\ FenceHolds(t, n, i, e)
    /\ round' = [round EXCEPT ![t] = Unleased(@, "failed")]
    /\ IF status[t] = "running"
       THEN /\ status' = [status EXCEPT ![t] = "failed"]
            /\ pendingTerminal' = [pendingTerminal EXCEPT ![t] = "none"]
            /\ ReleaseHoldings(t, "failed")
       ELSE UNCHANGED <<status, pendingTerminal, holdVars, byteVars>>
    /\ UNCHANGED startedToday

\* Mutant of RegisterOutput: the epoch of the caller's token is not compared.
BugOutputUnfenced(t, n, e, b, old) ==
    LET u == Owner[t]
    IN /\ round[t].no = n
       /\ rootBytes[t] + copyBytes[t] - old + b <= MaxTaskBytes
       /\ storage' = [storage EXCEPT ![u] = Lower(@, old) + b]
       /\ platformStorage' = Lower(platformStorage, old) + b
       /\ copyBytes' = [copyBytes EXCEPT ![t] = @ - old + b]
       /\ UNCHANGED <<taskVars, holdVars, startedToday, rootBytes>>

\* register_output: a callback of the container holding token (n, e) writes an
\* output of b bytes; old is what an output of the same name held before.
RegisterOutput(t, n, e, b, old) ==
    LET u == Owner[t]
    IN /\ status[t] \in TaskStatus \ {"deleted"}
       /\ round[t].no = n /\ round[t].epoch = e /\ round[t].state = "running"
       /\ rootBytes[t] + copyBytes[t] - old + b <= MaxTaskBytes
       /\ LET used == Lower(storage[u], old)
              platformUsed == Lower(platformStorage, old)
          IN /\ used + b <= UserStorage
             /\ platformUsed + b <= PlatformStorage
             /\ storage' = [storage EXCEPT ![u] = used + b]
             /\ platformStorage' = platformUsed + b
       /\ copyBytes' = [copyBytes EXCEPT ![t] = @ - old + b]
       /\ UNCHANGED <<taskVars, holdVars, startedToday, rootBytes>>

\* Mutant of ReconcilePendingTerminal: the end is recorded as a failure.
BugIntentLost(t) ==
    /\ status[t] = "running"
    /\ pendingTerminal[t] # "none"
    /\ ~ HasActiveRound(t)
    /\ status' = [status EXCEPT ![t] = "failed"]
    /\ pendingTerminal' = [pendingTerminal EXCEPT ![t] = "none"]
    /\ ReleaseHoldings(t, "failed")
    /\ UNCHANGED <<round, startedToday>>

\* reconcile_pending_terminal: an intent whose round is closed becomes the status.
ReconcilePendingTerminal(t) ==
    /\ status[t] = "running"
    /\ pendingTerminal[t] # "none"
    /\ ~ HasActiveRound(t)
    /\ status' = [status EXCEPT ![t] = pendingTerminal[t]]
    /\ pendingTerminal' = [pendingTerminal EXCEPT ![t] = "none"]
    /\ ReleaseHoldings(t, pendingTerminal[t])
    /\ UNCHANGED <<round, startedToday>>

\* Mutant of TerminateTask: the status is not read again inside the transaction.
BugStaleTerminate(t) ==
    /\ status[t] \in TaskStatus
    /\ round' = [round EXCEPT ![t] =
                    IF @.state \in ActiveRound THEN Unleased(@, "cancelled") ELSE @]
    /\ status' = [status EXCEPT ![t] = "aborted"]
    /\ pendingTerminal' = [pendingTerminal EXCEPT ![t] = "none"]
    /\ ReleaseHoldings(t, "aborted")
    /\ UNCHANGED startedToday

\* _terminate_one (tool or MCP kill switch) and _suspend_one_task (suspension).
TerminateTask(t) ==
    /\ status[t] \in {"queued", "running"}
    /\ round' = [round EXCEPT ![t] =
                    IF @.state \in ActiveRound THEN Unleased(@, "cancelled") ELSE @]
    /\ status' = [status EXCEPT ![t] = "aborted"]
    /\ pendingTerminal' = [pendingTerminal EXCEPT ![t] = "none"]
    /\ ReleaseHoldings(t, "aborted")
    /\ UNCHANGED startedToday

--------------------------------------------------------------------------------
(* Transactions over all the tasks of a user *)

\* terminate_tasks_hook, at the end of an account's deletion grace period.
TerminateUserTasks(u) ==
    LET T == {t \in TasksOf(u) : status[t] \in TaskStatus}
    IN /\ T # {}
       /\ status' = [t \in Tasks |-> IF t \in T THEN "gone" ELSE status[t]]
       /\ pendingTerminal' = [t \in Tasks |-> IF t \in T THEN "none" ELSE pendingTerminal[t]]
       /\ round' = [t \in Tasks |-> IF t \in T THEN NoRound ELSE round[t]]
       /\ DropHolds(u, T, {"running", "active"})
       /\ RefundBytes(u, T)
       /\ UNCHANGED startedToday

\* Mutants of FailUnstartedTasks: every released row counts against active_tasks, or
\* none does.
BugFailUnstarted(u, Lost(_)) ==
    LET T == {t \in TasksOf(u) : status[t] \in {"uploading", "queued", "ready"}}
    IN /\ T # {}
       /\ status' = [t \in Tasks |-> IF t \in T THEN "failed" ELSE status[t]]
       /\ round' = [t \in Tasks |-> IF t \in T /\ round[t].state = "pending"
                                    THEN Unleased(round[t], "cancelled") ELSE round[t]]
       /\ held' = [t \in Tasks |-> IF t \in T THEN {} ELSE held[t]]
       /\ activeTasks' = [activeTasks EXCEPT ![u] = @ - MapThenSumSet(Lost, T)]
       /\ rootBytes' = [t \in Tasks |-> IF t \in T THEN 0 ELSE rootBytes[t]]
       /\ copyBytes' = [t \in Tasks |-> IF t \in T THEN 0 ELSE copyBytes[t]]
       /\ UNCHANGED <<pendingTerminal, slot, runningTasks, startedToday,
                      storage, platformStorage>>

BugCountsEveryRow(u) ==
    BugFailUnstarted(u, LAMBDA t : IF rootBytes[t] > 0 THEN 2 ELSE 1)
BugQuotaKept(u) == BugFailUnstarted(u, LAMBDA t : 0)

\* fail_unstarted_tasks, in the transaction that revokes or rotates a provider key
\* (a user's tasks use one provider here).  Its own _release_task_holdings releases
\* every held reservation but lowers active_tasks only.
FailUnstartedTasks(u) ==
    LET T == {t \in TasksOf(u) : status[t] \in {"uploading", "queued", "ready"}}
    IN /\ T # {}
       /\ status' = [t \in Tasks |-> IF t \in T THEN "failed" ELSE status[t]]
       /\ round' = [t \in Tasks |-> IF t \in T /\ round[t].state = "pending"
                                    THEN [round[t] EXCEPT !.state = "cancelled"]
                                    ELSE round[t]]
       /\ held' = [t \in Tasks |-> IF t \in T THEN {} ELSE held[t]]
       /\ activeTasks' = [activeTasks EXCEPT ![u] =
                             @ - Cardinality({t \in T : "active" \in held[t]})]
       /\ rootBytes' = [t \in Tasks |-> IF t \in T THEN 0 ELSE rootBytes[t]]
       /\ copyBytes' = [t \in Tasks |-> IF t \in T THEN 0 ELSE copyBytes[t]]
       /\ UNCHANGED <<pendingTerminal, slot, runningTasks, startedToday,
                      storage, platformStorage>>

--------------------------------------------------------------------------------
Init ==
    /\ status = [t \in Tasks |-> "absent"]
    /\ pendingTerminal = [t \in Tasks |-> "none"]
    /\ round = [t \in Tasks |-> NoRound]
    /\ held = [t \in Tasks |-> {}]
    /\ slot = [s \in Slots |-> NoTask]
    /\ activeTasks = [u \in Users |-> 0]
    /\ runningTasks = [u \in Users |-> 0]
    /\ startedToday = [u \in Users |-> 0]
    /\ rootBytes = [t \in Tasks |-> 0]
    /\ copyBytes = [t \in Tasks |-> 0]
    /\ storage = [u \in Users |-> 0]
    /\ platformStorage = 0

\* The requests an owner makes about one of its tasks.
OwnerStep(t) ==
    \/ CreateTask(t)
    \/ \E n \in Sizes : CommitInput(t, n)
    \/ AbortTask(t)
    \/ CompleteTask(t)
    \/ DeleteTask(t)
    \/ SendMessage(t)

\* The background jobs on one task.
JobStep(t) ==
    \/ \E i \in Instances : ClaimRound(t, i)
    \/ LeaseExpires(t)
    \/ CancelCancellingRound(t, round[t].no)
    \/ SweepUploadTtl(t)
    \/ SweepTerminalCleanup(t)
    \/ ReconcilePendingTerminal(t)
    \/ TerminateTask(t)

\* Whoever presents the lease token (n, i, e) of a round of t.
LeaseStep(t, n, i, e) ==
    \/ ReclaimExpiredRound(t, n, i, e)
    \/ RenewLease(t, n, i, e)
    \/ \E revoked \in BOOLEAN : Settle(t, n, i, e, revoked)
    \/ FailOnDeadline(t, n, i, e)
    \/ \E b \in Sizes, old \in {0, copyBytes[t]} : RegisterOutput(t, n, e, b, old)

UserStep(u) == TerminateUserTasks(u) \/ FailUnstartedTasks(u)

Next ==
    \/ \E t \in Tasks : OwnerStep(t) \/ JobStep(t)
    \/ \E t \in Tasks, i \in Instances, n \in 1 .. MaxRounds, e \in 1 .. AttemptLimit :
          LeaseStep(t, n, i, e)
    \/ \E u \in Users : UserStep(u)

Spec == Init /\ [][Next]_storeVars

--------------------------------------------------------------------------------
(* Invariants *)

\* Type invariant.  The two storage counters are sums of bytes: their range is part
\* of StorageCoversHeld.
TypeOK ==
    /\ status \in [Tasks -> TaskStatus \cup {"absent", "gone"}]
    /\ pendingTerminal \in [Tasks -> Intents \cup {"none"}]
    /\ round \in [Tasks -> Round]
    /\ held \in [Tasks -> SUBSET {"active", "running"}]
    /\ slot \in [Slots -> Tasks \cup {NoTask}]
    /\ activeTasks \in [Users -> Nat]
    /\ runningTasks \in [Users -> Nat]
    /\ startedToday \in [Users -> Nat]
    /\ rootBytes \in [Tasks -> Nat]
    /\ copyBytes \in [Tasks -> Nat]

\* The task row and its newest round agree in every state the transactions can
\* leave behind, although each is written by a conditional UPDATE of its own: a
\* queued task is exactly one with a pending round (else dispatch never finds it), a
\* running round belongs to a running task nobody asked to end, a cancelling one to
\* a task whose end is recorded, and a running task without an active round carries
\* the intent by which reconcile_pending_terminal finds it.
RoundMatchesTask ==
    \A t \in Tasks :
       /\ status[t] = "queued" <=> round[t].state = "pending"
       /\ round[t].state = "running" =>
             status[t] = "running" /\ pendingTerminal[t] = "none"
       /\ round[t].state = "cancelling" =>
             \/ status[t] = "running" /\ pendingTerminal[t] # "none"
             \/ status[t] = "deleted"
       /\ status[t] = "running" /\ ~ HasActiveRound(t) => pendingTerminal[t] # "none"
       /\ status[t] = "ready" => round[t].state = "settled"
       /\ status[t] \in {"absent", "uploading", "queued", "ready"} => pendingTerminal[t] = "none"
       /\ status[t] \in {"absent", "uploading"} => round[t] = NoRound

\* Lease discipline (dispatcher module notes, "lease_epoch is monotone"): a round in
\* execution has an owner, a waiting one has none, and the epoch counts the claims,
\* so that no token is ever issued twice and AttemptLimit bounds the executions.
LeaseMatchesRound ==
    \A t \in Tasks :
       /\ round[t].epoch = round[t].attempt
       /\ round[t].attempt <= AttemptLimit
       /\ round[t].no = 0 => round[t] = NoRound
       /\ round[t].state \in {"running", "cancelling"} =>
             round[t].owner # NoInstance /\ round[t].attempt > 0
       /\ round[t].state = "pending" =>
             round[t].owner = NoInstance /\ round[t].attempt < AttemptLimit

\* The three accounts of task_release.py follow the task: the active reservation is
\* held exactly while the task lives, the running one exactly while a round of a
\* running task executes, and a slot is leased to a task exactly while it holds the
\* running reservation, so that no path leaks a slot and none frees it twice.
HoldingsMatchTask ==
    \A t \in Tasks :
       /\ "active" \in held[t] <=> status[t] \in LiveStatus
       /\ "running" \in held[t] <=>
             status[t] = "running" /\ round[t].state \in {"running", "cancelling"}
       /\ "running" \in held[t] <=> \E s \in Slots : slot[s] = t
       /\ \A s1, s2 \in Slots : slot[s1] = t /\ slot[s2] = t => s1 = s2

\* The counters of user_quota_usage equal the reservations they count, whichever of
\* the two release primitives ran: no quota is lost and the floor of Lower is never
\* hit.
CountersMatchHoldings ==
    \A u \in Users :
       /\ activeTasks[u] = Cardinality({t \in TasksOf(u) : "active" \in held[t]})
       /\ runningTasks[u] = Cardinality({t \in TasksOf(u) : "running" \in held[t]})

\* The bytes charged to a user cover the bytes its held reservations name, so that
\* a refund never meets the floor; the platform counter is the sum of the users'.
StorageCoversHeld ==
    /\ \A u \in Users : storage[u] >= MapThenSumSet(BytesHeld, TasksOf(u))
    /\ platformStorage = MapThenSumSet(LAMBDA u : storage[u], Users)

--------------------------------------------------------------------------------
(* Action properties *)

\* A terminal status is final: no late settle, reclaim, kill or reconciliation moves
\* a task out of it, except into deletion.
TerminalIsFinalStep(t) ==
    /\ status[t] \in EndedStatus => status'[t] \in {status[t], "deleted", "gone"}
    /\ status[t] = "deleted" => status'[t] \in {"deleted", "gone"}

TerminalIsFinal == [][\A t \in Tasks : TerminalIsFinalStep(t)]_storeVars

\* An accepted abort or complete (202) is never undone: a task that carries an
\* intent can only stay running or end, and never by a settle, a requeue or a round
\* failure; the intent is not lost before the task has ended.
IntentIsHonouredStep(t) ==
    status[t] = "running" /\ pendingTerminal[t] # "none" =>
       \/ status'[t] = "running" /\ pendingTerminal'[t] # "none"
       \/ status'[t] \in {"completed", "aborted", "deleted", "gone"}

IntentIsHonoured == [][\A t \in Tasks : IntentIsHonouredStep(t)]_storeVars

\* Fencing: a round begins to run only under an epoch it never ran under before, and
\* its epoch never goes back, so that whoever was fenced out stays fenced out.
EpochFencesStep(t) ==
    /\ round'[t].state = "running" /\ round[t].state # "running" =>
          round'[t].no = round[t].no /\ round'[t].epoch > round[t].epoch
    /\ round'[t].no = round[t].no => round'[t].epoch >= round[t].epoch
    /\ round'[t].no < round[t].no => round'[t] = NoRound

EpochFences == [][\A t \in Tasks : EpochFencesStep(t)]_storeVars

--------------------------------------------------------------------------------
(* The promise this module implements *)

Executing == {t \in Tasks : "running" \in held[t]}

\* The transactions implement the lifecycle an owner is promised, slots and
\* reservations standing for the set of executing tasks.
Lifecycle == INSTANCE TaskLifecycle WITH
                phase <- status, intent <- pendingTerminal, executing <- Executing,
                Capacity <- Cardinality(Slots)

ImplementsLifecycle == Lifecycle!Spec

--------------------------------------------------------------------------------
(* Documented, and not kept by the code *)

\* What task_release.py says of the byte account: bytes are kept for a task until
\* the sweep or its deletion releases them, and then all of them are given back.
StorageMatchesHeld ==
    \A u \in Users : storage[u] = MapThenSumSet(BytesHeld, TasksOf(u))

================================================================================
