--------------------------- MODULE TaskRuntimeProofs ---------------------------
(***************************************************************************)
(* Proofs about the tasks, for all values of the constants.  First the     *)
(* database, TaskStore: its inductive invariant, its action properties and *)
(* that it implements TaskLifecycle.  Then the process: whatever the       *)
(* dispatcher, the executor, the watchdogs, the container and the crashes  *)
(* do, each step is a transaction of TaskStore or leaves the database      *)
(* alone, so that every theorem about Spec holds of RuntimeSpec.  And only *)
(* the holder of the lease settles a round or charges an output.  The byte *)
(* account rests on lemmas about sums over finite sets, proved here by     *)
(* induction on the subsets of a set.                                      *)
(***************************************************************************)
EXTENDS TaskRuntime, TLAPS, FiniteSetTheorems, WellFoundedInduction

--------------------------------------------------------------------------------
(* The database *)

\* The part of TypeOK the rows' own invariants rest on.
RowTypes ==
    /\ status \in [Tasks -> TaskStatus \cup {"absent", "gone"}]
    /\ pendingTerminal \in [Tasks -> Intents \cup {"none"}]
    /\ round \in [Tasks -> Round]
    /\ held \in [Tasks -> SUBSET {"active", "running"}]
    /\ slot \in [Slots -> Tasks \cup {NoTask}]

\* What every transaction preserves without looking at reservations or counters.
RowInv == RowTypes /\ RoundMatchesTask /\ LeaseMatchesRound

\* A round in another state is a round.
LEMMA RoundState ==
  ASSUME NEW q \in Round, NEW s \in ActiveRound \cup ClosedRound \cup {"none"}
  PROVE  [q EXCEPT !.state = s] \in Round
BY DEF Round

LEMMA OneRoundState ==
  ASSUME round \in [Tasks -> Round], NEW t \in Tasks,
         NEW s \in ActiveRound \cup ClosedRound \cup {"none"},
         round' = [round EXCEPT ![t].state = s]
  PROVE  round' \in [Tasks -> Round]
BY RoundState

\* Each transaction keeps the task row, its intent and its newest round in
\* agreement, and the lease columns consistent.
LEMMA RowNext ==
  ASSUME RowInv, Next
  PROVE  RowInv'
<1> USE StoreAssumption DEF RowInv, RowTypes, RoundMatchesTask, LeaseMatchesRound,
       TaskStatus, LiveStatus, EndedStatus, TerminalStatus, Intents, Round, ActiveRound,
       ClosedRound, NoRound, HasActiveRound
<1> USE DEF byteVars, holdVars, taskVars, ReleaseHoldings, DropHolds, ReleasedKinds,
       FenceHolds, Unleased
<1>1. ASSUME NEW t \in Tasks, CreateTask(t) PROVE RowInv'
  BY <1>1, SMTT(60) DEF CreateTask
<1>2. ASSUME NEW t \in Tasks, NEW n \in Sizes, CommitInput(t, n) PROVE RowInv'
  BY <1>2, SMTT(60) DEF CommitInput, FreshRound
<1>3. ASSUME NEW t \in Tasks, NEW k \in {"aborted", "completed"}, EndTask(t, k) PROVE RowInv'
  <2>1. CASE RequestTerminalWhileRunning(t, k)
    BY <2>1, SMTT(60) DEF RequestTerminalWhileRunning
  <2>2. CASE TerminalizeQueued(t, k)
    BY <2>2, SMTT(60) DEF TerminalizeQueued
  <2>3. CASE FinalizeTerminal(t, k)
    BY <2>3, SMTT(60) DEF FinalizeTerminal
  <2> QED BY <1>3, <2>1, <2>2, <2>3 DEF EndTask
<1>4. ASSUME NEW t \in Tasks, DeleteTask(t) PROVE RowInv'
  <2>1. /\ status' = [status EXCEPT ![t] = "deleted"]
        /\ pendingTerminal' = [pendingTerminal EXCEPT ![t] =
                                  IF status[t] = "running" THEN "deleted" ELSE @]
        /\ round' = [round EXCEPT ![t].state =
                        CASE status[t] = "running" /\ @ \in ActiveRound -> "cancelling"
                          [] status[t] = "queued" /\ @ = "pending" -> "cancelled"
                          [] OTHER -> @]
    BY <1>4 DEF DeleteTask
  <2>2. held' \in [Tasks -> SUBSET {"active", "running"}] /\ slot' \in [Slots -> Tasks \cup {NoTask}]
    BY <1>4 DEF DeleteTask
  <2> HIDE DEF DropHolds, ReleaseHoldings, ReleasedKinds
  <2>3. RowTypes'
    <3>1. round' \in [Tasks -> Round]
      <4>1. PICK s \in ActiveRound \cup ClosedRound \cup {"none"} :
               round' = [round EXCEPT ![t].state = s]
        BY <2>1
      <4>2. round \in [Tasks -> Round]
        OBVIOUS
      <4> HIDE DEF Round, ActiveRound, ClosedRound
      <4> QED BY <4>1, <4>2, OneRoundState
    <3>2. /\ status' \in [Tasks -> TaskStatus \cup {"absent", "gone"}]
          /\ pendingTerminal' \in [Tasks -> Intents \cup {"none"}]
      BY <2>1
    <3> QED BY <2>2, <3>1, <3>2
  <2>4. RoundMatchesTask'
    BY <2>1
  <2>5. LeaseMatchesRound'
    BY <2>1
  <2> QED BY <2>3, <2>4, <2>5
<1>5. ASSUME NEW t \in Tasks, SendMessage(t) PROVE RowInv'
  BY <1>5, SMTT(60) DEF SendMessage, FreshRound
<1>6. ASSUME NEW t \in Tasks, NEW i \in Instances, ClaimRound(t, i) PROVE RowInv'
  BY <1>6, SMTT(60) DEF ClaimRound, FreeSlots, Claimed
<1>7. ASSUME NEW t \in Tasks, LeaseExpires(t) PROVE RowInv'
  BY <1>7, SMTT(60) DEF LeaseExpires
<1>8. ASSUME NEW t \in Tasks, CancelCancellingRound(t, round[t].no) PROVE RowInv'
  BY <1>8, SMTT(60) DEF CancelCancellingRound
<1>9. ASSUME NEW t \in Tasks, SweepUploadTtl(t) PROVE RowInv'
  BY <1>9, SMTT(60) DEF SweepUploadTtl
<1>10. ASSUME NEW t \in Tasks, SweepTerminalCleanup(t) PROVE RowInv'
  BY <1>10, SMTT(60) DEF SweepTerminalCleanup
<1>11. ASSUME NEW t \in Tasks, ReconcilePendingTerminal(t) PROVE RowInv'
  BY <1>11, SMTT(60) DEF ReconcilePendingTerminal
<1>12. ASSUME NEW t \in Tasks, TerminateTask(t) PROVE RowInv'
  BY <1>12, SMTT(60) DEF TerminateTask
<1>13. ASSUME NEW t \in Tasks, NEW n, NEW i, NEW e, LeaseStep(t, n, i, e) PROVE RowInv'
  <2>1. CASE ReclaimExpiredRound(t, n, i, e)
    BY <2>1, SMTT(60) DEF ReclaimExpiredRound
  <2>2. CASE RenewLease(t, n, i, e)
    BY <2>2, SMTT(60) DEF RenewLease
  <2>3. ASSUME NEW r \in BOOLEAN, Settle(t, n, i, e, r) PROVE RowInv'
    <3>1. status[t] = "running" /\ round[t].state = "running"
      BY <2>3 DEF Settle
    <3>2. PICK st \in {"ready", "aborted"} : status' = [status EXCEPT ![t] = st]
      BY <2>3, <3>1 DEF Settle
    <3>3. round' = [round EXCEPT ![t].state = "settled"] /\ pendingTerminal' = pendingTerminal
      BY <2>3 DEF Settle
    <3>4. held' \in [Tasks -> SUBSET {"active", "running"}] /\ slot' \in [Slots -> Tasks \cup {NoTask}]
      BY <2>3 DEF Settle
    <3> HIDE DEF DropHolds, ReleaseHoldings, ReleasedKinds
    <3>5. RowTypes'
      <4>1. [round[t] EXCEPT !.state = "settled"] \in Round
        <5>1. round[t] \in Round /\ "settled" \in ActiveRound \cup ClosedRound \cup {"none"}
          OBVIOUS
        <5> HIDE DEF Round, RowInv, RowTypes, RoundMatchesTask, LeaseMatchesRound, ActiveRound,
                     ClosedRound, NoRound
        <5> QED BY <5>1, RoundState
      <4>2. round' \in [Tasks -> Round]
        BY <3>3, <4>1
      <4>3. status' \in [Tasks -> TaskStatus \cup {"absent", "gone"}]
        BY <3>2
      <4> QED BY <3>3, <3>4, <4>2, <4>3
    <3>6. RoundMatchesTask'
      BY <3>1, <3>2, <3>3
    <3>7. LeaseMatchesRound'
      BY <3>1, <3>3
    <3> QED BY <3>5, <3>6, <3>7
  <2>4. CASE FailOnDeadline(t, n, i, e)
    <3>1. status[t] = "running" /\ round[t].state = "running"
      BY <2>4 DEF FailOnDeadline
    <3>2. /\ status' = [status EXCEPT ![t] = "failed"]
          /\ pendingTerminal' = [pendingTerminal EXCEPT ![t] = "none"]
          /\ round' = [round EXCEPT ![t] = Unleased(round[t], "failed")]
      BY <2>4, <3>1 DEF FailOnDeadline
    <3>3. held' \in [Tasks -> SUBSET {"active", "running"}] /\ slot' \in [Slots -> Tasks \cup {NoTask}]
      BY <2>4, <3>1 DEF FailOnDeadline
    <3> HIDE DEF DropHolds, ReleaseHoldings, ReleasedKinds
    <3>4. RowTypes'
      BY <3>1, <3>2, <3>3
    <3>5. RoundMatchesTask'
      BY <3>1, <3>2
    <3>6. LeaseMatchesRound'
      BY <3>1, <3>2
    <3> QED BY <3>4, <3>5, <3>6
  <2>5. ASSUME NEW b, NEW old, RegisterOutput(t, n, e, b, old) PROVE RowInv'
    BY <2>5, SMTT(60) DEF RegisterOutput
  <2> QED BY <1>13, <2>1, <2>2, <2>3, <2>4, <2>5 DEF LeaseStep
<1>14. ASSUME NEW u \in Users, UserStep(u) PROVE RowInv'
  <2>1. CASE TerminateUserTasks(u)
    BY <2>1, SMTT(60) DEF TerminateUserTasks, TasksOf
  <2>2. CASE FailUnstartedTasks(u)
    <3>1. PICK T : /\ T = {t \in TasksOf(u) : status[t] \in {"uploading", "queued", "ready"}}
                   /\ status' = [t \in Tasks |-> IF t \in T THEN "failed" ELSE status[t]]
                   /\ round' = [t \in Tasks |-> IF t \in T /\ round[t].state = "pending"
                                                THEN [round[t] EXCEPT !.state = "cancelled"]
                                                ELSE round[t]]
                   /\ held' = [t \in Tasks |-> IF t \in T THEN {} ELSE held[t]]
                   /\ UNCHANGED <<pendingTerminal, slot>>
      BY <2>2 DEF FailUnstartedTasks
    <3>2. RowTypes'
      <4>1. ASSUME NEW x \in Tasks PROVE round'[x] \in Round
        <5>1. PICK q : q = [round[x] EXCEPT !.state = "cancelled"]
          OBVIOUS
        <5>2. round'[x] \in {q, round[x]}
          BY <3>1, <5>1
        <5>3. round[x] \in Round
          OBVIOUS
        <5>4. q \in Round
          BY <5>1, <5>3, SMTT(30)
        <5> HIDE DEF Round
        <5> QED BY <5>2, <5>3, <5>4
      <4>2. held' \in [Tasks -> SUBSET {"active", "running"}]
        BY <3>1
      <4>3. round' \in [Tasks -> Round]
        BY <3>1, <4>1
      <4>4. status' \in [Tasks -> TaskStatus \cup {"absent", "gone"}]
        BY <3>1
      <4> QED BY <3>1, <4>3, <4>2, <4>4
    <3>3. RoundMatchesTask'
      BY <3>1
    <3>4. LeaseMatchesRound'
      BY <3>1
    <3> QED BY <3>2, <3>3, <3>4
  <2> QED BY <1>14, <2>1, <2>2 DEF UserStep
<1> QED
  BY <1>1, <1>2, <1>3, <1>4, <1>5, <1>6, <1>7, <1>8, <1>9, <1>10, <1>11, <1>12, <1>13, <1>14
  DEF Next, OwnerStep, JobStep, AbortTask, CompleteTask

\* Each transaction keeps reservations and slots in step with the rows.
LEMMA HoldNext ==
  ASSUME RowInv, HoldingsMatchTask, Next
  PROVE  HoldingsMatchTask'
<1> USE StoreAssumption DEF HoldingsMatchTask, RowInv, RowTypes, RoundMatchesTask,
       LeaseMatchesRound, TaskStatus, LiveStatus, EndedStatus, TerminalStatus, Intents,
       Round, ActiveRound, ClosedRound, NoRound, HasActiveRound
<1> USE DEF byteVars, holdVars, taskVars, ReleaseHoldings, DropHolds, ReleasedKinds,
       FenceHolds, Unleased
<1>1. ASSUME NEW t \in Tasks, CreateTask(t) PROVE HoldingsMatchTask'
  BY <1>1, SMTT(60) DEF CreateTask, ChargeDaily
<1>2. ASSUME NEW t \in Tasks, NEW n \in Sizes, CommitInput(t, n) PROVE HoldingsMatchTask'
  BY <1>2, SMTT(60) DEF CommitInput, FreshRound
<1>3. ASSUME NEW t \in Tasks, NEW k \in {"aborted", "completed"}, EndTask(t, k) PROVE HoldingsMatchTask'
  <2>1. CASE RequestTerminalWhileRunning(t, k)
    BY <2>1, SMTT(60) DEF RequestTerminalWhileRunning
  <2>2. CASE TerminalizeQueued(t, k)
    BY <2>2, SMTT(60) DEF TerminalizeQueued
  <2>3. CASE FinalizeTerminal(t, k)
    BY <2>3, SMTT(60) DEF FinalizeTerminal
  <2> QED BY <1>3, <2>1, <2>2, <2>3 DEF EndTask
<1>4. ASSUME NEW t \in Tasks, DeleteTask(t) PROVE HoldingsMatchTask'
  BY <1>4, SMTT(60) DEF DeleteTask
<1>5. ASSUME NEW t \in Tasks, SendMessage(t) PROVE HoldingsMatchTask'
  BY <1>5, SMTT(60) DEF SendMessage, FreshRound
<1>6. ASSUME NEW t \in Tasks, NEW i \in Instances, ClaimRound(t, i) PROVE HoldingsMatchTask'
  BY <1>6, SMTT(60) DEF ClaimRound, FreeSlots, Claimed
<1>7. ASSUME NEW t \in Tasks, LeaseExpires(t) PROVE HoldingsMatchTask'
  BY <1>7, SMTT(60) DEF LeaseExpires
<1>8. ASSUME NEW t \in Tasks, CancelCancellingRound(t, round[t].no) PROVE HoldingsMatchTask'
  BY <1>8, SMTT(60) DEF CancelCancellingRound
<1>9. ASSUME NEW t \in Tasks, SweepUploadTtl(t) PROVE HoldingsMatchTask'
  BY <1>9, SMTT(60) DEF SweepUploadTtl
<1>10. ASSUME NEW t \in Tasks, SweepTerminalCleanup(t) PROVE HoldingsMatchTask'
  BY <1>10, SMTT(60) DEF SweepTerminalCleanup
<1>11. ASSUME NEW t \in Tasks, ReconcilePendingTerminal(t) PROVE HoldingsMatchTask'
  BY <1>11, SMTT(60) DEF ReconcilePendingTerminal
<1>12. ASSUME NEW t \in Tasks, TerminateTask(t) PROVE HoldingsMatchTask'
  BY <1>12, SMTT(60) DEF TerminateTask
<1>13. ASSUME NEW t \in Tasks, NEW n, NEW i, NEW e, LeaseStep(t, n, i, e) PROVE HoldingsMatchTask'
  <2>1. CASE ReclaimExpiredRound(t, n, i, e)
    BY <2>1, SMTT(60) DEF ReclaimExpiredRound
  <2>2. CASE RenewLease(t, n, i, e)
    BY <2>2, SMTT(60) DEF RenewLease
  <2>3. ASSUME NEW r \in BOOLEAN, Settle(t, n, i, e, r) PROVE HoldingsMatchTask'
    BY <2>3, SMTT(60) DEF Settle
  <2>4. CASE FailOnDeadline(t, n, i, e)
    BY <2>4, SMTT(60) DEF FailOnDeadline
  <2>5. ASSUME NEW b, NEW old, RegisterOutput(t, n, e, b, old) PROVE HoldingsMatchTask'
    BY <2>5, SMTT(60) DEF RegisterOutput
  <2> QED BY <1>13, <2>1, <2>2, <2>3, <2>4, <2>5 DEF LeaseStep
<1>14. ASSUME NEW u \in Users, UserStep(u) PROVE HoldingsMatchTask'
  <2>1. CASE TerminateUserTasks(u)
    BY <2>1, SMTT(60) DEF TerminateUserTasks, TasksOf
  <2>2. CASE FailUnstartedTasks(u)
    BY <2>2, SMTT(60) DEF FailUnstartedTasks, TasksOf
  <2> QED BY <1>14, <2>1, <2>2 DEF UserStep
<1> QED
  BY <1>1, <1>2, <1>3, <1>4, <1>5, <1>6, <1>7, <1>8, <1>9, <1>10, <1>11, <1>12, <1>13, <1>14
  DEF Next, OwnerStep, JobStep, AbortTask, CompleteTask

\* The tasks of u that hold a reservation of the given kind.
HoldersOf(u, kind) == {t \in TasksOf(u) : kind \in held[t]}

\* The two quota counters, with their range.
CounterInv ==
    /\ activeTasks \in [Users -> Nat]
    /\ runningTasks \in [Users -> Nat]
    /\ CountersMatchHoldings

\* Sets of one user's tasks are finite; taking a part away subtracts its size.
LEMMA FiniteHolders ==
  ASSUME NEW u
  PROVE  /\ \A S \in SUBSET TasksOf(u) : IsFiniteSet(S) /\ Cardinality(S) \in Nat
         /\ \A S, R \in SUBSET TasksOf(u) :
               R \subseteq S => /\ Cardinality(S \ R) = Cardinality(S) - Cardinality(R)
                                /\ Cardinality(R) <= Cardinality(S)
         /\ \A S \in SUBSET TasksOf(u), t \in TasksOf(u) :
               t \notin S => Cardinality(S \cup {t}) = Cardinality(S) + 1
<1>1. IsFiniteSet(TasksOf(u))
  BY StoreAssumption, FS_Subset DEF TasksOf
<1>2. ASSUME NEW S \in SUBSET TasksOf(u) PROVE IsFiniteSet(S) /\ Cardinality(S) \in Nat
  BY <1>1, FS_Subset, FS_CardinalityType
<1>3. ASSUME NEW S \in SUBSET TasksOf(u), NEW R \in SUBSET TasksOf(u), R \subseteq S
      PROVE  /\ Cardinality(S \ R) = Cardinality(S) - Cardinality(R)
             /\ Cardinality(R) <= Cardinality(S)
  <2>1. S \cap R = R
    BY <1>3
  <2>2. Cardinality(S \ R) = Cardinality(S) - Cardinality(S \cap R)
    BY <1>2, FS_Difference
  <2> QED BY <2>1, <2>2, <1>2, <1>3, FS_Subset
<1>4. ASSUME NEW S \in SUBSET TasksOf(u), NEW t \in TasksOf(u), t \notin S
      PROVE  Cardinality(S \cup {t}) = Cardinality(S) + 1
  BY <1>2, <1>4, FS_AddElement
<1> QED BY <1>2, <1>3, <1>4

\* The release primitive subtracts from each counter exactly the rows it released:
\* the floor of Lower is never reached.
LEMMA DropHoldsCounts ==
  ASSUME RowTypes, CounterInv,
         NEW u \in Users, NEW T \in SUBSET TasksOf(u), NEW kinds, DropHolds(u, T, kinds)
  PROVE  CounterInv'
<1> DEFINE ran == {t \in T : "running" \in held[t] \cap kinds}
           act == {t \in T : "active" \in held[t] \cap kinds}
<1>1. ran \subseteq HoldersOf(u, "running") /\ act \subseteq HoldersOf(u, "active")
  BY DEF HoldersOf
<1>2. /\ HoldersOf(u, "running")' = HoldersOf(u, "running") \ ran
      /\ HoldersOf(u, "active")' = HoldersOf(u, "active") \ act
  BY StoreAssumption DEF HoldersOf, DropHolds, TasksOf, RowTypes
<1>3. \A v \in Users \ {u}, kind \in {"running", "active"} :
         HoldersOf(v, kind)' = HoldersOf(v, kind)
  BY StoreAssumption DEF HoldersOf, DropHolds, TasksOf, RowTypes
<1>4. /\ runningTasks' = [runningTasks EXCEPT ![u] = Lower(@, Cardinality(ran))]
      /\ activeTasks' = [activeTasks EXCEPT ![u] = Lower(@, Cardinality(act))]
  BY DEF DropHolds
<1>5. \A kind : HoldersOf(u, kind) \in SUBSET TasksOf(u)
  BY DEF HoldersOf
<1>6. /\ runningTasks[u] = Cardinality(HoldersOf(u, "running"))
      /\ activeTasks[u] = Cardinality(HoldersOf(u, "active"))
  BY DEF CounterInv, CountersMatchHoldings, HoldersOf
<1>7. /\ Cardinality(ran) \in Nat /\ Cardinality(act) \in Nat
      /\ Cardinality(ran) <= runningTasks[u] /\ Cardinality(act) <= activeTasks[u]
      /\ Cardinality(HoldersOf(u, "running")') = runningTasks[u] - Cardinality(ran)
      /\ Cardinality(HoldersOf(u, "active")') = activeTasks[u] - Cardinality(act)
  <2>1. ran \in SUBSET TasksOf(u) /\ act \in SUBSET TasksOf(u)
    OBVIOUS
  <2> HIDE DEF ran, act
  <2>2. /\ Cardinality(HoldersOf(u, "running") \ ran) = Cardinality(HoldersOf(u, "running")) - Cardinality(ran)
        /\ Cardinality(ran) <= Cardinality(HoldersOf(u, "running"))
    BY <1>1, <1>5, <2>1, FiniteHolders
  <2>3. /\ Cardinality(HoldersOf(u, "active") \ act) = Cardinality(HoldersOf(u, "active")) - Cardinality(act)
        /\ Cardinality(act) <= Cardinality(HoldersOf(u, "active"))
    BY <1>1, <1>5, <2>1, FiniteHolders
  <2>4. Cardinality(ran) \in Nat /\ Cardinality(act) \in Nat
    BY <2>1, FiniteHolders
  <2> QED BY <1>2, <1>6, <2>2, <2>3, <2>4
<1> HIDE DEF ran, act
<1>8. /\ runningTasks' \in [Users -> Nat] /\ activeTasks' \in [Users -> Nat]
      /\ runningTasks'[u] = Cardinality(HoldersOf(u, "running")')
      /\ activeTasks'[u] = Cardinality(HoldersOf(u, "active")')
      /\ \A v \in Users \ {u} : runningTasks'[v] = runningTasks[v] /\ activeTasks'[v] = activeTasks[v]
  BY <1>4, <1>7 DEF CounterInv, Lower
<1> QED BY <1>3, <1>8 DEF CounterInv, CountersMatchHoldings, HoldersOf

\* release_task_holdings keeps the counters exact whatever status it sees.
LEMMA ReleaseCounts ==
  ASSUME RowTypes, CounterInv, NEW t \in Tasks, NEW st, ReleaseHoldings(t, st)
  PROVE  CounterInv'
<1>1. Owner[t] \in Users /\ {t} \in SUBSET TasksOf(Owner[t])
  BY StoreAssumption DEF TasksOf
<1> QED BY <1>1, DropHoldsCounts DEF ReleaseHoldings

\* A counter that gains one with the one task that gains the hold.
LEMMA GainHoldCounts ==
  ASSUME RowTypes, NEW counter, NEW kind, NEW t \in Tasks, kind \notin held[t],
         counter \in [Users -> Nat],
         \A u \in Users : counter[u] = Cardinality(HoldersOf(u, kind)),
         held' \in [Tasks -> SUBSET {"active", "running"}],
         kind \in held'[t],
         \A s \in Tasks \ {t} : kind \in held'[s] <=> kind \in held[s]
  PROVE  \A u \in Users : [counter EXCEPT ![Owner[t]] = @ + 1][u] = Cardinality(HoldersOf(u, kind)')
<1>1. SUFFICES ASSUME NEW u \in Users
               PROVE  [counter EXCEPT ![Owner[t]] = @ + 1][u] = Cardinality(HoldersOf(u, kind)')
  OBVIOUS
<1>2. CASE u = Owner[t]
  <2>1. HoldersOf(u, kind)' = HoldersOf(u, kind) \cup {t}
    BY <1>2 DEF HoldersOf, TasksOf
  <2>2. t \in TasksOf(u) /\ t \notin HoldersOf(u, kind) /\ HoldersOf(u, kind) \in SUBSET TasksOf(u)
    BY <1>2 DEF HoldersOf, TasksOf
  <2>3. Cardinality(HoldersOf(u, kind) \cup {t}) = Cardinality(HoldersOf(u, kind)) + 1
    BY <2>2, FiniteHolders
  <2> QED BY <1>2, <2>1, <2>3
<1>3. CASE u # Owner[t]
  <2>1. HoldersOf(u, kind)' = HoldersOf(u, kind)
    BY <1>3 DEF HoldersOf, TasksOf
  <2> QED BY <1>3, <2>1
<1> QED BY <1>2, <1>3

\* Each transaction keeps the quota counters equal to the reservations they count.
LEMMA CounterNext ==
  ASSUME RowInv, HoldingsMatchTask, CounterInv, Next
  PROVE  CounterInv'
<1> USE DEF RowInv
<1>0. /\ \A u \in Users : runningTasks[u] = Cardinality(HoldersOf(u, "running"))
      /\ \A u \in Users : activeTasks[u] = Cardinality(HoldersOf(u, "active"))
      /\ \A t \in Tasks : Owner[t] \in Users
  BY StoreAssumption DEF CounterInv, CountersMatchHoldings, HoldersOf
<1>1. ASSUME NEW t \in Tasks, CreateTask(t) PROVE CounterInv'
  <2>1. /\ held[t] = {} /\ held' = [held EXCEPT ![t] = {"active"}]
        /\ activeTasks' = [activeTasks EXCEPT ![Owner[t]] = @ + 1]
        /\ runningTasks' = runningTasks
    BY <1>1 DEF CreateTask, HoldingsMatchTask, RowTypes, LiveStatus
  <2>2. \A u \in Users : HoldersOf(u, "running")' = HoldersOf(u, "running")
    BY <2>1 DEF HoldersOf, TasksOf, RowTypes
  <2>3. \A u \in Users : activeTasks'[u] = Cardinality(HoldersOf(u, "active")')
    BY <1>0, <2>1, GainHoldCounts DEF RowTypes, CounterInv
  <2> QED BY <1>0, <2>1, <2>2, <2>3 DEF CounterInv, CountersMatchHoldings, HoldersOf
<1>2. ASSUME NEW t \in Tasks, NEW i, ClaimRound(t, i) PROVE CounterInv'
  <2>1. /\ "running" \notin held[t] /\ held' = [held EXCEPT ![t] = @ \cup {"running"}]
        /\ runningTasks' = [runningTasks EXCEPT ![Owner[t]] = @ + 1]
        /\ activeTasks' = activeTasks
    BY <1>2 DEF ClaimRound
  <2>2. \A u \in Users : HoldersOf(u, "active")' = HoldersOf(u, "active")
    BY <2>1 DEF HoldersOf, TasksOf, RowTypes
  <2>3. \A u \in Users : runningTasks'[u] = Cardinality(HoldersOf(u, "running")')
    BY <1>0, <2>1, GainHoldCounts DEF RowTypes, CounterInv
  <2> QED BY <1>0, <2>1, <2>2, <2>3 DEF CounterInv, CountersMatchHoldings, HoldersOf
<1>3. ASSUME NEW t \in Tasks, NEW st, ReleaseHoldings(t, st) PROVE CounterInv'
  BY <1>3, ReleaseCounts
<1>4. ASSUME NEW u \in Users, NEW T \in SUBSET TasksOf(u), NEW kinds, DropHolds(u, T, kinds)
      PROVE  CounterInv'
  BY <1>4, DropHoldsCounts
<1>5. ASSUME UNCHANGED holdVars PROVE CounterInv'
  BY <1>5 DEF holdVars, CounterInv, CountersMatchHoldings, TasksOf
<1>6. ASSUME NEW u \in Users, FailUnstartedTasks(u) PROVE CounterInv'
  <2> DEFINE T == {t \in TasksOf(u) : status[t] \in {"uploading", "queued", "ready"}}
             act == {t \in T : "active" \in held[t]}
  <2>1. /\ held' = [t \in Tasks |-> IF t \in T THEN {} ELSE held[t]]
        /\ activeTasks' = [activeTasks EXCEPT ![u] = @ - Cardinality(act)]
        /\ runningTasks' = runningTasks
    BY <1>6 DEF FailUnstartedTasks
  <2>2. \A t \in T : "running" \notin held[t]
    BY DEF HoldingsMatchTask, TasksOf
  <2>3. \A v \in Users : HoldersOf(v, "running")' = HoldersOf(v, "running")
    BY <2>1, <2>2 DEF HoldersOf, TasksOf, RowTypes
  <2>4. \A v \in Users \ {u} : HoldersOf(v, "active")' = HoldersOf(v, "active")
    BY <2>1 DEF HoldersOf, TasksOf, RowTypes
  <2>5. HoldersOf(u, "active")' = HoldersOf(u, "active") \ act
    BY <2>1 DEF HoldersOf, TasksOf, RowTypes
  <2>6. /\ act \in SUBSET TasksOf(u) /\ act \subseteq HoldersOf(u, "active")
        /\ HoldersOf(u, "active") \in SUBSET TasksOf(u)
    BY DEF HoldersOf
  <2> HIDE DEF T, act
  <2>7. /\ Cardinality(HoldersOf(u, "active") \ act) = Cardinality(HoldersOf(u, "active")) - Cardinality(act)
        /\ Cardinality(act) <= Cardinality(HoldersOf(u, "active"))
        /\ Cardinality(act) \in Nat
    BY <2>6, FiniteHolders
  <2>8. /\ Cardinality(HoldersOf(u, "active")') = activeTasks[u] - Cardinality(act)
        /\ Cardinality(act) <= activeTasks[u]
    BY <1>0, <2>5, <2>7
  <2>9. activeTasks' = [activeTasks EXCEPT ![u] = @ - Cardinality(act)] /\ runningTasks' = runningTasks
    BY <2>1
  <2>10. activeTasks' \in [Users -> Nat] /\ runningTasks' \in [Users -> Nat]
    BY <2>7, <2>8, <2>9 DEF CounterInv
  <2>11. \A v \in Users : /\ activeTasks'[v] = Cardinality(HoldersOf(v, "active")')
                          /\ runningTasks'[v] = Cardinality(HoldersOf(v, "running")')
    BY <1>0, <2>3, <2>4, <2>8, <2>9 DEF CounterInv
  <2> QED BY <2>10, <2>11 DEF CounterInv, CountersMatchHoldings, HoldersOf
<1>7. ASSUME NEW t \in Tasks, OwnerStep(t) PROVE CounterInv'
  BY <1>1, <1>3, <1>5, <1>7
  DEF OwnerStep, CommitInput, AbortTask, CompleteTask, EndTask, RequestTerminalWhileRunning,
      TerminalizeQueued, FinalizeTerminal, DeleteTask, SendMessage
<1>8. ASSUME NEW t \in Tasks, JobStep(t) PROVE CounterInv'
  <2>1. CASE SweepTerminalCleanup(t)
    BY <1>0, <1>4, <2>1 DEF SweepTerminalCleanup, TasksOf
  <2>2. CASE LeaseExpires(t)
    BY <1>5, <2>2 DEF LeaseExpires
  <2> QED BY <1>2, <1>3, <1>8, <2>1, <2>2
    DEF JobStep, CancelCancellingRound, SweepUploadTtl, ReconcilePendingTerminal, TerminateTask
<1>9. ASSUME NEW t \in Tasks, NEW n, NEW i, NEW e, LeaseStep(t, n, i, e) PROVE CounterInv'
  <2>1. CASE ReclaimExpiredRound(t, n, i, e)
    BY <1>3, <2>1 DEF ReclaimExpiredRound
  <2>2. CASE RenewLease(t, n, i, e)
    BY <1>5, <2>2 DEF RenewLease
  <2>3. ASSUME NEW revoked, Settle(t, n, i, e, revoked) PROVE CounterInv'
    BY <1>3, <2>3 DEF Settle
  <2>4. CASE FailOnDeadline(t, n, i, e)
    BY <1>3, <1>5, <2>4 DEF FailOnDeadline
  <2>5. ASSUME NEW b, NEW old, RegisterOutput(t, n, e, b, old) PROVE CounterInv'
    BY <1>5, <2>5 DEF RegisterOutput
  <2> QED BY <1>9, <2>1, <2>2, <2>3, <2>4, <2>5 DEF LeaseStep
<1>10. ASSUME NEW u \in Users, UserStep(u) PROVE CounterInv'
  <2>1. CASE TerminateUserTasks(u)
    <3> DEFINE T == {t \in TasksOf(u) : status[t] \in TaskStatus}
    <3>1. T \in SUBSET TasksOf(u) /\ DropHolds(u, T, {"running", "active"})
      BY <2>1 DEF TerminateUserTasks
    <3> QED BY <1>4, <3>1
  <2> QED BY <1>6, <1>10, <2>1 DEF UserStep
<1> QED BY <1>7, <1>8, <1>9, <1>10 DEF Next

\* The rest of TypeOK.
BytesTyped ==
    /\ startedToday \in [Users -> Nat]
    /\ rootBytes \in [Tasks -> Nat]
    /\ copyBytes \in [Tasks -> Nat]

\* No transaction drives a byte count of a reservation below zero.
LEMMA BytesNext ==
  ASSUME BytesTyped, Next
  PROVE  BytesTyped'
<1> USE StoreAssumption DEF BytesTyped
<1>1. ASSUME UNCHANGED byteVars PROVE UNCHANGED <<rootBytes, copyBytes>>
  BY <1>1 DEF byteVars
<1>2. ASSUME NEW t \in Tasks, NEW st, ReleaseHoldings(t, st)
      PROVE  rootBytes' \in [Tasks -> Nat] /\ copyBytes' \in [Tasks -> Nat]
  BY <1>1, <1>2 DEF ReleaseHoldings, RefundBytes
<1>3. ASSUME NEW t \in Tasks, OwnerStep(t) PROVE BytesTyped'
  <2>1. CASE CreateTask(t)
    BY <1>1, <2>1 DEF CreateTask, ChargeDaily
  <2>2. ASSUME NEW n \in Sizes, CommitInput(t, n) PROVE BytesTyped'
    BY <2>2 DEF CommitInput
  <2>3. ASSUME NEW k, EndTask(t, k) PROVE BytesTyped'
    BY <1>1, <1>2, <2>3 DEF EndTask, RequestTerminalWhileRunning, TerminalizeQueued,
       FinalizeTerminal
  <2>4. CASE DeleteTask(t)
    BY <1>2, <2>4 DEF DeleteTask
  <2>5. CASE SendMessage(t)
    BY <1>1, <2>5 DEF SendMessage
  <2> QED BY <1>3, <2>1, <2>2, <2>3, <2>4, <2>5 DEF OwnerStep, AbortTask, CompleteTask
<1>4. ASSUME NEW t \in Tasks, JobStep(t) PROVE BytesTyped'
  <2>1. CASE SweepTerminalCleanup(t)
    BY <2>1 DEF SweepTerminalCleanup, RefundBytes
  <2>2. ASSUME NEW i, ClaimRound(t, i) PROVE BytesTyped'
    BY <1>1, <2>2 DEF ClaimRound
  <2>3. CASE LeaseExpires(t)
    BY <1>1, <2>3 DEF LeaseExpires
  <2> QED BY <1>2, <1>4, <2>1, <2>2, <2>3
    DEF JobStep, CancelCancellingRound, SweepUploadTtl, ReconcilePendingTerminal, TerminateTask
<1>5. ASSUME NEW t \in Tasks, NEW n, NEW i, NEW e, LeaseStep(t, n, i, e) PROVE BytesTyped'
  <2>1. CASE ReclaimExpiredRound(t, n, i, e)
    BY <1>2, <2>1 DEF ReclaimExpiredRound
  <2>2. CASE RenewLease(t, n, i, e)
    BY <1>1, <2>2 DEF RenewLease
  <2>3. ASSUME NEW revoked, Settle(t, n, i, e, revoked) PROVE BytesTyped'
    BY <1>2, <2>3 DEF Settle
  <2>4. CASE FailOnDeadline(t, n, i, e)
    BY <1>1, <1>2, <2>4 DEF FailOnDeadline
  <2>5. ASSUME NEW b \in Sizes, NEW old \in {0, copyBytes[t]}, RegisterOutput(t, n, e, b, old)
        PROVE  BytesTyped'
    BY <2>5 DEF RegisterOutput
  <2> QED BY <1>5, <2>1, <2>2, <2>3, <2>4, <2>5 DEF LeaseStep
<1>6. ASSUME NEW u \in Users, UserStep(u) PROVE BytesTyped'
  BY <1>6 DEF UserStep, TerminateUserTasks, FailUnstartedTasks, RefundBytes
<1> QED BY <1>3, <1>4, <1>5, <1>6 DEF Next

\* The inductive invariant.  RoundMatchesTask is inductive by itself (with the row
\* types); HoldingsMatchTask needs it to know which branch a release takes; the
\* counters need both, since fail_unstarted_tasks subtracts without a floor.
Inv == TypeOK /\ RoundMatchesTask /\ LeaseMatchesRound /\ HoldingsMatchTask /\ CountersMatchHoldings

\* The inductive invariant splits into the parts the lemmas above preserve.
LEMMA InvParts == Inv <=> RowInv /\ HoldingsMatchTask /\ CounterInv /\ BytesTyped
BY DEF Inv, TypeOK, RowInv, RowTypes, CounterInv, BytesTyped

\* The empty database satisfies the invariant.
LEMMA InitInv == Init => Inv
<1> SUFFICES ASSUME Init PROVE Inv
  OBVIOUS
<1>1. TypeOK /\ RoundMatchesTask /\ LeaseMatchesRound /\ HoldingsMatchTask
  BY StoreAssumption
  DEF Init, TypeOK, RoundMatchesTask, LeaseMatchesRound, HoldingsMatchTask, TaskStatus,
     LiveStatus,
      EndedStatus, TerminalStatus, Intents, Round, ActiveRound, ClosedRound, NoRound, HasActiveRound
<1>2. \A u \in Users, kind \in {"active", "running"} : HoldersOf(u, kind) = {}
  BY DEF Init, HoldersOf, TasksOf
<1>3. CountersMatchHoldings
  BY <1>2, FS_EmptySet DEF Init, CountersMatchHoldings, HoldersOf
<1> QED BY <1>1, <1>3 DEF Inv

\* Every transaction preserves the invariant.
LEMMA NextInv == Inv /\ [Next]_storeVars => Inv'
<1> SUFFICES ASSUME Inv, [Next]_storeVars PROVE Inv'
  OBVIOUS
<1>1. CASE Next
  <2>1. RowInv /\ HoldingsMatchTask /\ CounterInv /\ BytesTyped
    BY InvParts
  <2>2. RowInv' /\ HoldingsMatchTask' /\ CounterInv' /\ BytesTyped'
    BY <1>1, <2>1, RowNext, HoldNext, CounterNext, BytesNext
  <2> QED BY <2>2 DEF Inv, TypeOK, RowInv, RowTypes, CounterInv, BytesTyped
<1>2. CASE UNCHANGED storeVars
  <2> USE <1>2 DEF storeVars, taskVars, holdVars, byteVars, Inv
  <2>1. TypeOK'
    BY DEF TypeOK
  <2>2. RoundMatchesTask' /\ LeaseMatchesRound'
    BY DEF RoundMatchesTask, LeaseMatchesRound, HasActiveRound
  <2>3. HoldingsMatchTask'
    BY DEF HoldingsMatchTask
  <2>4. CountersMatchHoldings'
    BY DEF CountersMatchHoldings, TasksOf
  <2> QED BY <2>1, <2>2, <2>3, <2>4
<1> QED BY <1>1, <1>2

\* The inductive invariant holds in every reachable state, for any number of users,
\* tasks, slots, attempts and rounds, and any quotas.
THEOREM Invariance == Spec => []Inv
BY InitInv, NextInv, PTL DEF Spec

\* Type correctness of the durable state.
THEOREM TypeCorrect == Spec => []TypeOK
<1>1. Inv => TypeOK
  BY DEF Inv
<1> QED BY <1>1, Invariance, PTL

\* The task row and its newest round agree in every reachable state.
THEOREM RoundsMatchTasks == Spec => []RoundMatchesTask
<1>1. Inv => RoundMatchesTask
  BY DEF Inv
<1> QED BY <1>1, Invariance, PTL

\* Lease columns: the epoch counts the claims, AttemptLimit bounds them.
THEOREM LeasesMatchRounds == Spec => []LeaseMatchesRound
<1>1. Inv => LeaseMatchesRound
  BY DEF Inv
<1> QED BY <1>1, Invariance, PTL

\* No reservation and no slot is leaked or freed twice.
THEOREM HoldingsMatchTasks == Spec => []HoldingsMatchTask
<1>1. Inv => HoldingsMatchTask
  BY DEF Inv
<1> QED BY <1>1, Invariance, PTL

\* The quota counters are exact.
THEOREM CountersAreExact == Spec => []CountersMatchHoldings
<1>1. Inv => CountersMatchHoldings
  BY DEF Inv
<1> QED BY <1>1, Invariance, PTL

--------------------------------------------------------------------------------
\* The three action properties, for one task.
FencedStep(t) == TerminalIsFinalStep(t) /\ IntentIsHonouredStep(t) /\ EpochFencesStep(t)

\* No transaction reopens an ended task, drops an accepted intent or reuses an epoch.
LEMMA StepNext ==
  ASSUME RowInv, Next
  PROVE  \A x \in Tasks : FencedStep(x)
<1> USE StoreAssumption DEF RowInv, RowTypes, RoundMatchesTask, LeaseMatchesRound,
       TaskStatus, LiveStatus, EndedStatus, TerminalStatus, Intents, Round, ActiveRound,
       ClosedRound, NoRound, HasActiveRound
<1> USE DEF FencedStep, TerminalIsFinalStep, IntentIsHonouredStep, EpochFencesStep
<1> USE DEF byteVars, holdVars, taskVars, ReleaseHoldings, DropHolds, ReleasedKinds,
       FenceHolds, Unleased
<1>1. ASSUME NEW t \in Tasks, CreateTask(t) PROVE \A x \in Tasks : FencedStep(x)
  BY <1>1, SMTT(60) DEF CreateTask
<1>2. ASSUME NEW t \in Tasks, NEW n \in Sizes, CommitInput(t, n) PROVE \A x \in Tasks : FencedStep(x)
  BY <1>2, SMTT(60) DEF CommitInput, FreshRound
<1>3. ASSUME NEW t \in Tasks, NEW k \in {"aborted", "completed"}, EndTask(t, k) PROVE \A x \in Tasks : FencedStep(x)
  <2>1. CASE RequestTerminalWhileRunning(t, k)
    BY <2>1, SMTT(60) DEF RequestTerminalWhileRunning
  <2>2. CASE TerminalizeQueued(t, k)
    BY <2>2, SMTT(60) DEF TerminalizeQueued
  <2>3. CASE FinalizeTerminal(t, k)
    BY <2>3, SMTT(60) DEF FinalizeTerminal
  <2> QED BY <1>3, <2>1, <2>2, <2>3 DEF EndTask
<1>4. ASSUME NEW t \in Tasks, DeleteTask(t) PROVE \A x \in Tasks : FencedStep(x)
  BY <1>4, SMTT(60) DEF DeleteTask
<1>5. ASSUME NEW t \in Tasks, SendMessage(t) PROVE \A x \in Tasks : FencedStep(x)
  BY <1>5, SMTT(60) DEF SendMessage, FreshRound
<1>6. ASSUME NEW t \in Tasks, NEW i \in Instances, ClaimRound(t, i) PROVE \A x \in Tasks : FencedStep(x)
  BY <1>6, SMTT(60) DEF ClaimRound, FreeSlots, Claimed
<1>7. ASSUME NEW t \in Tasks, LeaseExpires(t) PROVE \A x \in Tasks : FencedStep(x)
  BY <1>7, SMTT(60) DEF LeaseExpires
<1>8. ASSUME NEW t \in Tasks, CancelCancellingRound(t, round[t].no) PROVE \A x \in Tasks : FencedStep(x)
  BY <1>8, SMTT(60) DEF CancelCancellingRound
<1>9. ASSUME NEW t \in Tasks, SweepUploadTtl(t) PROVE \A x \in Tasks : FencedStep(x)
  BY <1>9, SMTT(60) DEF SweepUploadTtl
<1>10. ASSUME NEW t \in Tasks, SweepTerminalCleanup(t) PROVE \A x \in Tasks : FencedStep(x)
  BY <1>10, SMTT(60) DEF SweepTerminalCleanup
<1>11. ASSUME NEW t \in Tasks, ReconcilePendingTerminal(t) PROVE \A x \in Tasks : FencedStep(x)
  BY <1>11, SMTT(60) DEF ReconcilePendingTerminal
<1>12. ASSUME NEW t \in Tasks, TerminateTask(t) PROVE \A x \in Tasks : FencedStep(x)
  BY <1>12, SMTT(60) DEF TerminateTask
<1>13. ASSUME NEW t \in Tasks, NEW n, NEW i, NEW e, LeaseStep(t, n, i, e) PROVE \A x \in Tasks : FencedStep(x)
  <2>1. CASE ReclaimExpiredRound(t, n, i, e)
    BY <2>1, SMTT(60) DEF ReclaimExpiredRound
  <2>2. CASE RenewLease(t, n, i, e)
    BY <2>2, SMTT(60) DEF RenewLease
  <2>3. ASSUME NEW r \in BOOLEAN, Settle(t, n, i, e, r) PROVE \A x \in Tasks : FencedStep(x)
    BY <2>3, SMTT(60) DEF Settle
  <2>4. CASE FailOnDeadline(t, n, i, e)
    BY <2>4, SMTT(60) DEF FailOnDeadline
  <2>5. ASSUME NEW b, NEW old, RegisterOutput(t, n, e, b, old) PROVE \A x \in Tasks : FencedStep(x)
    BY <2>5, SMTT(60) DEF RegisterOutput
  <2> QED BY <1>13, <2>1, <2>2, <2>3, <2>4, <2>5 DEF LeaseStep
<1>14. ASSUME NEW u \in Users, UserStep(u) PROVE \A x \in Tasks : FencedStep(x)
  <2>1. CASE TerminateUserTasks(u)
    BY <2>1, SMTT(60) DEF TerminateUserTasks, TasksOf
  <2>2. CASE FailUnstartedTasks(u)
    BY <2>2, SMTT(60) DEF FailUnstartedTasks, TasksOf
  <2> QED BY <1>14, <2>1, <2>2 DEF UserStep
<1> QED
  BY <1>1, <1>2, <1>3, <1>4, <1>5, <1>6, <1>7, <1>8, <1>9, <1>10, <1>11, <1>12, <1>13, <1>14
  DEF Next, OwnerStep, JobStep, AbortTask, CompleteTask


\* The three action properties hold of every step of every behaviour.
LEMMA StepsFenced == Spec => [][\A t \in Tasks : FencedStep(t)]_storeVars
<1>1. Inv /\ [Next]_storeVars => [\A t \in Tasks : FencedStep(t)]_storeVars
  BY InvParts, StepNext
<1> QED BY <1>1, Invariance, PTL DEF Spec

\* A terminal status is final.
THEOREM TerminalStaysFinal == Spec => TerminalIsFinal
<1>1. [\A t \in Tasks : FencedStep(t)]_storeVars => [\A t \in Tasks : TerminalIsFinalStep(t)]_storeVars
  BY DEF FencedStep
<1> QED BY <1>1, StepsFenced, PTL DEF TerminalIsFinal

\* An accepted abort or complete is never undone.
THEOREM IntentsAreHonoured == Spec => IntentIsHonoured
<1>1. [\A t \in Tasks : FencedStep(t)]_storeVars => [\A t \in Tasks : IntentIsHonouredStep(t)]_storeVars
  BY DEF FencedStep
<1> QED BY <1>1, StepsFenced, PTL DEF IntentIsHonoured

\* A lease token that was fenced out is never valid again.
THEOREM EpochsFence == Spec => EpochFences
<1>1. [\A t \in Tasks : FencedStep(t)]_storeVars => [\A t \in Tasks : EpochFencesStep(t)]_storeVars
  BY DEF FencedStep
<1> QED BY <1>1, StepsFenced, PTL DEF EpochFences

--------------------------------------------------------------------------------
(* Sums over finite sets: induction over the subsets, from the least counterexample *)

\* A nonempty set of natural numbers has a least member.
LEMMA SmallestNumber ==
  ASSUME NEW N, N \subseteq Nat, N # {}
  PROVE  \E m \in N : \A n \in N : m <= n
<1>1. PICK R : R = {p \in Nat \X Nat : p[1] < p[2]} OBVIOUS
<1>2. IsWellFoundedOn(R, Nat) BY <1>1, NatLessThanWellFounded DEF OpToRel
<1>3. PICK m \in N : \A n \in N : ~ <<n, m>> \in R BY <1>2, WFMin, Zenon
<1>4. ASSUME NEW n \in N PROVE m <= n
  <2>1. <<n, m>> \in Nat \X Nat /\ ~ <<n, m>> \in R BY <1>3
  <2>2. ~ n < m BY <2>1, <1>1
  <2> QED BY <2>2
<1> QED BY <1>4

\* Induction on a finite set.
LEMMA SubsetInduction ==
  ASSUME NEW S, IsFiniteSet(S), NEW Good,
         \A T \in SUBSET S : (\A R \in SUBSET T : R # T => R \in Good) => T \in Good
  PROVE  \A T \in SUBSET S : T \in Good
<1> SUFFICES ASSUME NEW T0 \in SUBSET S, T0 \notin Good PROVE FALSE OBVIOUS
<1>1. \A T \in SUBSET S : IsFiniteSet(T) /\ Cardinality(T) \in Nat
  BY FS_Subset, FS_CardinalityType
<1>2. PICK B : B = {T \in SUBSET S : T \notin Good} OBVIOUS
<1>3. PICK N : N = {Cardinality(T) : T \in B} OBVIOUS
<1>4. N \subseteq Nat /\ N # {} BY <1>1, <1>2, <1>3
<1>5. PICK m \in N : \A n \in N : m <= n BY <1>4, SmallestNumber
<1>6. PICK T \in B : m = Cardinality(T) BY <1>3, <1>5
<1>7. ASSUME NEW R \in SUBSET T, R # T PROVE R \in Good
  <2>1. Cardinality(R) <= Cardinality(T) /\ Cardinality(R) # Cardinality(T)
    BY <1>1, <1>2, <1>6, <1>7, FS_Subset
  <2>2. R \in SUBSET S BY <1>2, <1>6
  <2>3. Cardinality(R) \in Nat /\ Cardinality(T) \in Nat BY <2>2, <1>1, <1>2, <1>6
  <2>4. ~ Cardinality(T) <= Cardinality(R) BY <2>1, <2>3
  <2>5. R \notin B BY <2>4, <1>5, <1>6, <1>3
  <2> QED BY <2>2, <2>5, <1>2
<1>8. T \in Good BY <1>7, <1>2, <1>6
<1> QED BY <1>8, <1>2, <1>6

--------------------------------------------------------------------------------
(* Sums over finite sets *)

\* The element the fold of a set takes first.
Chosen(s) == CHOOSE x \in s : TRUE

\* The chosen element is one of the set.
LEMMA ChosenIn == ASSUME NEW s, s # {} PROVE Chosen(s) \in s BY DEF Chosen

\* The table g of the sums of f over the subsets of S, as the fold computes it.
SumStep(g, f, S) ==
    g = [s \in SUBSET S |-> IF s = {} THEN 0 ELSE f[Chosen(s)] + g[s \ {Chosen(s)}]]

\* One entry of the table.
LEMMA SumStepAt ==
  ASSUME NEW f, NEW g, NEW S, SumStep(g, f, S), NEW s \in SUBSET S
  PROVE  /\ s = {} => g[s] = 0
         /\ s # {} => g[s] = f[Chosen(s)] + g[s \ {Chosen(s)}]
BY DEF SumStep

\* Two such tables agree where both are defined, even if the functions differ elsewhere.
LEMMA SumStepUnique ==
  ASSUME NEW f, NEW f2, NEW g, NEW h, NEW S, NEW S2, SumStep(g, f, S), SumStep(h, f2, S2),
         NEW T, IsFiniteSet(T), T \subseteq S, T \subseteq S2, \A x \in T : f[x] = f2[x]
  PROVE  g[T] = h[T]
<1>1. PICK G : G = {r \in SUBSET T : g[r] = h[r]} OBVIOUS
<1>2. ASSUME NEW r \in SUBSET T, \A q \in SUBSET r : q # r => q \in G PROVE r \in G
  <2>0. r \in SUBSET S /\ r \in SUBSET S2 OBVIOUS
  <2>1. CASE r = {}
    <3>1. g[r] = 0 /\ h[r] = 0 BY <2>0, <2>1 DEF SumStep
    <3> QED BY <3>1, <1>1
  <2>2. CASE r # {}
    <3>1. Chosen(r) \in r BY <2>2, ChosenIn
    <3>2. r \ {Chosen(r)} \in G BY <3>1, <1>2
    <3>3. g[r] = f[Chosen(r)] + g[r \ {Chosen(r)}] BY <2>0, <2>2 DEF SumStep
    <3>4. h[r] = f2[Chosen(r)] + h[r \ {Chosen(r)}] BY <2>0, <2>2 DEF SumStep
    <3>5. g[r] = h[r] BY <3>1, <3>2, <3>3, <3>4, <1>1
    <3> QED BY <3>5, <1>1
  <2> QED BY <2>1, <2>2
<1>3. T \in G BY <1>2, SubsetInduction, Zenon
<1> QED BY <1>3, <1>1

\* The table of sums of f below S, and the sum itself.
TableOf(f, S) == CHOOSE g : SumStep(g, f, S)

\* The table by which the sum over a finite set is computed exists.
LEMMA SumStepExists ==
  ASSUME NEW f, NEW S, IsFiniteSet(S)
  PROVE  \E g : SumStep(g, f, S)
<1>1. PICK G : G = {T \in SUBSET S : \E g : SumStep(g, f, T)} OBVIOUS
<1>2. ASSUME NEW T \in SUBSET S, \A R \in SUBSET T : R # T => R \in G PROVE T \in G
  <2>1. ASSUME NEW R \in SUBSET T, R # T PROVE SumStep(TableOf(f, R), f, R)
    <3>1. \E g : SumStep(g, f, R) BY <1>1, <1>2, <2>1
    <3> QED BY <3>1, Zenon DEF TableOf
  <2>2. PICK g : g = [s \in SUBSET T |-> IF s = {} THEN 0 ELSE
                        f[Chosen(s)] + TableOf(f, s \ {Chosen(s)})[s \ {Chosen(s)}]]
    OBVIOUS
  <2>3. ASSUME NEW s \in SUBSET T, s # {}
        PROVE  g[s \ {Chosen(s)}] = TableOf(f, s \ {Chosen(s)})[s \ {Chosen(s)}]
    <3>1. PICK r : r = s \ {Chosen(s)} OBVIOUS
    <3>2. Chosen(s) \in s BY <2>3, ChosenIn
    <3>3. r \in SUBSET T /\ r # T BY <3>1, <3>2
    <3>4. SumStep(TableOf(f, r), f, r) BY <3>3, <2>1
    <3>5. CASE r = {} BY <3>5, <3>4, <2>2, <3>3, <3>1, SumStepAt
    <3>6. CASE r # {}
      <4>1. PICK q : q = r \ {Chosen(r)} OBVIOUS
      <4>2. Chosen(r) \in r BY <3>6, ChosenIn
      <4>3. q \in SUBSET T /\ q # T /\ q \in SUBSET r BY <4>1, <4>2, <3>3
      <4>4. SumStep(TableOf(f, q), f, q) BY <4>3, <2>1
      <4>5. IsFiniteSet(q) BY <4>3, FS_Subset
      <4>6. TableOf(f, q)[q] = TableOf(f, r)[q]
        BY <4>3, <4>4, <4>5, <3>4, SumStepUnique
      <4>7. g[r] = f[Chosen(r)] + TableOf(f, q)[q] BY <2>2, <3>3, <3>6, <4>1
      <4>8. TableOf(f, r)[r] = f[Chosen(r)] + TableOf(f, r)[q]
        <5>1. r \in SUBSET r OBVIOUS
        <5> QED BY <5>1, <3>4, <3>6, <4>1, SumStepAt
      <4> QED BY <4>6, <4>7, <4>8, <3>1
    <3> QED BY <3>5, <3>6
  <2>4. g = [s \in SUBSET T |-> IF s = {} THEN 0 ELSE f[Chosen(s)] + g[s \ {Chosen(s)}]]
    BY <2>2, <2>3
  <2>5. \E h : SumStep(h, f, T) BY <2>4, Zenon DEF SumStep
  <2> QED BY <2>5, <1>1
<1>3. S \in G BY <1>2, SubsetInduction, Zenon
<1> QED BY <1>3, <1>1

\* So the chosen table is one.
LEMMA TableOfStep ==
  ASSUME NEW f, NEW S, IsFiniteSet(S)
  PROVE  SumStep(TableOf(f, S), f, S)
BY SumStepExists, Zenon DEF TableOf

SumOf(f, T) == TableOf(f, T)[T]

\* The sum, with the element the fold takes first taken out.
LEMMA SumOfUnfold ==
  ASSUME NEW f, NEW T, IsFiniteSet(T), T # {}
  PROVE  /\ Chosen(T) \in T
         /\ SumOf(f, T) = f[Chosen(T)] + SumOf(f, T \ {Chosen(T)})
<1>1. Chosen(T) \in T BY ChosenIn
<1>2. PICK q : q = T \ {Chosen(T)} OBVIOUS
<1>3. IsFiniteSet(q) /\ q \in SUBSET T /\ T \in SUBSET T BY <1>2, FS_Subset
<1>4. SumStep(TableOf(f, T), f, T) /\ SumStep(TableOf(f, q), f, q) BY <1>3, TableOfStep
<1>5. TableOf(f, q)[q] = TableOf(f, T)[q] BY <1>3, <1>4, SumStepUnique
<1>6. TableOf(f, T)[T] = f[Chosen(T)] + TableOf(f, T)[q] BY <1>2, <1>3, <1>4, SumStepAt
<1>7. SumOf(f, T) = f[Chosen(T)] + SumOf(f, q) BY <1>5, <1>6 DEF SumOf
<1> QED BY <1>1, <1>2, <1>7

\* Nothing sums to zero.
LEMMA SumOfEmpty == ASSUME NEW f PROVE SumOf(f, {}) = 0
<1>1. IsFiniteSet({}) BY FS_EmptySet
<1>2. SumStep(TableOf(f, {}), f, {}) BY <1>1, TableOfStep
<1>3. {} \in SUBSET {} OBVIOUS
<1> QED BY <1>2, <1>3, SumStepAt DEF SumOf

\* Functions that agree on a set have the same sum over it.
LEMMA SumOfSame ==
  ASSUME NEW f, NEW g, NEW T, IsFiniteSet(T), \A x \in T : f[x] = g[x]
  PROVE  SumOf(f, T) = SumOf(g, T)
<1>1. SumStep(TableOf(f, T), f, T) /\ SumStep(TableOf(g, T), g, T) BY TableOfStep
<1> QED BY <1>1, SumStepUnique DEF SumOf

\* Natural numbers sum to a natural number.
LEMMA SumOfNat ==
  ASSUME NEW f, NEW T, IsFiniteSet(T), \A x \in T : f[x] \in Nat
  PROVE  SumOf(f, T) \in Nat
<1>1. PICK G : G = {r \in SUBSET T : SumOf(f, r) \in Nat} OBVIOUS
<1>2. ASSUME NEW r \in SUBSET T, \A q \in SUBSET r : q # r => q \in G PROVE r \in G
  <2>1. CASE r = {} BY <2>1, <1>1, SumOfEmpty
  <2>2. CASE r # {}
    <3>1. IsFiniteSet(r) BY FS_Subset
    <3>2. Chosen(r) \in r /\ SumOf(f, r) = f[Chosen(r)] + SumOf(f, r \ {Chosen(r)})
      BY <2>2, <3>1, SumOfUnfold
    <3>3. r \ {Chosen(r)} \in G BY <3>2, <1>2
    <3>4. SumOf(f, r \ {Chosen(r)}) \in Nat /\ f[Chosen(r)] \in Nat BY <3>2, <3>3, <1>1
    <3>5. SumOf(f, r) \in Nat BY <3>2, <3>4
    <3> QED BY <3>5, <1>1
  <2> QED BY <2>1, <2>2
<1>3. T \in G BY <1>2, SubsetInduction, Zenon
<1> QED BY <1>3, <1>1

\* The arithmetic of taking two elements out in either order.
LEMMA SwapSum == ASSUME NEW a \in Nat, NEW b \in Nat, NEW c \in Nat
                 PROVE  a + (b + c) = b + (a + c)
OBVIOUS

\* Any element may be taken out first.
LEMMA SumOfElement ==
  ASSUME NEW f, NEW T, IsFiniteSet(T), \A x \in T : f[x] \in Nat, NEW x \in T
  PROVE  SumOf(f, T) = f[x] + SumOf(f, T \ {x})
<1>1. PICK G : G = {r \in SUBSET T : \A y \in r : SumOf(f, r) = f[y] + SumOf(f, r \ {y})}
  OBVIOUS
<1>2. ASSUME NEW r \in SUBSET T, \A q \in SUBSET r : q # r => q \in G PROVE r \in G
  <2> SUFFICES ASSUME NEW y \in r PROVE SumOf(f, r) = f[y] + SumOf(f, r \ {y}) BY <1>1
  <2>1. PICK c : c = Chosen(r) OBVIOUS
  <2>2. IsFiniteSet(r) BY FS_Subset
  <2>3. c \in r /\ SumOf(f, r) = f[c] + SumOf(f, r \ {c}) BY <2>1, <2>2, SumOfUnfold
  <2>4. CASE c = y BY <2>3, <2>4
  <2>5. CASE c # y
    <3>1. r \ {c} \in G /\ y \in r \ {c} BY <2>3, <2>5, <1>2
    <3>2. r \ {y} \in G /\ c \in r \ {y} BY <2>3, <2>5, <1>2
    <3>3. (r \ {c}) \ {y} = (r \ {y}) \ {c} OBVIOUS
    <3>4. PICK q : q = (r \ {c}) \ {y} OBVIOUS
    <3>5. SumOf(f, r \ {c}) = f[y] + SumOf(f, q) BY <3>1, <3>4, <1>1
    <3>6. SumOf(f, r \ {y}) = f[c] + SumOf(f, q) BY <3>2, <3>3, <3>4, <1>1
    <3>7. SumOf(f, q) \in Nat
      <4>1. q \in SUBSET T BY <3>4
      <4>2. IsFiniteSet(q) /\ \A z \in q : f[z] \in Nat BY <4>1, FS_Subset
      <4> QED BY <4>2, SumOfNat
    <3>8. f[c] \in Nat /\ f[y] \in Nat BY <2>3
    <3>9. f[c] + (f[y] + SumOf(f, q)) = f[y] + (f[c] + SumOf(f, q)) BY <3>7, <3>8, SwapSum
    <3> QED BY <2>3, <3>5, <3>6, <3>9
  <2> QED BY <2>4, <2>5
<1>3. T \in G BY <1>2, SubsetInduction, Zenon
<1> QED BY <1>3, <1>1
\* The sum over a set is the sum over a part of it and over the rest.
LEMMA SumOfSplit ==
  ASSUME NEW f, NEW T, IsFiniteSet(T), \A x \in T : f[x] \in Nat, NEW R \in SUBSET T
  PROVE  SumOf(f, T) = SumOf(f, R) + SumOf(f, T \ R)
<1>0. IsFiniteSet(R) BY FS_Subset
<1>1. PICK G : G = {r \in SUBSET R : SumOf(f, T) = SumOf(f, r) + SumOf(f, T \ r)} OBVIOUS
<1>2. ASSUME NEW r \in SUBSET R, \A q \in SUBSET r : q # r => q \in G PROVE r \in G
  <2>1. CASE r = {}
    <3>1. T \ r = T /\ SumOf(f, r) = 0 BY <2>1, SumOfEmpty
    <3>2. SumOf(f, T) \in Nat BY SumOfNat
    <3> QED BY <3>1, <3>2, <1>1
  <2>2. CASE r # {}
    <3>1. PICK y \in r : TRUE BY <2>2
    <3>2. PICK q : q = r \ {y} OBVIOUS
    <3>3. q \in G BY <3>1, <3>2, <1>2
    <3>4. SumOf(f, T) = SumOf(f, q) + SumOf(f, T \ q) BY <3>3, <1>1
    <3>5. y \in T \ q /\ (T \ q) \ {y} = T \ r BY <3>1, <3>2
    <3>6. T \ q \in SUBSET T /\ T \ r \in SUBSET T /\ q \in SUBSET T /\ r \in SUBSET T
      BY <3>2
    <3>7. /\ IsFiniteSet(T \ q) /\ IsFiniteSet(T \ r) /\ IsFiniteSet(q) /\ IsFiniteSet(r)
      BY <3>6, FS_Subset
    <3>8. SumOf(f, T \ q) = f[y] + SumOf(f, T \ r)
      <4>1. \A x \in T \ q : f[x] \in Nat BY <3>6
      <4> QED BY <4>1, <3>5, <3>7, SumOfElement
    <3>9. SumOf(f, r) = f[y] + SumOf(f, q)
      <4>1. \A x \in r : f[x] \in Nat BY <3>6
      <4> QED BY <4>1, <3>1, <3>2, <3>7, SumOfElement
    <3>10. SumOf(f, q) \in Nat /\ SumOf(f, T \ r) \in Nat /\ f[y] \in Nat
      <4>1. \A x \in q : f[x] \in Nat BY <3>6
      <4>2. \A x \in T \ r : f[x] \in Nat BY <3>6
      <4> QED BY <4>1, <4>2, <3>7, <3>1, SumOfNat
    <3>11. SumOf(f, q) + (f[y] + SumOf(f, T \ r)) = (f[y] + SumOf(f, q)) + SumOf(f, T \ r)
      BY <3>10
    <3>12. SumOf(f, T) = SumOf(f, r) + SumOf(f, T \ r) BY <3>4, <3>8, <3>9, <3>11
    <3> QED BY <3>12, <1>1
  <2> QED BY <2>1, <2>2
<1>3. R \in G BY <1>0, <1>2, SubsetInduction, Zenon
<1> QED BY <1>3, <1>1

\* A part weighs no more than the whole.
LEMMA SumOfPart ==
  ASSUME NEW f, NEW T, IsFiniteSet(T), \A x \in T : f[x] \in Nat, NEW R \in SUBSET T
  PROVE  /\ SumOf(f, R) \in Nat /\ SumOf(f, T \ R) \in Nat /\ SumOf(f, T) \in Nat
         /\ SumOf(f, R) <= SumOf(f, T)
         /\ SumOf(f, T \ R) = SumOf(f, T) - SumOf(f, R)
<1>1. IsFiniteSet(R) /\ IsFiniteSet(T \ R) BY FS_Subset
<1>2. SumOf(f, R) \in Nat /\ SumOf(f, T \ R) \in Nat /\ SumOf(f, T) \in Nat BY <1>1, SumOfNat
<1>3. SumOf(f, T) = SumOf(f, R) + SumOf(f, T \ R) BY SumOfSplit
<1> QED BY <1>2, <1>3

\* Zeros sum to zero.
LEMMA SumOfZero ==
  ASSUME NEW f, NEW T, IsFiniteSet(T), \A x \in T : f[x] = 0
  PROVE  SumOf(f, T) = 0
<1>1. PICK G : G = {r \in SUBSET T : SumOf(f, r) = 0} OBVIOUS
<1>2. ASSUME NEW r \in SUBSET T, \A q \in SUBSET r : q # r => q \in G PROVE r \in G
  <2>1. CASE r = {} BY <2>1, <1>1, SumOfEmpty
  <2>2. CASE r # {}
    <3>1. IsFiniteSet(r) BY FS_Subset
    <3>2. Chosen(r) \in r /\ SumOf(f, r) = f[Chosen(r)] + SumOf(f, r \ {Chosen(r)})
      BY <2>2, <3>1, SumOfUnfold
    <3>3. r \ {Chosen(r)} \in G BY <3>2, <1>2
    <3>4. SumOf(f, r) = 0 BY <3>2, <3>3, <1>1
    <3> QED BY <3>4, <1>1
  <2> QED BY <2>1, <2>2
<1>3. T \in G BY <1>2, SubsetInduction, Zenon
<1> QED BY <1>3, <1>1

\* g is f with the part R of T set to zero: what is left of the sum.
Cleared(f, g, T, R) ==
    /\ SumOf(g, T) \in Nat /\ SumOf(f, T \cap R) \in Nat /\ SumOf(f, T) \in Nat
    /\ SumOf(g, T) = SumOf(f, T) - SumOf(f, T \cap R)

\* A function cleared on a part R of T.
LEMMA SumOfCleared ==
  ASSUME NEW f, NEW g, NEW T, IsFiniteSet(T), \A x \in T : f[x] \in Nat, NEW R,
         \A x \in T : g[x] = IF x \in R THEN 0 ELSE f[x]
  PROVE  Cleared(f, g, T, R)
<1>1. PICK A, B : A = T \cap R /\ B = T \ A OBVIOUS
<1>2. A \in SUBSET T /\ B \in SUBSET T BY <1>1
<1>3. IsFiniteSet(A) /\ IsFiniteSet(B) BY <1>2, FS_Subset
<1>4. SumOf(g, A) = 0
  <2>1. \A x \in A : g[x] = 0 BY <1>1
  <2> QED BY <2>1, <1>3, SumOfZero
<1>5. SumOf(g, B) = SumOf(f, B)
  <2>1. \A x \in B : g[x] = f[x] BY <1>1
  <2> QED BY <2>1, <1>3, SumOfSame
<1>6. SumOf(g, T) = SumOf(g, A) + SumOf(g, B)
  <2>1. \A x \in T : g[x] \in Nat OBVIOUS
  <2> QED BY <2>1, <1>1, <1>2, SumOfSplit
<1>7. /\ SumOf(f, A) \in Nat /\ SumOf(f, B) \in Nat /\ SumOf(f, T) \in Nat
      /\ SumOf(f, B) = SumOf(f, T) - SumOf(f, A)
  BY <1>1, <1>2, SumOfPart
<1>8. SumOf(g, T) = SumOf(f, B) BY <1>4, <1>5, <1>6, <1>7
<1> QED BY <1>7, <1>8, <1>1 DEF Cleared

\* g is f with another value at y: the sum moves by the difference.
Changed(f, g, T, y) ==
    /\ SumOf(f, T) \in Nat /\ SumOf(g, T) \in Nat
    /\ SumOf(g, T) = SumOf(f, T) - f[y] + g[y]

\* A function changed at one element.
LEMMA SumOfChange ==
  ASSUME NEW f, NEW g, NEW T, IsFiniteSet(T), \A x \in T : f[x] \in Nat, NEW y \in T,
         g[y] \in Nat, \A x \in T : x # y => g[x] = f[x]
  PROVE  Changed(f, g, T, y)
<1>1. PICK q : q = T \ {y} OBVIOUS
<1>2. q \in SUBSET T BY <1>1
<1>3. IsFiniteSet(q) BY <1>2, FS_Subset
<1>4. \A x \in T : g[x] \in Nat OBVIOUS
<1>5. SumOf(g, T) = g[y] + SumOf(g, q) BY <1>1, <1>4, SumOfElement
<1>6. SumOf(f, T) = f[y] + SumOf(f, q) BY <1>1, SumOfElement
<1>7. SumOf(g, q) = SumOf(f, q)
  <2>1. \A x \in q : g[x] = f[x] BY <1>1
  <2> QED BY <2>1, <1>3, SumOfSame
<1>8. SumOf(f, q) \in Nat BY <1>2, <1>3, SumOfNat
<1>9. f[y] \in Nat OBVIOUS
<1> QED BY <1>5, <1>6, <1>7, <1>8, <1>9 DEF Changed


--------------------------------------------------------------------------------
(* The byte account *)

\* The bytes every task holds, as a function.
BytesOf == [t \in Tasks |-> BytesHeld(t)]

\* The sum of bytes in the model is the sum over that function, now and in the next
\* state.
LEMMA HeldSum ==
  ASSUME NEW T \in SUBSET Tasks
  PROVE  MapThenSumSet(BytesHeld, T) = SumOf(BytesOf, T)
<1>0. IsFiniteSet(T) BY StoreAssumption, FS_Subset
<1>1. SumStep(TableOf(BytesOf, T), BytesOf, T) BY <1>0, TableOfStep
<1>2. \A s \in SUBSET T : s # {} => Chosen(s) \in Tasks BY DEF Chosen
<1>3. PICK g : g = [s \in SUBSET T |-> IF s = {} THEN 0
                                       ELSE BytesHeld(Chosen(s)) + g[s \ {Chosen(s)}]]
  BY <1>1, <1>2 DEF SumStep, BytesOf
<1>4. PICK h : h = CHOOSE k : k = [s \in SUBSET T |-> IF s = {} THEN 0
                                       ELSE BytesHeld(Chosen(s)) + k[s \ {Chosen(s)}]] OBVIOUS
<1>5. h = [s \in SUBSET T |-> IF s = {} THEN 0 ELSE BytesHeld(Chosen(s)) + h[s \ {Chosen(s)}]]
  BY <1>3, <1>4, Zenon
<1>6. h[T] = MapThenSumSet(BytesHeld, T)
  BY <1>4, Zenon DEF MapThenSumSet, MapThenFoldSet, Chosen
<1>7. SumStep(h, BytesOf, T)
  BY <1>2, <1>5 DEF SumStep, BytesOf
<1>8. h[T] = TableOf(BytesOf, T)[T]
  BY <1>0, <1>1, <1>7, SumStepUnique
<1> QED BY <1>6, <1>8 DEF SumOf

\* The same of the state after the transaction.
LEMMA HeldSumNext ==
  ASSUME NEW T \in SUBSET Tasks
  PROVE  MapThenSumSet(BytesHeld, T)' = SumOf(BytesOf', T)
<1>0. IsFiniteSet(T) BY StoreAssumption, FS_Subset
<1>1. SumStep(TableOf(BytesOf', T), BytesOf', T) BY <1>0, TableOfStep
<1>2. \A s \in SUBSET T : s # {} => Chosen(s) \in Tasks BY DEF Chosen
<1>3. PICK g : g = [s \in SUBSET T |-> IF s = {} THEN 0
                                       ELSE BytesHeld(Chosen(s))' + g[s \ {Chosen(s)}]]
  BY <1>1, <1>2 DEF SumStep, BytesOf
<1>4. PICK h : h = CHOOSE k : k = [s \in SUBSET T |-> IF s = {} THEN 0
                                       ELSE BytesHeld(Chosen(s))' + k[s \ {Chosen(s)}]] OBVIOUS
<1>5. h = [s \in SUBSET T |-> IF s = {} THEN 0 ELSE BytesHeld(Chosen(s))' + h[s \ {Chosen(s)}]]
  BY <1>3, <1>4, Zenon
<1>6. h[T] = MapThenSumSet(BytesHeld, T)'
  BY <1>4, Zenon DEF MapThenSumSet, MapThenFoldSet, Chosen
<1>7. SumStep(h, BytesOf', T)
  BY <1>2, <1>5 DEF SumStep, BytesOf
<1>8. h[T] = TableOf(BytesOf', T)[T]
  BY <1>0, <1>1, <1>7, SumStepUnique
<1> QED BY <1>6, <1>8 DEF SumOf

\* The sum of the users' accounts in the model is the sum of their function.
LEMMA UserSum ==
  ASSUME NEW s
  PROVE  MapThenSumSet(LAMBDA u : s[u], Users) = SumOf(s, Users)
<1>1. SumStep(TableOf(s, Users), s, Users) BY StoreAssumption, TableOfStep
<1>4. PICK h : h = CHOOSE g : SumStep(g, s, Users) OBVIOUS
<1>6. h[Users] = MapThenSumSet(LAMBDA u : s[u], Users)
  BY <1>4, Zenon DEF MapThenSumSet, MapThenFoldSet, Chosen, SumStep
<1> QED BY <1>4, <1>6 DEF SumOf, TableOf

\* The account s of the users and p of the platform covers the bytes b of the tasks.
Covers(b, s, p) ==
    /\ b \in [Tasks -> Nat] /\ s \in [Users -> Nat]
    /\ \A u \in Users : SumOf(b, TasksOf(u)) <= s[u]
    /\ p = SumOf(s, Users)

\* Every account is a number that covers what its user holds and fits the platform's.
LEMMA AccountNumbers ==
  ASSUME NEW b, NEW s, NEW p, Covers(b, s, p), NEW u \in Users
  PROVE  /\ p \in Nat /\ s[u] \in Nat /\ s[u] <= p
         /\ IsFiniteSet(TasksOf(u))
         /\ SumOf(b, TasksOf(u)) \in Nat
         /\ SumOf(b, TasksOf(u)) <= s[u]
<1>1. TasksOf(u) \in SUBSET Tasks BY DEF TasksOf
<1>2. IsFiniteSet(TasksOf(u)) BY <1>1, StoreAssumption, FS_Subset
<1>3. \A x \in TasksOf(u) : b[x] \in Nat BY <1>1 DEF Covers
<1>4. SumOf(b, TasksOf(u)) \in Nat BY <1>2, <1>3, SumOfNat
<1>5. IsFiniteSet(Users) /\ \A x \in Users : s[x] \in Nat BY StoreAssumption DEF Covers
<1>6. SumOf(s, Users) = s[u] + SumOf(s, Users \ {u}) BY <1>5, SumOfElement
<1>7. SumOf(s, Users \ {u}) \in Nat
  <2>1. IsFiniteSet(Users \ {u}) BY <1>5, FS_Subset
  <2> QED BY <2>1, <1>5, SumOfNat
<1>8. s[u] \in Nat BY <1>5
<1> QED BY <1>2, <1>4, <1>6, <1>7, <1>8 DEF Covers

\* s2 is s with the account of u at k.
Moved(s, s2, u, k) ==
    /\ s2 \in [Users -> Nat] /\ s2[u] = k
    /\ \A v \in Users \ {u} : s2[v] = s[v]
    /\ SumOf(s2, Users) = SumOf(s, Users) - s[u] + k

\* Changing one user's account by some amount changes the platform's by as much.
LEMMA AccountMoves ==
  ASSUME NEW s \in [Users -> Nat], NEW u \in Users, NEW k \in Nat,
         NEW s2, s2 = [s EXCEPT ![u] = k]
  PROVE  Moved(s, s2, u, k)
<1>2. /\ s2 \in [Users -> Nat] /\ s2[u] = k
      /\ \A v \in Users : v # u => s2[v] = s[v]
  OBVIOUS
<1>3. IsFiniteSet(Users) /\ \A x \in Users : s[x] \in Nat BY StoreAssumption
<1>4. SumOf(s, Users) \in Nat /\ SumOf(s2, Users) = SumOf(s, Users) - s[u] + s2[u]
  <2>1. s2[u] \in Nat BY <1>2
  <2>2. \A x \in Users : x # u => s2[x] = s[x] BY <1>2
  <2>3. Changed(s, s2, Users, u) BY <2>1, <2>2, <1>3, SumOfChange
  <2> QED BY <2>3 DEF Changed
<1> QED BY <1>2, <1>4 DEF Moved

\* A refund of the rows T of one user meets neither floor.
LEMMA RefundCovers ==
  ASSUME NEW b, NEW s, NEW p, Covers(b, s, p), NEW u \in Users, NEW T \in SUBSET TasksOf(u),
         NEW b2 \in [Tasks -> Nat], \A t \in Tasks : b2[t] = IF t \in T THEN 0 ELSE b[t]
  PROVE  Covers(b2, [s EXCEPT ![u] = Lower(@, SumOf(b, T))], Lower(p, SumOf(b, T)))
<1>1. PICK n : n = SumOf(b, T) OBVIOUS
<1>2. /\ p \in Nat /\ s[u] \in Nat /\ s[u] <= p /\ IsFiniteSet(TasksOf(u))
      /\ SumOf(b, TasksOf(u)) \in Nat /\ SumOf(b, TasksOf(u)) <= s[u]
  BY AccountNumbers
<1>3. \A v \in Users : TasksOf(v) \in SUBSET Tasks BY DEF TasksOf
<1>4. \A x \in TasksOf(u) : b[x] \in Nat BY <1>3 DEF Covers
<1>5. /\ SumOf(b2, TasksOf(u)) \in Nat /\ n \in Nat
      /\ SumOf(b2, TasksOf(u)) = SumOf(b, TasksOf(u)) - n
  <2>1. PICK D : D = TasksOf(u) OBVIOUS
  <2>2. D \cap T = T BY <2>1
  <2>3. \A x \in D : b2[x] = IF x \in T THEN 0 ELSE b[x] BY <1>3, <2>1
  <2>4. IsFiniteSet(D) /\ \A x \in D : b[x] \in Nat BY <1>2, <1>4, <2>1
  <2>5. Cleared(b, b2, D, T) BY <2>3, <2>4, SumOfCleared
  <2> QED BY <1>1, <2>1, <2>2, <2>5 DEF Cleared
<1>6. n <= s[u] /\ n <= p BY <1>2, <1>5
<1>7. Lower(s[u], n) = s[u] - n /\ Lower(p, n) = p - n /\ s[u] - n \in Nat
  BY <1>2, <1>5, <1>6 DEF Lower
<1>8. PICK s2 : s2 = [s EXCEPT ![u] = s[u] - n] OBVIOUS
<1>9. s \in [Users -> Nat] BY DEF Covers
<1>10. /\ s2 \in [Users -> Nat] /\ s2[u] = s[u] - n
       /\ \A v \in Users \ {u} : s2[v] = s[v]
       /\ SumOf(s2, Users) = SumOf(s, Users) - s[u] + (s[u] - n)
  <2>1. Moved(s, s2, u, s[u] - n) BY <1>7, <1>8, <1>9, AccountMoves
  <2> QED BY <2>1 DEF Moved
<1>11. SumOf(s2, Users) = p - n BY <1>2, <1>5, <1>10 DEF Covers
<1>12. ASSUME NEW v \in Users PROVE SumOf(b2, TasksOf(v)) <= s2[v]
  <2>1. CASE v = u BY <2>1, <1>2, <1>5, <1>10
  <2>2. CASE v # u
    <3>1. \A x \in TasksOf(v) : b2[x] = b[x] BY <2>2, <1>3 DEF TasksOf
    <3>2. IsFiniteSet(TasksOf(v)) /\ SumOf(b, TasksOf(v)) <= s[v] BY AccountNumbers
    <3>3. SumOf(b2, TasksOf(v)) = SumOf(b, TasksOf(v)) BY <3>1, <3>2, SumOfSame
    <3> QED BY <2>2, <3>2, <3>3, <1>10
  <2> QED BY <2>1, <2>2
<1>13. Covers(b2, s2, p - n) BY <1>10, <1>11, <1>12 DEF Covers
<1>14. [s EXCEPT ![u] = Lower(@, n)] = s2 BY <1>7, <1>8, <1>9
<1> QED BY <1>1, <1>7, <1>13, <1>14

\* Task t now holds at most n bytes more than what is left of its b[t] after old.
Charged(b, b2, t, n, old) ==
    /\ b2 \in [Tasks -> Nat]
    /\ old <= b[t] /\ b2[t] <= b[t] - old + n
    /\ \A x \in Tasks : x # t => b2[x] = b[x]

\* A charge: the bytes of one task move from b[t] to at most b[t] - old + n, and
\* old is given back before n is taken.
LEMMA ChargeCovers ==
  ASSUME NEW b, NEW s, NEW p, Covers(b, s, p), NEW t \in Tasks, NEW u \in Users, u = Owner[t],
         NEW n \in Nat, NEW old \in Nat, NEW b2, Charged(b, b2, t, n, old)
  PROVE  Covers(b2, [s EXCEPT ![u] = Lower(s[u], old) + n], Lower(p, old) + n)
<1>0. /\ b2 \in [Tasks -> Nat]
      /\ old <= b[t] /\ b2[t] <= b[t] - old + n
      /\ \A x \in Tasks : x # t => b2[x] = b[x]
  BY DEF Charged
<1>1. t \in TasksOf(u) BY DEF TasksOf
<1>2. /\ p \in Nat /\ s[u] \in Nat /\ s[u] <= p /\ IsFiniteSet(TasksOf(u))
      /\ SumOf(b, TasksOf(u)) \in Nat /\ SumOf(b, TasksOf(u)) <= s[u]
  BY AccountNumbers
<1>3. \A v \in Users : TasksOf(v) \in SUBSET Tasks BY DEF TasksOf
<1>4. \A x \in TasksOf(u) : b[x] \in Nat BY <1>3 DEF Covers
<1>5. b2[t] \in Nat /\ b[t] \in Nat BY <1>0, <1>1, <1>4
<1>6. SumOf(b2, TasksOf(u)) \in Nat /\ SumOf(b2, TasksOf(u)) = SumOf(b, TasksOf(u)) - b[t] + b2[t]
  <2>1. \A x \in TasksOf(u) : x # t => b2[x] = b[x] BY <1>0, <1>3
  <2>2. Changed(b, b2, TasksOf(u), t) BY <1>1, <1>2, <1>4, <1>5, <2>1, SumOfChange
  <2> QED BY <2>2 DEF Changed
<1>7. b[t] <= SumOf(b, TasksOf(u))
  <2>1. PICK q : q = TasksOf(u) \ {t} OBVIOUS
  <2>2. SumOf(b, TasksOf(u)) = b[t] + SumOf(b, q) BY <1>1, <1>2, <1>4, <2>1, SumOfElement
  <2>3. q \in SUBSET TasksOf(u) BY <2>1
  <2>4. IsFiniteSet(q) /\ \A x \in q : b[x] \in Nat BY <1>2, <1>4, <2>3, FS_Subset
  <2>5. SumOf(b, q) \in Nat BY <2>4, SumOfNat
  <2> QED BY <2>2, <2>5, <1>5
<1>8. old <= s[u] /\ old <= p BY <1>0, <1>2, <1>5, <1>7
<1>9. Lower(s[u], old) = s[u] - old /\ Lower(p, old) = p - old BY <1>2, <1>8 DEF Lower
<1>10. PICK k : k = s[u] - old + n OBVIOUS
<1>11. k \in Nat BY <1>2, <1>8, <1>10
<1>12. PICK s2 : s2 = [s EXCEPT ![u] = k] OBVIOUS
<1>13. s \in [Users -> Nat] BY DEF Covers
<1>14. /\ s2 \in [Users -> Nat] /\ s2[u] = k
       /\ \A v \in Users \ {u} : s2[v] = s[v]
       /\ SumOf(s2, Users) = SumOf(s, Users) - s[u] + k
  <2>1. Moved(s, s2, u, k) BY <1>11, <1>12, <1>13, AccountMoves
  <2> QED BY <2>1 DEF Moved
<1>15. SumOf(s2, Users) = p - old + n BY <1>2, <1>8, <1>10, <1>14 DEF Covers
<1>16. SumOf(b2, TasksOf(u)) <= k BY <1>0, <1>2, <1>5, <1>6, <1>10
<1>17. ASSUME NEW v \in Users PROVE SumOf(b2, TasksOf(v)) <= s2[v]
  <2>1. CASE v = u BY <2>1, <1>14, <1>16
  <2>2. CASE v # u
    <3>1. \A x \in TasksOf(v) : b2[x] = b[x] BY <2>2, <1>0, <1>3 DEF TasksOf
    <3>2. IsFiniteSet(TasksOf(v)) /\ SumOf(b, TasksOf(v)) <= s[v] BY AccountNumbers
    <3>3. SumOf(b2, TasksOf(v)) = SumOf(b, TasksOf(v)) BY <3>1, <3>2, SumOfSame
    <3> QED BY <2>2, <3>2, <3>3, <1>14
  <2> QED BY <2>1, <2>2
<1>18. Covers(b2, s2, p - old + n) BY <1>0, <1>14, <1>15, <1>17 DEF Covers
<1>19. [s EXCEPT ![u] = Lower(s[u], old) + n] = s2 BY <1>9, <1>10, <1>12
<1> QED BY <1>9, <1>18, <1>19

\* Rows released and not refunded leave the account above what is held.
LEMMA ReleaseCovers ==
  ASSUME NEW b, NEW s, NEW p, Covers(b, s, p), NEW T,
         NEW b2 \in [Tasks -> Nat], \A t \in Tasks : b2[t] = IF t \in T THEN 0 ELSE b[t]
  PROVE  Covers(b2, s, p)
<1>1. ASSUME NEW v \in Users PROVE SumOf(b2, TasksOf(v)) <= s[v]
  <2>1. TasksOf(v) \in SUBSET Tasks BY DEF TasksOf
  <2>2. \A x \in TasksOf(v) : b[x] \in Nat BY <2>1 DEF Covers
  <2>3. \A x \in TasksOf(v) : b2[x] = IF x \in T THEN 0 ELSE b[x] BY <2>1
  <2>4. /\ s[v] \in Nat /\ IsFiniteSet(TasksOf(v)) /\ SumOf(b, TasksOf(v)) \in Nat
        /\ SumOf(b, TasksOf(v)) <= s[v]
    BY AccountNumbers
  <2>5. /\ SumOf(b2, TasksOf(v)) \in Nat /\ SumOf(b, TasksOf(v) \cap T) \in Nat
        /\ SumOf(b2, TasksOf(v)) = SumOf(b, TasksOf(v)) - SumOf(b, TasksOf(v) \cap T)
    <3>1. PICK D : D = TasksOf(v) OBVIOUS
    <3>2. /\ IsFiniteSet(D) /\ \A x \in D : b[x] \in Nat
          /\ \A x \in D : b2[x] = IF x \in T THEN 0 ELSE b[x]
      BY <3>1, <2>2, <2>3, <2>4
    <3>3. Cleared(b, b2, D, T) BY <3>2, SumOfCleared
    <3> QED BY <3>1, <3>3 DEF Cleared
  <2> QED BY <2>4, <2>5
<1> QED BY <1>1 DEF Covers

\* The inductive invariant of the byte account.
AccountInv == Covers(BytesOf, storage, platformStorage)

\* Every refund, whatever the number of rows it releases.
LEMMA RefundAccount ==
  ASSUME BytesTyped, AccountInv, NEW u \in Users, NEW T \in SUBSET TasksOf(u), RefundBytes(u, T)
  PROVE  AccountInv'
<1>1. PICK b, b2 : b = BytesOf /\ b2 = BytesOf' OBVIOUS
<1>2. T \in SUBSET Tasks BY DEF TasksOf
<1>3. PICK n : n = SumOf(b, T) OBVIOUS
<1>4. MapThenSumSet(BytesHeld, T) = n BY <1>1, <1>2, <1>3, HeldSum
<1>5. /\ rootBytes' = [t \in Tasks |-> IF t \in T THEN 0 ELSE rootBytes[t]]
      /\ copyBytes' = [t \in Tasks |-> IF t \in T THEN 0 ELSE copyBytes[t]]
      /\ storage' = [storage EXCEPT ![u] = Lower(@, n)]
      /\ platformStorage' = Lower(platformStorage, n)
  BY <1>4 DEF RefundBytes
<1>6. b2 \in [Tasks -> Nat] /\ \A t \in Tasks : b2[t] = IF t \in T THEN 0 ELSE b[t]
  BY <1>1, <1>5 DEF BytesOf, BytesHeld, BytesTyped
<1>7. Covers(b, storage, platformStorage) BY <1>1 DEF AccountInv
<1>8. Covers(b2, [storage EXCEPT ![u] = Lower(@, SumOf(b, T))],
             Lower(platformStorage, SumOf(b, T)))
  BY <1>6, <1>7, RefundCovers
<1>9. Covers(b2, storage', platformStorage') BY <1>3, <1>5, <1>8
<1>10. AccountInv' <=> Covers(b2, storage', platformStorage')
  BY <1>1 DEF AccountInv, Covers, TasksOf
<1> QED BY <1>9, <1>10

\* release_task_holdings refunds a deleted task and leaves the bytes of others.
LEMMA ReleaseAccount ==
  ASSUME BytesTyped, AccountInv, NEW t \in Tasks, NEW st, ReleaseHoldings(t, st)
  PROVE  AccountInv'
<1>1. CASE st = "deleted"
  <2>1. RefundBytes(Owner[t], {t}) BY <1>1 DEF ReleaseHoldings
  <2>2. Owner[t] \in Users /\ {t} \in SUBSET TasksOf(Owner[t]) BY StoreAssumption DEF TasksOf
  <2> QED BY <2>1, <2>2, RefundAccount
<1>2. CASE st # "deleted"
  <2>1. UNCHANGED byteVars BY <1>2 DEF ReleaseHoldings
  <2> QED BY <2>1 DEF byteVars, AccountInv, Covers, BytesOf, BytesHeld, TasksOf
<1> QED BY <1>1, <1>2

\* A charge of n bytes to task t in exchange for old of them.
LEMMA ChargeAccount ==
  ASSUME BytesTyped, AccountInv, NEW t \in Tasks, NEW n \in Nat, NEW old \in Nat,
         old <= rootBytes[t] + copyBytes[t],
         rootBytes' \in [Tasks -> Nat], copyBytes' \in [Tasks -> Nat],
         rootBytes'[t] + copyBytes'[t] <= (rootBytes[t] + copyBytes[t]) - old + n,
         \A x \in Tasks : x # t => rootBytes'[x] = rootBytes[x] /\ copyBytes'[x] = copyBytes[x],
         storage' = [storage EXCEPT ![Owner[t]] = Lower(storage[Owner[t]], old) + n],
         platformStorage' = Lower(platformStorage, old) + n
  PROVE  AccountInv'
<1>1. PICK b, b2 : b = BytesOf /\ b2 = BytesOf' OBVIOUS
<1>2. PICK r, c, r2, c2 : r = rootBytes /\ c = copyBytes /\ r2 = rootBytes' /\ c2 = copyBytes'
  OBVIOUS
<1>3. /\ r \in [Tasks -> Nat] /\ c \in [Tasks -> Nat]
      /\ r2 \in [Tasks -> Nat] /\ c2 \in [Tasks -> Nat]
  BY <1>2 DEF BytesTyped
<1>4. /\ old <= r[t] + c[t] /\ r2[t] + c2[t] <= (r[t] + c[t]) - old + n
      /\ \A x \in Tasks : x # t => r2[x] = r[x] /\ c2[x] = c[x]
  BY <1>2, Zenon
<1>5. b = [x \in Tasks |-> r[x] + c[x]] /\ b2 = [x \in Tasks |-> r2[x] + c2[x]]
  BY <1>1, <1>2 DEF BytesOf, BytesHeld
<1>6. Charged(b, b2, t, n, old)
  <2>1. b[t] = r[t] + c[t] /\ b2[t] = r2[t] + c2[t] BY <1>5
  <2>2. r[t] \in Nat /\ c[t] \in Nat /\ r2[t] \in Nat /\ c2[t] \in Nat BY <1>3
  <2>3. b2 \in [Tasks -> Nat] BY <1>3, <1>5
  <2>4. old <= b[t] BY <2>1, <1>4
  <2>5. b2[t] <= b[t] - old + n
    <3>1. PICK x, y : x = r[t] + c[t] /\ y = r2[t] + c2[t] OBVIOUS
    <3>2. y <= x - old + n BY <1>4, <3>1, Zenon
    <3>3. b[t] = x /\ b2[t] = y BY <2>1, <3>1, Zenon
    <3> QED BY <3>2, <3>3, Zenon
  <2>6. \A x \in Tasks : x # t => b2[x] = b[x] BY <1>4, <1>5
  <2> QED BY <2>3, <2>4, <2>5, <2>6 DEF Charged
<1>7. PICK s, p, u : s = storage /\ p = platformStorage /\ u = Owner[t] OBVIOUS
<1>8. Covers(b, s, p) /\ u \in Users BY <1>1, <1>7, StoreAssumption DEF AccountInv
<1>9. Covers(b2, [s EXCEPT ![u] = Lower(s[u], old) + n], Lower(p, old) + n)
  BY <1>6, <1>7, <1>8, ChargeCovers
<1>10. Covers(b2, storage', platformStorage') BY <1>7, <1>9
<1>11. AccountInv' <=> Covers(b2, storage', platformStorage')
  BY <1>1 DEF AccountInv, Covers, TasksOf
<1> QED BY <1>10, <1>11

\* Each transaction keeps the byte account above what is held.
LEMMA AccountNext ==
  ASSUME BytesTyped, AccountInv, Next
  PROVE  AccountInv'
<1>1. ASSUME UNCHANGED byteVars PROVE AccountInv'
  BY <1>1 DEF byteVars, AccountInv, Covers, BytesOf, BytesHeld, TasksOf
<1>2. ASSUME NEW t \in Tasks, NEW st, ReleaseHoldings(t, st) PROVE AccountInv'
  BY <1>2, ReleaseAccount
<1>3. ASSUME NEW t \in Tasks, OwnerStep(t) PROVE AccountInv'
  <2>1. CASE CreateTask(t) BY <1>1, <2>1 DEF CreateTask
  <2>2. ASSUME NEW n \in Sizes, CommitInput(t, n) PROVE AccountInv'
    <3>1. n \in Nat /\ Owner[t] \in Users BY StoreAssumption
    <3>2. /\ rootBytes' = [rootBytes EXCEPT ![t] = n] /\ copyBytes' = copyBytes
          /\ storage' = [storage EXCEPT ![Owner[t]] = @ + n]
          /\ platformStorage' = platformStorage + n
      BY <2>2 DEF CommitInput, Charge
    <3>3. storage[Owner[t]] \in Nat /\ platformStorage \in Nat
      BY <3>1, AccountNumbers DEF AccountInv
    <3>4. /\ Lower(storage[Owner[t]], 0) = storage[Owner[t]]
          /\ Lower(platformStorage, 0) = platformStorage
      BY <3>3 DEF Lower
    <3>5. /\ storage' = [storage EXCEPT ![Owner[t]] = Lower(storage[Owner[t]], 0) + n]
          /\ platformStorage' = Lower(platformStorage, 0) + n
      BY <3>2, <3>4
    <3>6. /\ rootBytes' \in [Tasks -> Nat] /\ copyBytes' \in [Tasks -> Nat]
          /\ 0 <= rootBytes[t] + copyBytes[t]
          /\ rootBytes'[t] + copyBytes'[t] <= (rootBytes[t] + copyBytes[t]) - 0 + n
          /\ \A x \in Tasks : x # t => rootBytes'[x] = rootBytes[x] /\ copyBytes'[x] = copyBytes[x]
      BY <3>1, <3>2 DEF BytesTyped
    <3> QED BY <3>1, <3>5, <3>6, ChargeAccount
  <2>3. ASSUME NEW k, EndTask(t, k) PROVE AccountInv'
    BY <1>1, <1>2, <2>3 DEF EndTask, RequestTerminalWhileRunning, TerminalizeQueued,
       FinalizeTerminal
  <2>4. CASE DeleteTask(t) BY <1>2, <2>4 DEF DeleteTask
  <2>5. CASE SendMessage(t) BY <1>1, <2>5 DEF SendMessage
  <2> QED BY <1>3, <2>1, <2>2, <2>3, <2>4, <2>5 DEF OwnerStep, AbortTask, CompleteTask
<1>4. ASSUME NEW t \in Tasks, JobStep(t) PROVE AccountInv'
  <2>1. CASE SweepTerminalCleanup(t)
    <3>1. RefundBytes(Owner[t], {t}) BY <2>1 DEF SweepTerminalCleanup
    <3>2. Owner[t] \in Users /\ {t} \in SUBSET TasksOf(Owner[t]) BY StoreAssumption DEF TasksOf
    <3> QED BY <3>1, <3>2, RefundAccount
  <2>2. ASSUME NEW i, ClaimRound(t, i) PROVE AccountInv' BY <1>1, <2>2 DEF ClaimRound
  <2>3. CASE LeaseExpires(t) BY <1>1, <2>3 DEF LeaseExpires
  <2> QED BY <1>2, <1>4, <2>1, <2>2, <2>3
    DEF JobStep, CancelCancellingRound, SweepUploadTtl, ReconcilePendingTerminal, TerminateTask
<1>5. ASSUME NEW t \in Tasks, NEW n, NEW i, NEW e, LeaseStep(t, n, i, e) PROVE AccountInv'
  <2>1. CASE ReclaimExpiredRound(t, n, i, e) BY <1>2, <2>1 DEF ReclaimExpiredRound
  <2>2. CASE RenewLease(t, n, i, e) BY <1>1, <2>2 DEF RenewLease
  <2>3. ASSUME NEW revoked, Settle(t, n, i, e, revoked) PROVE AccountInv'
    BY <1>2, <2>3 DEF Settle
  <2>4. CASE FailOnDeadline(t, n, i, e)
    BY <1>1, <1>2, <2>4 DEF FailOnDeadline
  <2>5. ASSUME NEW b \in Sizes, NEW old \in {0, copyBytes[t]}, RegisterOutput(t, n, e, b, old)
        PROVE  AccountInv'
    <3>1. b \in Nat /\ old \in Nat /\ old <= copyBytes[t] /\ copyBytes[t] \in Nat
          /\ rootBytes[t] \in Nat
      BY StoreAssumption DEF BytesTyped
    <3>2. /\ storage' = [storage EXCEPT ![Owner[t]] = Lower(storage[Owner[t]], old) + b]
          /\ platformStorage' = Lower(platformStorage, old) + b
          /\ copyBytes' = [copyBytes EXCEPT ![t] = @ - old + b]
          /\ rootBytes' = rootBytes
      BY <2>5 DEF RegisterOutput
    <3>3. copyBytes[t] - old + b \in Nat BY <3>1
    <3>4. /\ rootBytes' \in [Tasks -> Nat] /\ copyBytes' \in [Tasks -> Nat]
          /\ old <= rootBytes[t] + copyBytes[t]
          /\ rootBytes'[t] + copyBytes'[t] <= (rootBytes[t] + copyBytes[t]) - old + b
          /\ \A x \in Tasks : x # t => rootBytes'[x] = rootBytes[x] /\ copyBytes'[x] = copyBytes[x]
      BY <3>1, <3>2, <3>3 DEF BytesTyped
    <3> QED BY <3>1, <3>2, <3>4, ChargeAccount
  <2> QED BY <1>5, <2>1, <2>2, <2>3, <2>4, <2>5 DEF LeaseStep
<1>6. ASSUME NEW u \in Users, UserStep(u) PROVE AccountInv'
  <2>1. CASE TerminateUserTasks(u)
    <3>1. PICK T : T = {t \in TasksOf(u) : status[t] \in TaskStatus} /\ RefundBytes(u, T)
      BY <2>1 DEF TerminateUserTasks
    <3>2. T \in SUBSET TasksOf(u) BY <3>1
    <3> QED BY <3>1, <3>2, RefundAccount
  <2>2. CASE FailUnstartedTasks(u)
    <3>1. PICK T : /\ rootBytes' = [t \in Tasks |-> IF t \in T THEN 0 ELSE rootBytes[t]]
                   /\ copyBytes' = [t \in Tasks |-> IF t \in T THEN 0 ELSE copyBytes[t]]
                   /\ UNCHANGED <<storage, platformStorage>>
      BY <2>2 DEF FailUnstartedTasks
    <3>2. PICK b, b2 : b = BytesOf /\ b2 = BytesOf' OBVIOUS
    <3>3. b2 \in [Tasks -> Nat] /\ \A t \in Tasks : b2[t] = IF t \in T THEN 0 ELSE b[t]
      BY <3>1, <3>2 DEF BytesOf, BytesHeld, BytesTyped
    <3>4. Covers(b, storage, platformStorage) BY <3>2 DEF AccountInv
    <3>5. Covers(b2, storage, platformStorage) BY <3>3, <3>4, ReleaseCovers
    <3>6. AccountInv' <=> Covers(b2, storage', platformStorage')
      BY <3>2 DEF AccountInv, Covers, TasksOf
    <3> QED BY <3>1, <3>5, <3>6
  <2> QED BY <1>6, <2>1, <2>2 DEF UserStep
<1> QED BY <1>3, <1>4, <1>5, <1>6 DEF Next

\* Nothing is charged in the empty database.
LEMMA AccountInit == Init => AccountInv
<1> SUFFICES ASSUME Init PROVE AccountInv OBVIOUS
<1>1. /\ BytesOf \in [Tasks -> Nat] /\ \A t \in Tasks : BytesOf[t] = 0
      /\ storage \in [Users -> Nat] /\ \A u \in Users : storage[u] = 0
      /\ platformStorage = 0
  BY DEF Init, BytesOf, BytesHeld
<1>2. SumOf(storage, Users) = 0 BY <1>1, StoreAssumption, SumOfZero
<1>3. ASSUME NEW u \in Users PROVE SumOf(BytesOf, TasksOf(u)) <= storage[u]
  <2>1. TasksOf(u) \in SUBSET Tasks BY DEF TasksOf
  <2>2. IsFiniteSet(TasksOf(u)) BY <2>1, StoreAssumption, FS_Subset
  <2>3. \A t \in TasksOf(u) : BytesOf[t] = 0 BY <1>1, <2>1
  <2>4. SumOf(BytesOf, TasksOf(u)) = 0 BY <2>2, <2>3, SumOfZero
  <2> QED BY <2>4, <1>1
<1> QED BY <1>1, <1>2, <1>3 DEF AccountInv, Covers

\* What is charged to a user never falls below the bytes its tasks hold, and what is
\* charged to the platform is what is charged to the users: every refund of
\* task_release.py, task_artifacts.py and the sweeps finds the bytes it gives back, so
\* that the guard of the decrement never refuses it.
THEOREM StorageCovers == Spec => []StorageCoversHeld
<1>1. Inv => BytesTyped BY DEF Inv, TypeOK, BytesTyped
<1>2. AccountInv /\ Inv /\ [Next]_storeVars => AccountInv'
  <2>1. ASSUME AccountInv, UNCHANGED storeVars PROVE AccountInv'
    BY <2>1 DEF storeVars, byteVars, AccountInv, Covers, BytesOf, BytesHeld, TasksOf
  <2> QED BY <1>1, <2>1, AccountNext
<1>3. AccountInv => StorageCoversHeld
  <2> SUFFICES ASSUME AccountInv PROVE StorageCoversHeld OBVIOUS
  <2>1. ASSUME NEW u \in Users PROVE storage[u] >= MapThenSumSet(BytesHeld, TasksOf(u))
    <3>1. TasksOf(u) \in SUBSET Tasks BY DEF TasksOf
    <3>2. MapThenSumSet(BytesHeld, TasksOf(u)) = SumOf(BytesOf, TasksOf(u)) BY <3>1, HeldSum
    <3>3. /\ SumOf(BytesOf, TasksOf(u)) \in Nat /\ storage[u] \in Nat
          /\ SumOf(BytesOf, TasksOf(u)) <= storage[u]
      BY AccountNumbers DEF AccountInv
    <3> QED BY <3>2, <3>3
  <2>2. platformStorage = MapThenSumSet(LAMBDA u : storage[u], Users)
    <3>1. platformStorage = SumOf(storage, Users) BY DEF AccountInv, Covers
    <3>2. PICK s : s = storage OBVIOUS
    <3>3. MapThenSumSet(LAMBDA u : s[u], Users) = SumOf(s, Users) BY UserSum
    <3> QED BY <3>1, <3>2, <3>3
  <2> QED BY <2>1, <2>2 DEF StorageCoversHeld
<1> QED BY <1>2, <1>3, AccountInit, Invariance, PTL DEF Spec

--------------------------------------------------------------------------------
\* A free slot means fewer executing tasks than slots: every executing task occupies
\* a slot, so the occupied slots map onto the executing tasks.
LEMMA FreeSlotLeft ==
  ASSUME Inv, FreeSlots # {}
  PROVE  Cardinality(Executing) < Cardinality(Slots)
<1> DEFINE occupied == {s \in Slots : slot[s] # NoTask}
           f == [s \in occupied |-> slot[s]]
<1>1. f \in Surjection(occupied, Executing)
  BY StoreAssumption DEF Surjection, Inv, TypeOK, HoldingsMatchTask, Executing
<1>2. IsFiniteSet(Slots) /\ occupied \in SUBSET Slots /\ occupied # Slots
  BY StoreAssumption DEF FreeSlots
<1> HIDE DEF occupied, f
<1>3. /\ IsFiniteSet(occupied) /\ Cardinality(occupied) \in Nat /\ Cardinality(Slots) \in Nat
      /\ Cardinality(occupied) <= Cardinality(Slots)
      /\ Cardinality(occupied) # Cardinality(Slots)
  BY <1>2, FS_Subset, FS_CardinalityType
<1>4. IsFiniteSet(Executing) /\ Cardinality(Executing) <= Cardinality(occupied)
  BY <1>1, <1>3, FS_Surjection
<1>5. Cardinality(Executing) \in Nat
  BY <1>4, FS_CardinalityType
<1> QED BY <1>3, <1>4, <1>5

\* Every release ends the execution of its task.
LEMMA ReleaseExecuting ==
  ASSUME NEW t \in Tasks, NEW st, ReleaseHoldings(t, st)
  PROVE  Executing' = Executing \ {t}
BY DEF ReleaseHoldings, DropHolds, ReleasedKinds, Executing

\* The empty database is the initial state of the promised lifecycle.
LEMMA LifecycleInit == Init => Lifecycle!Init
BY DEF Init, Lifecycle!Init, Executing

\* Every transaction is a step the owner was promised, or none at all.
LEMMA LifecycleStep ==
  ASSUME Inv, Next
  PROVE  [Lifecycle!Next]_Lifecycle!vars
<1> USE DEF Lifecycle!Move
<1> DEFINE Same == UNCHANGED <<status, pendingTerminal, Executing>>
<1>0. ASSUME Same PROVE UNCHANGED Lifecycle!vars
  BY <1>0 DEF Lifecycle!vars
<1>1. ASSUME UNCHANGED holdVars PROVE Executing' = Executing
  BY <1>1 DEF holdVars, Executing
<1>2. RowInv /\ HoldingsMatchTask
  BY InvParts
<1>3. ASSUME NEW t \in Tasks, CreateTask(t) PROVE Lifecycle!Create(t)
  BY <1>2, <1>3 DEF CreateTask, Lifecycle!Create, Executing, HoldingsMatchTask, LiveStatus,
     RowInv, RowTypes
<1>4. ASSUME NEW t \in Tasks, NEW n, CommitInput(t, n) PROVE Lifecycle!Enqueue(t)
  BY <1>1, <1>4 DEF CommitInput, Lifecycle!Enqueue
<1>5. ASSUME NEW t \in Tasks, SendMessage(t) PROVE Lifecycle!Enqueue(t)
  BY <1>1, <1>5 DEF SendMessage, Lifecycle!Enqueue
<1>6. ASSUME NEW t \in Tasks, NEW k \in {"completed", "aborted"}, EndTask(t, k)
      PROVE  Lifecycle!AskEnd(t, k) \/ Lifecycle!End(t, k)
  <2>1. CASE RequestTerminalWhileRunning(t, k)
    BY <1>1, <1>2, <2>1
    DEF RequestTerminalWhileRunning, Lifecycle!AskEnd, Executing, HoldingsMatchTask, RowInv,
        RoundMatchesTask, HasActiveRound, ActiveRound
  <2>2. CASE TerminalizeQueued(t, k) \/ FinalizeTerminal(t, k)
    <3>1. t \notin Executing
      BY <1>2, <2>2 DEF TerminalizeQueued, FinalizeTerminal, Executing, HoldingsMatchTask
    <3> QED BY <2>2, <3>1, ReleaseExecuting
      DEF TerminalizeQueued, FinalizeTerminal, Lifecycle!End, Lifecycle!Unstarted,
         Lifecycle!Ended
  <2> QED BY <1>6, <2>1, <2>2 DEF EndTask
<1>7. ASSUME NEW t \in Tasks, DeleteTask(t) PROVE Lifecycle!Delete(t)
  BY <1>7, ReleaseExecuting
  DEF DeleteTask, Lifecycle!Delete, Lifecycle!Live, Lifecycle!Unstarted, Lifecycle!Ended,
     LiveStatus, EndedStatus
<1>8. ASSUME NEW t \in Tasks, NEW i, ClaimRound(t, i) PROVE Lifecycle!Start(t)
  <2>1. Cardinality(Executing) < Cardinality(Slots)
    BY <1>8, FreeSlotLeft DEF ClaimRound
  <2>2. Lifecycle!ExecutingOf(Owner[t]) = HoldersOf(Owner[t], "running")
    BY DEF Lifecycle!ExecutingOf, Executing, HoldersOf, TasksOf
  <2>3. Cardinality(HoldersOf(Owner[t], "running")) < MaxRunning
    BY <1>8, StoreAssumption DEF ClaimRound, Inv, CountersMatchHoldings, HoldersOf
  <2>4. Executing' = Executing \cup {t}
    BY <1>2, <1>8 DEF ClaimRound, Executing, RowInv, RowTypes
  <2>5. /\ status[t] = "queued"
        /\ status' = [status EXCEPT ![t] = "running"]
        /\ UNCHANGED pendingTerminal
    BY <1>8 DEF ClaimRound
  <2>6. \A S : Lifecycle!Cardinality(S) = Cardinality(S)
    BY Zenon DEF Cardinality, Lifecycle!Cardinality
  <2> QED BY <2>1, <2>2, <2>3, <2>4, <2>5, <2>6 DEF Lifecycle!Start
<1>9. ASSUME NEW t \in Tasks, CancelCancellingRound(t, round[t].no)
      PROVE  Lifecycle!StopRound(t) \/ Same
  <2>1. Executing' = Executing \ {t}
    BY <1>9, ReleaseExecuting DEF CancelCancellingRound
  <2> QED BY <1>2, <1>9, <2>1
    DEF CancelCancellingRound, Lifecycle!StopRound, Executing, HoldingsMatchTask, RowInv,
       RoundMatchesTask
<1>10. ASSUME NEW t \in Tasks, SweepUploadTtl(t) PROVE Lifecycle!End(t, "failed")
  <2>1. t \notin Executing /\ Executing' = Executing \ {t}
    BY <1>2, <1>10, ReleaseExecuting DEF SweepUploadTtl, Executing, HoldingsMatchTask
  <2> QED BY <1>10, <2>1 DEF SweepUploadTtl, Lifecycle!End, Lifecycle!Unstarted,
             Lifecycle!Ended
<1>11. ASSUME NEW t \in Tasks, SweepTerminalCleanup(t) PROVE Same
  <2>1. t \notin Executing /\ Executing' = Executing \ {t}
    BY <1>2, <1>11
    DEF SweepTerminalCleanup, DropHolds, Executing, HoldingsMatchTask, TerminalStatus,
       EndedStatus
  <2> QED BY <1>11, <2>1 DEF SweepTerminalCleanup
<1>12. ASSUME NEW t \in Tasks, ReconcilePendingTerminal(t) PROVE Lifecycle!HonourIntent(t)
  <2>1. t \notin Executing /\ Executing' = Executing \ {t}
    BY <1>2, <1>12, ReleaseExecuting
    DEF ReconcilePendingTerminal, Executing, HoldingsMatchTask, HasActiveRound, ActiveRound
  <2> QED BY <1>12, <2>1 DEF ReconcilePendingTerminal, Lifecycle!HonourIntent
<1>13. ASSUME NEW t \in Tasks, TerminateTask(t) PROVE Lifecycle!Kill(t)
  BY <1>13, ReleaseExecuting DEF TerminateTask, Lifecycle!Kill
<1>14. ASSUME NEW t \in Tasks, NEW n, NEW i, NEW e, FenceHolds(t, n, i, e)
       PROVE  t \in Executing /\ status[t] = "running" /\ pendingTerminal[t] = "none"
  BY <1>2, <1>14 DEF FenceHolds, Executing, HoldingsMatchTask, RowInv, RoundMatchesTask
<1>15. ASSUME NEW t \in Tasks, NEW n, NEW i, NEW e, LeaseStep(t, n, i, e)
       PROVE  Same \/ \E p \in {"ready", "aborted", "queued", "failed"} : Lifecycle!Conclude(t, p)
  <2>1. CASE ReclaimExpiredRound(t, n, i, e)
    BY <2>1, <1>14, ReleaseExecuting DEF ReclaimExpiredRound, Lifecycle!Conclude
  <2>2. CASE RenewLease(t, n, i, e)
    BY <2>2, <1>1 DEF RenewLease
  <2>3. ASSUME NEW revoked, Settle(t, n, i, e, revoked)
        PROVE  \E p \in {"ready", "aborted", "queued", "failed"} : Lifecycle!Conclude(t, p)
    BY <2>3, <1>14, ReleaseExecuting DEF Settle, Lifecycle!Conclude
  <2>4. CASE FailOnDeadline(t, n, i, e)
    <3>1. t \in Executing /\ status[t] = "running" /\ pendingTerminal[t] = "none"
      BY <2>4, <1>14 DEF FailOnDeadline
    <3>2. pendingTerminal' = pendingTerminal
      BY <1>2, <2>4, <3>1, ZenonT(30) DEF FailOnDeadline, RowInv, RowTypes
    <3>3. /\ Executing' = Executing \ {t}
          /\ status' = [status EXCEPT ![t] = "failed"]
      BY <2>4, <3>1, ReleaseExecuting DEF FailOnDeadline
    <3> QED BY <3>1, <3>2, <3>3 DEF Lifecycle!Conclude
  <2>5. ASSUME NEW b, NEW old, RegisterOutput(t, n, e, b, old) PROVE Same
    BY <2>5, <1>1 DEF RegisterOutput, taskVars
  <2> QED BY <1>15, <2>1, <2>2, <2>3, <2>4, <2>5 DEF LeaseStep
<1>16. ASSUME NEW u \in Users, TerminateUserTasks(u) PROVE Lifecycle!Remove(u)
  <2> DEFINE T == {t \in TasksOf(u) : status[t] \in TaskStatus}
  <2>1. T = {t \in Tasks : Owner[t] = u /\ status[t] \notin {"absent", "gone"}}
    BY <1>2 DEF RowInv, RowTypes, TasksOf, TaskStatus, LiveStatus, TerminalStatus, EndedStatus
  <2>2. /\ status' = [t \in Tasks |-> IF t \in T THEN "gone" ELSE status[t]]
        /\ pendingTerminal' = [t \in Tasks |-> IF t \in T THEN "none" ELSE pendingTerminal[t]]
        /\ DropHolds(u, T, {"running", "active"})
    BY <1>16 DEF TerminateUserTasks
  <2> HIDE DEF T
  <2>3. Executing' = Executing \ T
    BY <2>2 DEF DropHolds, Executing
  <2> QED BY <2>1, <2>2, <2>3 DEF Lifecycle!Remove
<1>17. ASSUME NEW u \in Users, FailUnstartedTasks(u) PROVE Lifecycle!FailUnstarted(u)
  <2>1. Executing' = Executing
    BY <1>2, <1>17 DEF FailUnstartedTasks, Executing, HoldingsMatchTask, TasksOf, RowInv,
       RowTypes
  <2> QED BY <1>17, <2>1 DEF FailUnstartedTasks, Lifecycle!FailUnstarted,
             Lifecycle!Unstarted, TasksOf
<1>18. ASSUME NEW t \in Tasks, OwnerStep(t) PROVE Lifecycle!Next
  BY <1>3, <1>4, <1>5, <1>6, <1>7, <1>18 DEF OwnerStep, AbortTask, CompleteTask,
     Lifecycle!Next, Lifecycle!Ended
<1>19. ASSUME NEW t \in Tasks, JobStep(t) PROVE Lifecycle!Next \/ Same
  <2>1. CASE LeaseExpires(t)
    BY <1>1, <2>1 DEF LeaseExpires
  <2> QED BY <1>8, <1>9, <1>10, <1>11, <1>12, <1>13, <1>19, <2>1 DEF JobStep,
             Lifecycle!Next, Lifecycle!Ended
<1>20. ASSUME NEW u \in Users, UserStep(u) PROVE Lifecycle!Next
  BY <1>16, <1>17, <1>20 DEF UserStep, Lifecycle!Next
<1>21. Lifecycle!Next \/ Same
  BY <1>15, <1>18, <1>19, <1>20 DEF Next, Lifecycle!Next
<1> QED BY <1>0, <1>21

\* The transactions implement the lifecycle of TaskLifecycle: whatever the order of
\* requests, jobs and lease holders, an owner observes only its steps.
THEOREM StoreImplementsLifecycle == Spec => ImplementsLifecycle
<1>1. Inv /\ [Next]_storeVars => [Lifecycle!Next]_Lifecycle!vars
  <2>1. ASSUME UNCHANGED storeVars PROVE UNCHANGED Lifecycle!vars
    BY <2>1 DEF storeVars, taskVars, holdVars, Lifecycle!vars, Executing
  <2> QED BY <2>1, LifecycleStep
<1> QED BY <1>1, LifecycleInit, Invariance, PTL DEF Spec, ImplementsLifecycle, Lifecycle!Spec

--------------------------------------------------------------------------------
(* The process *)

\* The bound on rounds holds of the rows.
RoundBound == \A t \in Tasks : round[t].no <= MaxRounds

StoreInv == Inv /\ RoundBound

\* A token under which a fence holds is one that was issued.
LEMMA FenceToken ==
  ASSUME StoreInv, NEW t \in Tasks, NEW n, NEW i, NEW e, FenceHolds(t, n, i, e)
  PROVE  n \in 1 .. MaxRounds /\ e \in 1 .. AttemptLimit /\ i \in Instances
BY StoreAssumption
   DEF StoreInv, RoundBound, Inv, TypeOK, LeaseMatchesRound, FenceHolds, Round, NoRound

\* So is the token of a round that is running, whoever presents it.
LEMMA RunningToken ==
  ASSUME StoreInv, NEW t \in Tasks, round[t].state = "running"
  PROVE  /\ round[t].no \in 1 .. MaxRounds
         /\ round[t].epoch \in 1 .. AttemptLimit
         /\ round[t].owner \in Instances
BY FenceToken DEF FenceHolds

\* A transaction presented with a token that was issued is a step of the model.
LEMMA TokenStep ==
  ASSUME StoreInv, NEW t \in Tasks, NEW n, NEW i, NEW e, FenceHolds(t, n, i, e),
         LeaseStep(t, n, i, e)
  PROVE  Next
BY FenceToken DEF Next

--------------------------------------------------------------------------------
\* Every step of the process is a step of the durable model or stutters.
LEMMA RuntimeStep ==
  ASSUME StoreInv, RuntimeTypeOK, [RuntimeNext]_runtimeVars
  PROVE  [Next]_storeVars
<1> USE DEF RuntimeTypeOK, Context, Callback, StopCall, ReclaimRow
<1>1. ASSUME NEW t \in Tasks, Dispatch(t) PROVE Next
  BY <1>1 DEF Dispatch, Next, JobStep
<1>2. ASSUME NEW t \in Tasks, Sweep(t) PROVE Next
  BY <1>2 DEF Sweep, Next, JobStep
<1>3. ASSUME ReclaimScan PROVE UNCHANGED storeVars
  BY <1>3 DEF ReclaimScan
<1>4. ASSUME NEW c \in cand, Probe(c) PROVE UNCHANGED storeVars
  BY <1>4 DEF Probe
<1>5. ASSUME NEW c \in cand, CancelCandidate(c) PROVE [Next]_storeVars
  BY <1>5 DEF CancelCandidate, CancelCancellingRound, Next, JobStep
<1>6. ASSUME NEW c \in cand, ReclaimCandidate(c) PROVE [Next]_storeVars
  <2>1. ASSUME ReclaimExpiredRound(c.task, c.no, c.owner, c.epoch) PROVE Next
    BY <2>1, TokenStep DEF LeaseStep, ReclaimExpiredRound
  <2> QED BY <1>6, <2>1 DEF ReclaimCandidate
<1>7. ASSUME \/ TakeUp \/ Drained \/ NextCycle \/ Recheck \/ StartEngine \/ AssemblyFails
             \/ EngineDied \/ SettleRaises \/ Close \/ AgentSettles \/ AgentDies
             \/ AdmitCallback \/ DeadlinePasses \/ Crash
      PROVE  UNCHANGED storeVars
  BY <1>7 DEF TakeUp, Drained, NextCycle, Recheck, StartEngine, AssemblyFails, EngineDied,
              SettleRaises, Close, AgentSettles, AgentDies, AdmitCallback, DeadlinePasses,
              Crash
<1>8. ASSUME SettleRound PROVE [Next]_storeVars
  <2>1. ASSUME NEW revoked \in BOOLEAN, Settle(run.task, run.no, inst, run.epoch, revoked)
        PROVE  Next
    <3>1. run.task \in Tasks
      BY <1>8 DEF SettleRound
    <3> QED BY <2>1, <3>1, TokenStep DEF LeaseStep, Settle
  <2> QED BY <1>8, <2>1 DEF SettleRound
<1>9. ASSUME NEW t \in Tasks, Reconcile(t) PROVE Next
  BY <1>9 DEF Reconcile, Next, JobStep
<1>10. ASSUME NEW c \in calls, NEW b \in Sizes, NEW old \in {0, copyBytes[c.task]},
              WriteOutput(c, b, old)
       PROVE  Next
  <2>1. RegisterOutput(c.task, c.no, c.epoch, b, old)
    BY <1>10 DEF WriteOutput
  <2>2. FenceHolds(c.task, c.no, round[c.task].owner, c.epoch)
    BY <2>1 DEF RegisterOutput, FenceHolds
  <2> QED BY <2>1, <2>2, TokenStep DEF LeaseStep
<1>11. ASSUME Renew PROVE [Next]_storeVars
  <2>1. ASSUME RenewLease(run.task, run.no, inst, run.epoch) PROVE Next
    <3>1. run.task \in Tasks
      BY <1>11 DEF Renew
    <3> QED BY <2>1, <3>1, TokenStep DEF LeaseStep, RenewLease
  <2> QED BY <1>11, <2>1 DEF Renew
<1>12. ASSUME NEW s \in stops, StopRound(s) \/ WriteStopped(s) \/ WriteRaises(s)
       PROVE  [Next]_storeVars
  <2>1. CASE StopRound(s) \/ WriteRaises(s)
    BY <2>1 DEF StopRound, WriteRaises
  <2>2. ASSUME FailOnDeadline(s.task, s.no, inst, s.epoch) PROVE Next
    BY <2>2, TokenStep DEF LeaseStep, FailOnDeadline
  <2>3. ASSUME TerminateTask(s.task) PROVE Next
    BY <2>3 DEF Next, JobStep
  <2>4. CASE WriteStopped(s)
    BY <2>2, <2>3, <2>4 DEF WriteStopped
  <2> QED BY <1>12, <2>1, <2>4
<1>13. ASSUME NEW t \in Tasks, Request(t) PROVE Next
  BY <1>13 DEF Request, Next, OwnerStep
<1>14. ASSUME NEW t \in Tasks, KillSwitch(t) PROVE UNCHANGED storeVars
  BY <1>14 DEF KillSwitch
<1>15. ASSUME NEW t \in Tasks, LeaseRunsOut(t) PROVE Next
  BY <1>15 DEF LeaseRunsOut, Next, JobStep
<1>16. ASSUME NEW u \in Users, UserWide(u) PROVE Next
  BY <1>16 DEF UserWide, Next
<1>17. ASSUME UNCHANGED runtimeVars \/ \E c \in calls : CallFails(c)
       PROVE  UNCHANGED storeVars
  BY <1>17 DEF runtimeVars, CallFails
<1>18. CASE DispatcherStep
  BY <1>18, <1>1, <1>2, <1>3, <1>4, <1>5, <1>6 DEF DispatcherStep
<1>19. CASE ExecutorStep \/ Crash
  BY <1>19, <1>7, <1>8, <1>9 DEF ExecutorStep
<1>20. CASE AgentStep \/ WatchStep
  BY <1>20, <1>7, <1>10, <1>11, <1>12, <1>17 DEF AgentStep, WatchStep
<1> QED
  BY <1>13, <1>14, <1>15, <1>16, <1>17, <1>18, <1>19, <1>20 DEF RuntimeNext


\* A transaction adds rounds one at a time, and only up to the bound.
LEMMA BoundNext ==
  ASSUME StoreInv, [Next]_storeVars
  PROVE  RoundBound'
<1> USE StoreAssumption
    DEF StoreInv, RoundBound, Inv, TypeOK, Round, NoRound, FreshRound, Unleased, Claimed
<1>1. ASSUME NEW t \in Tasks, OwnerStep(t) PROVE RoundBound'
  <2>1. CASE CreateTask(t)
    BY <2>1, SMTT(30) DEF CreateTask
  <2>2. ASSUME NEW n \in Sizes, CommitInput(t, n) PROVE RoundBound'
    BY <2>2, SMTT(30) DEF CommitInput
  <2>3. ASSUME NEW k, EndTask(t, k) PROVE RoundBound'
    <3>1. CASE RequestTerminalWhileRunning(t, k)
      BY <3>1, SMTT(30) DEF RequestTerminalWhileRunning
    <3>2. CASE TerminalizeQueued(t, k)
      BY <3>2, SMTT(30) DEF TerminalizeQueued
    <3>3. CASE FinalizeTerminal(t, k)
      BY <3>3, SMTT(30) DEF FinalizeTerminal
    <3> QED BY <2>3, <3>1, <3>2, <3>3 DEF EndTask
  <2>4. CASE DeleteTask(t)
    BY <2>4, SMTT(30) DEF DeleteTask
  <2>5. CASE SendMessage(t)
    BY <2>5, SMTT(30) DEF SendMessage
  <2> QED BY <1>1, <2>1, <2>2, <2>3, <2>4, <2>5 DEF OwnerStep, AbortTask, CompleteTask
<1>2. ASSUME NEW t \in Tasks, JobStep(t) PROVE RoundBound'
  BY <1>2, SMTT(30) DEF JobStep, ClaimRound, LeaseExpires, CancelCancellingRound,
     SweepUploadTtl, SweepTerminalCleanup, ReconcilePendingTerminal, TerminateTask
<1>3. ASSUME NEW t \in Tasks, NEW n, NEW i, NEW e, LeaseStep(t, n, i, e) PROVE RoundBound'
  BY <1>3, SMTT(30) DEF LeaseStep, ReclaimExpiredRound, RenewLease, Settle, FailOnDeadline,
     RegisterOutput, taskVars
<1>4. ASSUME NEW u \in Users, UserStep(u) PROVE RoundBound'
  <2>1. CASE TerminateUserTasks(u)
    <3> SUFFICES ASSUME NEW t \in Tasks PROVE round'[t].no <= MaxRounds
      OBVIOUS
    <3>1. round'[t] \in {NoRound, round[t]}
      BY <2>1 DEF TerminateUserTasks
    <3> QED BY <3>1
  <2>2. CASE FailUnstartedTasks(u)
    <3> SUFFICES ASSUME NEW t \in Tasks PROVE round'[t].no <= MaxRounds
      OBVIOUS
    <3>1. round'[t] \in {[round[t] EXCEPT !.state = "cancelled"], round[t]}
      BY <2>2 DEF FailUnstartedTasks
    <3> QED BY <3>1, SMTT(30)
  <2> QED BY <1>4, <2>1, <2>2 DEF UserStep
<1>5. CASE UNCHANGED storeVars
  BY <1>5 DEF storeVars, taskVars
<1> QED BY <1>1, <1>2, <1>3, <1>4, <1>5 DEF Next

--------------------------------------------------------------------------------
\* Type correctness of the process state, one group of actions after another.
LEMMA RuntimeTypes ==
  ASSUME StoreInv, RuntimeTypeOK, [RuntimeNext]_runtimeVars
  PROVE  RuntimeTypeOK'
<1> USE RuntimeAssumption, StoreAssumption
    DEF RuntimeTypeOK, Context, Callback, StopCall, ReclaimRow, Stages, loopVars, Idle, Leave
<1>1. ASSUME NEW t \in Tasks PROVE /\ round[t].no \in Nat
                                   /\ round[t].epoch \in Nat
                                   /\ round[t].owner \in Instances \cup {NoInstance}
  BY DEF StoreInv, Inv, TypeOK, Round
<1>2. ASSUME NEW t \in Tasks, Dispatch(t) \/ Sweep(t) PROVE RuntimeTypeOK'
  <2>1. CASE Dispatch(t)
    <3>1. queue' \in Seq(Tasks) /\ late' \subseteq Tasks
      BY <2>1 DEF Dispatch
    <3> QED BY <2>1, <3>1 DEF Dispatch
  <2>2. CASE Sweep(t)
    BY <2>2 DEF Sweep
  <2> QED BY <1>2, <2>1, <2>2
<1>3. ASSUME ReclaimScan PROVE RuntimeTypeOK'
  <2>1. cand' \subseteq ReclaimRow
    BY <1>1, <1>3 DEF ReclaimScan, Candidate, Cancelling, Expired
  <2> QED BY <1>3, <2>1 DEF ReclaimScan
<1>4. ASSUME NEW c \in cand, Probe(c) \/ CancelCandidate(c) \/ ReclaimCandidate(c)
      PROVE  RuntimeTypeOK'
  <2> DEFINE dead == [c EXCEPT !.state = "dead"]
  <2>0. dead \in ReclaimRow
    <3>1. c \in ReclaimRow
      OBVIOUS
    <3> QED BY <3>1 DEF ReclaimRow
  <2>1. cand' \subseteq cand \cup {dead}
    BY <1>4 DEF Probe, CancelCandidate, ReclaimCandidate
  <2>2. UNCHANGED <<inst, crashes, queue, run, engine, renewal, late, calls, stops>>
    BY <1>4 DEF Probe, CancelCandidate, ReclaimCandidate
  <2>3. cand' \subseteq ReclaimRow
    BY <2>0, <2>1
  <2> QED BY <2>2, <2>3
<1>5. ASSUME TakeUp PROVE RuntimeTypeOK'
  <2>1. Head(queue) \in Tasks /\ Tail(queue) \in Seq(Tasks)
    BY <1>5 DEF TakeUp
  <2> QED BY <1>1, <1>5, <2>1 DEF TakeUp
<1>6. ASSUME \/ Drained \/ NextCycle \/ Recheck \/ StartEngine \/ AssemblyFails
             \/ EngineDied \/ SettleRound \/ SettleRaises \/ Close \/ AgentSettles \/ AgentDies
      PROVE  RuntimeTypeOK'
  BY <1>6 DEF Drained, NextCycle, Recheck, StartEngine, AssemblyFails, EngineDied,
              SettleRound, SettleRaises, Close, AgentSettles, AgentDies, FenceHeld
<1>7. ASSUME NEW t \in Tasks, \/ Reconcile(t) \/ Request(t) \/ KillSwitch(t)
                              \/ LeaseRunsOut(t)
      PROVE  RuntimeTypeOK'
  BY <1>1, <1>7 DEF Reconcile, Request, KillSwitch, LeaseRunsOut, Stop
<1>8. ASSUME \/ AdmitCallback
             \/ \E c \in calls : CallFails(c) \/ \E b, old : WriteOutput(c, b, old)
      PROVE  RuntimeTypeOK'
  <2>1. calls' \subseteq Callback
    <3>1. CASE AdmitCallback
      BY <3>1 DEF AdmitCallback
    <3>2. CASE \E c \in calls : CallFails(c) \/ \E b, old : WriteOutput(c, b, old)
      BY <3>2 DEF CallFails, WriteOutput
    <3> QED BY <1>8, <3>1, <3>2
  <2> QED BY <1>8, <2>1 DEF AdmitCallback, CallFails, WriteOutput
<1>9. ASSUME Renew \/ DeadlinePasses PROVE RuntimeTypeOK'
  BY <1>9 DEF Renew, DeadlinePasses, Stop
<1>10. ASSUME NEW s \in stops, StopRound(s) \/ WriteStopped(s) \/ WriteRaises(s)
       PROVE  RuntimeTypeOK'
  <2>1. stops' \subseteq StopCall
    BY <1>10, SMTT(30) DEF StopRound, WriteStopped, WriteRaises
  <2>2. UNCHANGED <<inst, crashes, queue, run, renewal, late, calls, cand>>
    BY <1>10 DEF StopRound, WriteStopped, WriteRaises
  <2>3. engine' = engine \/ (engine = "alive" /\ engine' = "dead")
    BY <1>10 DEF StopRound, WriteStopped, WriteRaises
  <2> QED BY <2>1, <2>2, <2>3
<1>11. ASSUME Crash PROVE RuntimeTypeOK'
  BY <1>11 DEF Crash
<1>12. ASSUME NEW u \in Users, UserWide(u) PROVE RuntimeTypeOK'
  BY <1>12 DEF UserWide
<1>13. CASE UNCHANGED runtimeVars
  BY <1>13 DEF runtimeVars
<1> QED
  BY <1>2, <1>3, <1>4, <1>5, <1>6, <1>7, <1>8, <1>9, <1>10, <1>11, <1>12, <1>13
  DEF RuntimeNext, DispatcherStep, ExecutorStep, AgentStep, WatchStep

AllInv == StoreInv /\ RuntimeTypeOK

LEMMA AllInvInit == RuntimeInit => AllInv
<1> SUFFICES ASSUME RuntimeInit PROVE AllInv
  OBVIOUS
<1>1. StoreInv
  BY InitInv, StoreAssumption DEF RuntimeInit, StoreInv, RoundBound, Init, NoRound
<1>2. RuntimeTypeOK
  BY RuntimeAssumption DEF RuntimeInit, RuntimeTypeOK, Context, Stages, Idle
<1> QED BY <1>1, <1>2 DEF AllInv

LEMMA AllInvNext == AllInv /\ [RuntimeNext]_runtimeVars => AllInv' /\ [Next]_storeVars
BY RuntimeStep, RuntimeTypes, NextInv, BoundNext DEF AllInv, StoreInv

\* The process around the database implements the durable model, so that the
\* invariants, the fencing and the lifecycle proved of Spec hold of it, whatever its
\* interleavings, its raised transactions and its crashes.
THEOREM RuntimeImplementsStore == RuntimeSpec => ImplementsStore
<1>1. RuntimeInit => Init
  BY DEF RuntimeInit
<1> QED BY <1>1, AllInvInit, AllInvNext, PTL DEF RuntimeSpec, ImplementsStore, Spec

\* What is proved of the transactions holds while the process runs, crashes and starts
\* again: the rows, the leases, the holdings, the quota counters and the byte account
\* agree in every state the dispatcher, the executor and the watchdogs can reach.
THEOREM ProcessKeepsTheStore ==
    RuntimeSpec => [](/\ TypeOK /\ RoundMatchesTask /\ LeaseMatchesRound
                      /\ HoldingsMatchTask /\ CountersMatchHoldings /\ StorageCoversHeld)
<1>1. Inv => /\ TypeOK /\ RoundMatchesTask /\ LeaseMatchesRound
             /\ HoldingsMatchTask /\ CountersMatchHoldings
  BY DEF Inv
<1> QED BY <1>1, RuntimeImplementsStore, Invariance, StorageCovers, PTL DEF ImplementsStore

\* Two refinements compose: the process with its crashes implements the lifecycle an
\* owner is promised.
THEOREM RuntimeImplementsLifecycle == RuntimeSpec => ImplementsLifecycle
BY RuntimeImplementsStore, StoreImplementsLifecycle, PTL DEF ImplementsStore

\* Type correctness of the process state.
THEOREM RuntimeTypeCorrect == RuntimeSpec => []RuntimeTypeOK
<1>1. AllInv => RuntimeTypeOK
  BY DEF AllInv
<1> QED BY <1>1, AllInvInit, AllInvNext, PTL DEF RuntimeSpec

--------------------------------------------------------------------------------
\* A step that starts no round and charges no output.
Calm == \A x \in Tasks :
           /\ round'[x].state = "running" =>
                 /\ round[x].state = "running" /\ round'[x].no = round[x].no
                 /\ round'[x].epoch = round[x].epoch /\ round'[x].owner = round[x].owner
           /\ copyBytes'[x] <= copyBytes[x]

LEMMA ReleaseCalm ==
  ASSUME StoreInv, NEW t \in Tasks, NEW st, ReleaseHoldings(t, st)
  PROVE  \A x \in Tasks : copyBytes'[x] <= copyBytes[x]
BY DEF ReleaseHoldings, RefundBytes, byteVars, StoreInv, Inv, TypeOK

\* The requests of an owner and of an account are calm.
LEMMA OwnerCalm ==
  ASSUME StoreInv, NEW t \in Tasks, OwnerStep(t)
  PROVE  Calm
<1> USE DEF StoreInv, Inv, TypeOK, Round, NoRound, FreshRound, ActiveRound, ClosedRound,
            holdVars, byteVars, taskVars, Calm
<1>1. CASE \E n \in Sizes : CommitInput(t, n)
  BY <1>1 DEF CommitInput
<1>2. CASE CreateTask(t) \/ SendMessage(t)
  BY <1>2 DEF CreateTask, SendMessage
<1>3. CASE DeleteTask(t)
  BY <1>3, ReleaseCalm DEF DeleteTask
<1>4. ASSUME NEW k, EndTask(t, k) PROVE Calm
  BY <1>4, ReleaseCalm DEF EndTask, RequestTerminalWhileRunning, TerminalizeQueued, FinalizeTerminal
<1> QED BY <1>1, <1>2, <1>3, <1>4 DEF OwnerStep, AbortTask, CompleteTask

LEMMA UserCalm ==
  ASSUME StoreInv, NEW u \in Users, UserStep(u)
  PROVE  Calm
<1> SUFFICES ASSUME NEW x \in Tasks
             PROVE  /\ round'[x].state = "running" => round'[x] = round[x]
                    /\ copyBytes'[x] <= copyBytes[x]
  BY DEF Calm
<1> USE DEF StoreInv, Inv, TypeOK, Round
<1>1. CASE TerminateUserTasks(u)
  <2>1. round'[x] \in {NoRound, round[x]} /\ copyBytes'[x] \in {0, copyBytes[x]}
    BY <1>1 DEF TerminateUserTasks, RefundBytes
  <2> QED BY <2>1 DEF NoRound
<1>2. CASE FailUnstartedTasks(u)
  <2>1. round'[x] \in {[round[x] EXCEPT !.state = "cancelled"], round[x]}
    BY <1>2 DEF FailUnstartedTasks
  <2>2. copyBytes'[x] \in {0, copyBytes[x]}
    BY <1>2 DEF FailUnstartedTasks
  <2> QED BY <2>1, <2>2
<1> QED BY <1>1, <1>2 DEF UserStep

\* The background jobs are calm, but for a claim.
LEMMA JobCalm ==
  ASSUME StoreInv, NEW t \in Tasks,
         \/ LeaseExpires(t) \/ CancelCancellingRound(t, round[t].no) \/ SweepUploadTtl(t)
         \/ SweepTerminalCleanup(t) \/ ReconcilePendingTerminal(t) \/ TerminateTask(t)
  PROVE  Calm
<1> USE ReleaseCalm
    DEF StoreInv, Inv, TypeOK, Round, NoRound, Unleased, ActiveRound, ClosedRound,
        holdVars, byteVars, taskVars, Calm
<1>1. CASE LeaseExpires(t)
  BY <1>1 DEF LeaseExpires
<1>2. CASE CancelCancellingRound(t, round[t].no)
  BY <1>2 DEF CancelCancellingRound
<1>3. CASE SweepUploadTtl(t) \/ ReconcilePendingTerminal(t)
  BY <1>3 DEF SweepUploadTtl, ReconcilePendingTerminal
<1>4. CASE SweepTerminalCleanup(t)
  BY <1>4 DEF SweepTerminalCleanup, RefundBytes
<1>5. CASE TerminateTask(t)
  BY <1>5 DEF TerminateTask
<1> QED BY <1>1, <1>2, <1>3, <1>4, <1>5

\* So is everything presented with a lease token, but for an output.
LEMMA LeaseCalm ==
  ASSUME StoreInv, NEW t \in Tasks, NEW n, NEW i, NEW e,
         \/ ReclaimExpiredRound(t, n, i, e) \/ RenewLease(t, n, i, e) \/ FailOnDeadline(t, n, i, e)
  PROVE  Calm
<1> USE ReleaseCalm
    DEF StoreInv, Inv, TypeOK, Round, Unleased, ActiveRound, ClosedRound, holdVars, byteVars, Calm
<1>1. CASE ReclaimExpiredRound(t, n, i, e)
  BY <1>1 DEF ReclaimExpiredRound
<1>2. CASE RenewLease(t, n, i, e)
  BY <1>2 DEF RenewLease
<1>3. CASE FailOnDeadline(t, n, i, e)
  BY <1>3 DEF FailOnDeadline
<1> QED BY <1>1, <1>2, <1>3

LEMMA SettleCalm ==
  ASSUME StoreInv, NEW t \in Tasks, NEW n, NEW i, NEW e, NEW revoked,
         Settle(t, n, i, e, revoked)
  PROVE  Calm
BY ReleaseCalm DEF Settle, StoreInv, Inv, TypeOK, Round, Calm

--------------------------------------------------------------------------------
\* Whoever's round it is whose number and epoch the executor, or a callback it admitted,
\* presents: its own, since every round this process finds running under them it claimed
\* itself.
OwnRound(x, n, e) ==
    round[x].state = "running" /\ round[x].no = n /\ round[x].epoch = e => round[x].owner = inst

HolderInv == /\ \A x \in Tasks : run.task = x => OwnRound(x, run.no, run.epoch)
             /\ \A c \in calls : OwnRound(c.task, c.no, c.epoch)

\* The steps of the runtime other than a claim and an output.
CalmStep ==
    \/ \E t \in Tasks : Sweep(t) \/ Reconcile(t) \/ Request(t) \/ KillSwitch(t) \/ LeaseRunsOut(t)
    \/ ReclaimScan
    \/ \E c \in cand : Probe(c) \/ CancelCandidate(c) \/ ReclaimCandidate(c)
    \/ TakeUp \/ Drained \/ NextCycle \/ Recheck \/ StartEngine \/ AssemblyFails
    \/ EngineDied \/ SettleRound \/ SettleRaises \/ Close \/ AgentSettles \/ AgentDies
    \/ AdmitCallback \/ \E c \in calls : CallFails(c)
    \/ WatchStep \/ Crash
    \/ \E u \in Users : UserWide(u)
    \/ UNCHANGED runtimeVars

LEMMA CalmSteps ==
  ASSUME StoreInv, RuntimeTypeOK, CalmStep
  PROVE  Calm
<1> USE DEF RuntimeTypeOK, Context, StopCall, ReclaimRow
<1>1. ASSUME UNCHANGED storeVars PROVE Calm
  BY <1>1 DEF storeVars, taskVars, byteVars, Calm, StoreInv, Inv, TypeOK
<1>2. ASSUME NEW t \in Tasks, \/ Sweep(t) \/ Reconcile(t) \/ LeaseRunsOut(t)
      PROVE  Calm
  BY <1>2, JobCalm DEF Sweep, Reconcile, LeaseRunsOut
<1>3. ASSUME NEW t \in Tasks, Request(t) PROVE Calm
  BY <1>3, OwnerCalm DEF Request, OwnerStep
<1>4. ASSUME \/ \E t \in Tasks : KillSwitch(t)
             \/ ReclaimScan \/ TakeUp \/ Drained \/ NextCycle \/ Recheck \/ StartEngine
             \/ AssemblyFails \/ EngineDied \/ SettleRaises \/ Close \/ AgentSettles
             \/ AgentDies \/ DeadlinePasses \/ Crash \/ UNCHANGED runtimeVars
             \/ AdmitCallback \/ \E c \in calls : CallFails(c)
      PROVE  UNCHANGED storeVars
  BY <1>4 DEF KillSwitch, ReclaimScan, TakeUp, Drained, NextCycle, Recheck, StartEngine,
     AssemblyFails, EngineDied, SettleRaises, Close, AgentSettles, AgentDies, DeadlinePasses,
     Crash, runtimeVars, AdmitCallback, CallFails
<1>5. ASSUME NEW c \in cand, Probe(c) \/ CancelCandidate(c) \/ ReclaimCandidate(c) PROVE Calm
  <2>1. ASSUME CancelCancellingRound(c.task, c.no) PROVE Calm
    <3>1. c.no = round[c.task].no
      BY <2>1 DEF CancelCancellingRound
    <3> QED BY <2>1, <3>1, JobCalm
  <2>2. ASSUME ReclaimExpiredRound(c.task, c.no, c.owner, c.epoch) PROVE Calm
    BY <2>2, LeaseCalm
  <2> QED BY <1>1, <1>5, <2>1, <2>2 DEF Probe, CancelCandidate, ReclaimCandidate
<1>6. ASSUME Renew PROVE Calm
  <2>1. run.task \in Tasks
    BY <1>6 DEF Renew, Stages
  <2> QED BY <1>1, <1>6, <2>1, LeaseCalm DEF Renew
<1>7. ASSUME NEW s \in stops, StopRound(s) \/ WriteStopped(s) \/ WriteRaises(s) PROVE Calm
  <2>1. ASSUME FailOnDeadline(s.task, s.no, inst, s.epoch) PROVE Calm
    BY <2>1, LeaseCalm
  <2>2. ASSUME TerminateTask(s.task) PROVE Calm
    BY <2>2, JobCalm
  <2> QED BY <1>1, <1>7, <2>1, <2>2 DEF StopRound, WriteStopped, WriteRaises
<1>8. ASSUME NEW u \in Users, UserWide(u) PROVE Calm
  BY <1>8, UserCalm DEF UserWide
<1>9. ASSUME SettleRound PROVE Calm
  <2>1. run.task \in Tasks
    BY <1>9 DEF SettleRound, Stages
  <2>2. ASSUME NEW revoked \in BOOLEAN, Settle(run.task, run.no, inst, run.epoch, revoked)
        PROVE  Calm
    BY <2>1, <2>2, SettleCalm
  <2> QED BY <1>1, <1>9, <2>2 DEF SettleRound
<1> QED
  BY <1>1, <1>2, <1>3, <1>4, <1>5, <1>6, <1>7, <1>8, <1>9 DEF CalmStep, WatchStep

\* Two steps are not calm.
LEMMA StepKinds ==
  ASSUME [RuntimeNext]_runtimeVars
  PROVE  \/ CalmStep
         \/ \E t \in Tasks : Dispatch(t)
         \/ \E c \in calls : \E b, old : WriteOutput(c, b, old)
BY DEF RuntimeNext, DispatcherStep, ExecutorStep, AgentStep, CalmStep

\* The context is kept, dropped, or taken up for a round this instance owns.
SameToken == /\ inst' = inst /\ run'.task = run.task
             /\ run'.no = run.no /\ run'.epoch = run.epoch

LEMMA RunMoves ==
  ASSUME RuntimeTypeOK, [RuntimeNext]_runtimeVars
  PROVE  \/ SameToken
         \/ run'.task = NoTask
         \/ inst' = inst /\ round' = round /\ round[run'.task].owner = inst
<1> USE DEF RuntimeTypeOK, Context, Idle, Leave, loopVars, SameToken
<1>1. CASE UNCHANGED <<inst, run>>
  BY <1>1
<1>2. ASSUME TakeUp PROVE \/ run'.task = NoTask
                          \/ inst' = inst /\ round' = round /\ round[run'.task].owner = inst
  BY <1>2 DEF TakeUp, storeVars, taskVars
<1>3. ASSUME Drained \/ NextCycle \/ Close \/ Crash PROVE run'.task = NoTask
  BY <1>3 DEF Drained, NextCycle, Close, Crash
<1>4. ASSUME \/ Recheck \/ StartEngine \/ AssemblyFails \/ EngineDied \/ SettleRound
             \/ SettleRaises \/ AgentSettles
      PROVE  SameToken
  BY <1>4 DEF Recheck, StartEngine, AssemblyFails, EngineDied, SettleRound, SettleRaises,
     AgentSettles
<1>5. ASSUME \/ \E t \in Tasks : \/ Dispatch(t) \/ Sweep(t) \/ Reconcile(t) \/ Request(t)
                                 \/ KillSwitch(t) \/ LeaseRunsOut(t)
             \/ \E c \in cand : Probe(c) \/ CancelCandidate(c) \/ ReclaimCandidate(c)
             \/ \E s \in stops : StopRound(s) \/ WriteStopped(s) \/ WriteRaises(s)
             \/ \E u \in Users : UserWide(u)
             \/ AdmitCallback
             \/ \E c \in calls : CallFails(c) \/ \E b, old : WriteOutput(c, b, old)
             \/ ReclaimScan \/ AgentDies \/ Renew \/ DeadlinePasses \/ UNCHANGED runtimeVars
      PROVE  UNCHANGED <<inst, run>>
  BY <1>5 DEF Dispatch, Sweep, Reconcile, Request, KillSwitch, LeaseRunsOut, Probe,
     CancelCandidate, ReclaimCandidate, StopRound, WriteStopped, WriteRaises, UserWide,
     AdmitCallback, CallFails, WriteOutput, ReclaimScan, AgentDies, Renew, DeadlinePasses,
     runtimeVars
<1> QED
  BY <1>1, <1>2, <1>3, <1>4, <1>5
  DEF RuntimeNext, DispatcherStep, ExecutorStep, AgentStep, WatchStep

\* The callbacks under way are kept, lost with the process, or joined by one that
\* carries the token of the context.
LEMMA CallMoves ==
  ASSUME RuntimeTypeOK, [RuntimeNext]_runtimeVars
  PROVE  \/ calls' = {}
         \/ calls' \subseteq calls /\ inst' = inst
         \/ /\ AdmitCallback
            /\ \A c \in calls' : c \in calls \/ (/\ c.task = run.task /\ c.no = run.no
                                                 /\ c.epoch = run.epoch)
<1> USE DEF RuntimeTypeOK, Context, Idle, Leave, loopVars
<1>1. CASE Crash
  BY <1>1 DEF Crash
<1>2. CASE AdmitCallback
  BY <1>2 DEF AdmitCallback
<1>3. ASSUME NEW c \in calls, CallFails(c) \/ \E b, old : WriteOutput(c, b, old)
      PROVE  calls' \subseteq calls /\ inst' = inst
  BY <1>3 DEF CallFails, WriteOutput
<1>4. ASSUME \/ \E t \in Tasks : \/ Dispatch(t) \/ Sweep(t) \/ Reconcile(t) \/ Request(t)
                                 \/ KillSwitch(t) \/ LeaseRunsOut(t)
             \/ \E c \in cand : Probe(c) \/ CancelCandidate(c) \/ ReclaimCandidate(c)
             \/ \E s \in stops : StopRound(s) \/ WriteStopped(s) \/ WriteRaises(s)
             \/ \E u \in Users : UserWide(u)
             \/ ReclaimScan \/ Renew \/ DeadlinePasses \/ UNCHANGED runtimeVars
      PROVE  calls' = calls /\ inst' = inst
  BY <1>4 DEF Dispatch, Sweep, Reconcile, Request, KillSwitch, LeaseRunsOut, Probe,
     CancelCandidate, ReclaimCandidate, StopRound, WriteStopped, WriteRaises, UserWide,
     ReclaimScan, Renew, DeadlinePasses, runtimeVars
<1>5. ASSUME \/ TakeUp \/ Drained \/ NextCycle \/ Recheck \/ StartEngine \/ AssemblyFails
             \/ EngineDied \/ SettleRound \/ SettleRaises \/ Close \/ AgentSettles \/ AgentDies
      PROVE  calls' = calls /\ inst' = inst
  BY <1>5 DEF TakeUp, Drained, NextCycle, Recheck, StartEngine, AssemblyFails, EngineDied,
     SettleRound, SettleRaises, Close, AgentSettles, AgentDies
<1> QED
  BY <1>1, <1>2, <1>3, <1>4, <1>5
  DEF RuntimeNext, DispatcherStep, ExecutorStep, AgentStep, WatchStep

\* A token whose round is this process's own stays so, as long as the process lives.
LEMMA OwnRoundKept ==
  ASSUME AllInv, [RuntimeNext]_runtimeVars, inst' = inst,
         NEW x \in Tasks, NEW n, NEW e, OwnRound(x, n, e)
  PROVE  OwnRound(x, n, e)'
<1> USE DEF AllInv
<1>1. CASE CalmStep
  <2>1. Calm
    BY <1>1, CalmSteps
  <2> QED BY <2>1 DEF Calm, OwnRound
<1>2. ASSUME NEW t \in Tasks, Dispatch(t) PROVE OwnRound(x, n, e)'
  <2>1. round' = [round EXCEPT ![t] = Claimed(@, inst)]
    BY <1>2 DEF Dispatch, ClaimRound
  <2> QED BY <2>1 DEF OwnRound, Claimed, StoreInv, Inv, TypeOK
<1>3. ASSUME NEW c \in calls, NEW b, NEW old, WriteOutput(c, b, old) PROVE OwnRound(x, n, e)'
  BY <1>3 DEF WriteOutput, RegisterOutput, taskVars, OwnRound
<1> QED BY <1>1, <1>2, <1>3, StepKinds

\* No step makes the executor, or a callback, hold the token of somebody else's running
\* round.
LEMMA HolderNext ==
  ASSUME AllInv, HolderInv, [RuntimeNext]_runtimeVars
  PROVE  HolderInv'
<1> USE DEF AllInv
<1>1. ASSUME NEW x \in Tasks, run'.task = x PROVE OwnRound(x, run.no, run.epoch)'
  <2>0. run'.task # NoTask
    BY <1>1, StoreAssumption
  <2>1. CASE inst' = inst /\ round' = round /\ round[run'.task].owner = inst
    BY <1>1, <2>1 DEF OwnRound
  <2>2. CASE SameToken
    <3>1. OwnRound(x, run.no, run.epoch)
      BY <1>1, <2>2 DEF HolderInv, SameToken
    <3>2. round'[x].state = "running" /\ round'[x].no = run.no /\ round'[x].epoch = run.epoch
            => round'[x].owner = inst'
      BY <2>2, <3>1, OwnRoundKept DEF OwnRound, SameToken
    <3> QED BY <2>2, <3>2 DEF OwnRound, SameToken
  <2> QED BY <2>0, <2>1, <2>2, RunMoves
<1>2. ASSUME NEW c \in calls' PROVE OwnRound(c.task, c.no, c.epoch)'
  <2>1. c.task \in Tasks
    BY RuntimeTypes DEF RuntimeTypeOK, Callback
  <2>2. CASE c \in calls /\ inst' = inst
    BY <2>1, <2>2, OwnRoundKept DEF HolderInv
  <2>3. CASE AdmitCallback /\ ~ c \in calls
    <3>1. c.task = run.task /\ c.no = run.no /\ c.epoch = run.epoch
      BY <1>2, <2>3 DEF AdmitCallback
    <3>2. inst' = inst /\ round' = round
      BY <2>3 DEF AdmitCallback, storeVars, taskVars
    <3> QED BY <2>1, <3>1, <3>2 DEF HolderInv, OwnRound
  <2>4. CASE AdmitCallback /\ c \in calls
    BY <2>2, <2>4 DEF AdmitCallback
  <2> QED BY <1>2, <2>2, <2>3, <2>4, CallMoves
<1> QED BY <1>1, <1>2 DEF HolderInv

\* Only a callback that holds the lease charges an output.
LEMMA HolderStep ==
  ASSUME AllInv, HolderInv, [RuntimeNext]_runtimeVars
  PROVE  \A x \in Tasks : OnlyHolderWritesStep(x)
<1> USE DEF AllInv
<1> SUFFICES ASSUME NEW x \in Tasks, copyBytes'[x] > copyBytes[x]
             PROVE  /\ status[x] = "running"
                    /\ \E c \in calls \ calls' : c.task = x /\ FenceHolds(x, c.no, inst, c.epoch)
  BY DEF OnlyHolderWritesStep
<1>0. copyBytes[x] \in Nat
  BY DEF StoreInv, Inv, TypeOK
<1>1. CASE CalmStep
  <2>1. Calm
    BY <1>1, CalmSteps
  <2>2. copyBytes'[x] \in Nat
    BY AllInvNext DEF StoreInv, Inv, TypeOK
  <2> QED BY <1>0, <2>1, <2>2 DEF Calm
<1>2. ASSUME NEW t \in Tasks, Dispatch(t) PROVE FALSE
  <2>1. copyBytes' = copyBytes
    BY <1>2 DEF Dispatch, ClaimRound, byteVars
  <2> QED BY <1>0, <2>1
<1>3. ASSUME NEW c \in calls, NEW b, NEW old, WriteOutput(c, b, old)
      PROVE  /\ status[x] = "running"
             /\ c \in calls \ calls' /\ c.task = x /\ FenceHolds(x, c.no, inst, c.epoch)
  <2>1. RegisterOutput(c.task, c.no, c.epoch, b, old) /\ ~ c \in calls'
    BY <1>3 DEF WriteOutput
  <2>2. x = c.task
    BY <1>0, <2>1 DEF RegisterOutput, StoreInv, Inv, TypeOK
  <2>3. round[x].state = "running" /\ round[x].no = c.no /\ round[x].epoch = c.epoch
    BY <2>1, <2>2 DEF RegisterOutput
  <2>4. round[x].owner = inst
    BY <2>2, <2>3 DEF HolderInv, OwnRound
  <2>5. status[x] = "running"
    BY <2>3 DEF StoreInv, Inv, RoundMatchesTask
  <2> QED BY <1>3, <2>1, <2>2, <2>3, <2>4, <2>5 DEF FenceHolds
<1> QED BY <1>1, <1>2, <1>3, StepKinds

\* A callback whose execution was fenced out charges nothing, wherever it was overtaken.
THEOREM OnlyTheHolderWrites == RuntimeSpec => OnlyHolderWrites
<1>1. RuntimeInit => HolderInv
  BY StoreAssumption DEF RuntimeInit, HolderInv, OwnRound, Idle
<1>2. AllInv /\ HolderInv /\ [RuntimeNext]_runtimeVars => HolderInv'
  BY HolderNext
<1>3. AllInv /\ HolderInv /\ [RuntimeNext]_runtimeVars
        => [\A t \in Tasks : OnlyHolderWritesStep(t)]_runtimeVars
  BY HolderStep
<1>4. RuntimeSpec => [](AllInv /\ HolderInv)
  BY <1>1, <1>2, AllInvInit, AllInvNext, PTL DEF RuntimeSpec
<1>5. RuntimeSpec => [][\A t \in Tasks : OnlyHolderWritesStep(t)]_runtimeVars
  BY <1>3, <1>4, PTL DEF RuntimeSpec
<1> QED BY <1>5 DEF OnlyHolderWrites

================================================================================
