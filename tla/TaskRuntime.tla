------------------------------ MODULE TaskRuntime ------------------------------
(***************************************************************************)
(* The process around TaskStore: the dispatcher loop with its reclaim      *)
(* snapshot, the notify queue, the executor that runs one round after      *)
(* another, the lease renewal and deadline watchdog of the round it runs,  *)
(* the bounded stops of deadline and kill switch, the container, and a     *)
(* crash that loses everything but the database.  An action is what one    *)
(* coroutine does between two awaits, or one transaction of TaskStore      *)
(* presented with the lease token its caller really holds.                 *)
(***************************************************************************)
EXTENDS TaskStore, Sequences

CONSTANTS
    MaxCrashes,       \* bound: restarts of the process
    Disturbed,        \* bound: the tasks somebody ends by a request
    Switched,         \* bound: the tasks a kill switch hits
    MaxCalls,         \* bound: callbacks of containers under way
    LeaseTimely       \* TRUE: renewals are never delayed past the lease TTL

ASSUME RuntimeAssumption ==
    MaxCrashes \in Nat /\ MaxCalls \in Nat
    /\ Disturbed \subseteq Tasks /\ Switched \subseteq Tasks
    /\ LeaseTimely \in BOOLEAN

VARIABLES
    inst,             \* instance id of this process, "task-dispatch-<pid>"
    crashes,          \* restarts so far
    queue,            \* RoundExecutor.notify_queue
    run,              \* the _RoundContext the executor works on
    engine,           \* the container of run
    renewal,          \* "on" while the _renew_loop of run is alive
    late,             \* tasks whose round had to wait for the executor
    calls,            \* callbacks admitted under a token, and not yet written
    stops,            \* stop_round calls under way, and the write that follows
    cand              \* candidates of the reclaim pass under way

loopVars    == <<queue, run, engine, renewal, late>>
runtimeVars == <<storeVars, inst, crashes, loopVars, calls, stops, cand>>

Idle == [stage |-> "idle", task |-> NoTask, no |-> 0, epoch |-> 0]

\* "idle" is run_pending at its queue, "reconciling" the rest of the executor's cycle;
\* the others are the stages of _run_round.
Stages == {"idle", "reconciling", "scanned", "assembling", "pumping", "settling", "closing"}

Context    == [stage : Stages, task : Tasks \cup {NoTask}, no : Nat, epoch : Nat]
Callback   == [task : Tasks, no : Nat, epoch : Nat]
StopCall   == [why : {"deadline", "kill"}, task : Tasks, no : Nat, epoch : Nat,
               stage : {"stopping", "writing"}]
ReclaimRow == [task : Tasks, no : Nat, state : {"running", "cancelling", "dead"},
               owner : Instances \cup {NoInstance}, epoch : Nat]

\* The lease token of the round being executed is still the valid one.
FenceHeld == run.task # NoTask /\ FenceHolds(run.task, run.no, inst, run.epoch)

\* _rounds holds the context until _release_round_resources pops it.
InExecution(t, n) == run.task = t /\ run.no = n /\ run.stage # "closing"

\* container_alive: the engine is registered and its reader has not ended.
ContainerAlive(t) == run.task = t /\ run.stage \in {"pumping", "settling"} /\ engine = "alive"

Waiting(t) == \E k \in 1 .. Len(queue) : queue[k] = t

--------------------------------------------------------------------------------
(* dispatcher_loop: dispatch, reclaim and the sweeps, one after another *)

DispatcherFree == cand = {}

\* dispatch_once: the claim is committed, then the executor is notified.
Dispatch(t) ==
    /\ DispatcherFree
    /\ ClaimRound(t, inst)
    /\ queue' = Append(queue, t)
    /\ late' = IF run.task = NoTask /\ queue = <<>> THEN late \ {t} ELSE late \cup {t}
    /\ UNCHANGED <<inst, crashes, run, engine, renewal, calls, stops, cand>>

\* Somebody is about to renew the lease of t's round, or to take the round up or stop it.
\* What an earlier claim has left in the queue keeps no round that is being executed.
Kept(t) ==
    \/ Waiting(t) /\ run.task # t
    \/ InExecution(t, round[t].no) /\ (renewal = "on" \/ run.stage = "scanned")
    \/ \E s \in stops : s.task = t /\ s.why = "deadline"

\* The lease runs out.  Timely renewals prevent it for a round the executor takes up
\* at once; one that waited keeps the lease of its claim until the first renewal.
LeaseRunsOut(t) ==
    /\ LeaseTimely /\ Kept(t) => t \in late
    /\ LeaseExpires(t)
    /\ UNCHANGED <<inst, crashes, loopVars, calls, stops, cand>>

Candidate(t) == [task |-> t, no |-> round[t].no, state |-> round[t].state,
                 owner |-> round[t].owner, epoch |-> round[t].epoch]

Cancelling(t) == round[t].state = "cancelling"
Expired(t)    == round[t].state = "running" /\ round[t].lease = "expired"

\* Mutants of ReclaimScan: one of the two kinds of candidates is forgotten.
BugScan(Wanted(_)) ==
    /\ DispatcherFree
    /\ cand' = {Candidate(t) : t \in {x \in Tasks : Wanted(x)}} /\ cand' # {}
    /\ UNCHANGED <<storeVars, inst, crashes, loopVars, calls, stops>>

BugScanCancellingOnly == BugScan(Cancelling)
BugScanExpiredOnly    == BugScan(Expired)

\* Reclaim, phase 1: the candidates are read without locks.
ReclaimScan ==
    /\ DispatcherFree
    /\ cand' = {Candidate(t) : t \in {x \in Tasks : Cancelling(x) \/ Expired(x)}}
    /\ cand' # {}
    /\ UNCHANGED <<storeVars, inst, crashes, loopVars, calls, stops>>

\* Phase 2, a cancelling candidate: the probe, then a transaction of its own.
Probe(c) ==
    /\ c.state = "cancelling"
    /\ cand' = (cand \ {c}) \cup
                  (IF ContainerAlive(c.task) THEN {} ELSE {[c EXCEPT !.state = "dead"]})
    /\ UNCHANGED <<storeVars, inst, crashes, loopVars, calls, stops>>

CancelCandidate(c) ==
    /\ c.state = "dead"
    /\ \/ CancelCancellingRound(c.task, c.no)
       \/ /\ ~ (round[c.task].no = c.no /\ round[c.task].state = "cancelling")
          /\ UNCHANGED storeVars
    /\ cand' = cand \ {c}
    /\ UNCHANGED <<inst, crashes, loopVars, calls, stops>>

\* Phase 2, an expired candidate; it is dropped when the fence fails.
ReclaimCandidate(c) ==
    /\ c.state = "running"
    /\ \/ ReclaimExpiredRound(c.task, c.no, c.owner, c.epoch)
       \/ ~ FenceHolds(c.task, c.no, c.owner, c.epoch) /\ UNCHANGED storeVars
    /\ cand' = cand \ {c}
    /\ UNCHANGED <<inst, crashes, loopVars, calls, stops>>

Sweep(t) ==
    /\ DispatcherFree
    /\ SweepUploadTtl(t) \/ SweepTerminalCleanup(t)
    /\ UNCHANGED <<inst, crashes, loopVars, calls, stops, cand>>

--------------------------------------------------------------------------------
(* executor_loop: run_pending, then reconcile_pending_terminal *)

\* The head of the queue is scanned for a round this instance owns; an empty queue
\* ends run_pending.
TakeUp ==
    /\ run.stage = "idle" /\ queue # <<>>
    /\ LET t == Head(queue)
       IN run' = IF round[t].state = "running" /\ round[t].owner = inst
                 THEN [stage |-> "scanned", task |-> t,
                       no |-> round[t].no, epoch |-> round[t].epoch]
                 ELSE Idle
    /\ queue' = Tail(queue)
    /\ UNCHANGED <<storeVars, inst, crashes, engine, renewal, late, calls, stops, cand>>

Drained ==
    /\ run.stage = "idle" /\ queue = <<>>
    /\ run' = [Idle EXCEPT !.stage = "reconciling"]
    /\ UNCHANGED <<storeVars, inst, crashes, queue, engine, renewal, late, calls,
                   stops, cand>>

\* The recheck tests the fence, not the expiry; the renewal starts with a sleep.
Recheck ==
    /\ run.stage = "scanned"
    /\ run' = [run EXCEPT !.stage = IF FenceHeld THEN "assembling" ELSE "closing"]
    /\ renewal' = IF FenceHeld THEN "on" ELSE "off"
    /\ UNCHANGED <<storeVars, inst, crashes, queue, engine, late, calls, stops, cand>>

\* Everything up to engine.start; any of it may raise.
StartEngine ==
    /\ run.stage = "assembling"
    /\ run' = [run EXCEPT !.stage = "pumping"]
    /\ engine' = "alive"
    /\ UNCHANGED <<storeVars, inst, crashes, queue, renewal, late, calls, stops, cand>>

\* Mutant of Leave: the renewal is not cancelled.
BugRenewalSurvives == run' = [run EXCEPT !.stage = "closing"] /\ UNCHANGED renewal

\* _release_round_resources begins: context and token gone, renewal cancelled.
Leave == run' = [run EXCEPT !.stage = "closing"] /\ renewal' = "off"

AssemblyFails ==
    /\ run.stage = "assembling"
    /\ Leave
    /\ UNCHANGED <<storeVars, inst, crashes, queue, engine, late, calls, stops, cand>>

AgentSettles ==
    /\ run.stage = "pumping" /\ engine = "alive"
    /\ run' = [run EXCEPT !.stage = "settling"]
    /\ UNCHANGED <<storeVars, inst, crashes, queue, engine, renewal, late, calls,
                   stops, cand>>

AgentDies ==
    /\ run.stage = "pumping" /\ engine = "alive"
    /\ engine' = "dead"
    /\ UNCHANGED <<storeVars, inst, crashes, queue, run, renewal, late, calls,
                   stops, cand>>

\* _EngineDied: the reader has ended; the round is left to the lease.
EngineDied ==
    /\ run.stage = "pumping" /\ engine = "dead"
    /\ Leave
    /\ UNCHANGED <<storeVars, inst, crashes, queue, engine, late, calls, stops, cand>>

\* _require_v2_task_token: a callback of the container is admitted while the token of
\* its attempt is registered.  What follows awaits, and the attempt may end meanwhile.
AdmitCallback ==
    /\ run.stage \in {"pumping", "settling"}
    /\ Cardinality(calls) < MaxCalls
    /\ calls' = calls \cup {[task |-> run.task, no |-> run.no, epoch |-> run.epoch]}
    /\ UNCHANGED <<storeVars, inst, crashes, loopVars, stops, cand>>

\* The output is registered under the token the callback was admitted with.
WriteOutput(c, b, old) ==
    /\ RegisterOutput(c.task, c.no, c.epoch, b, old)
    /\ calls' = calls \ {c}
    /\ UNCHANGED <<inst, crashes, loopVars, stops, cand>>

\* It is refused by one of its checks, by a limit, by the fence, or it raises.
CallFails(c) ==
    /\ calls' = calls \ {c}
    /\ UNCHANGED <<storeVars, inst, crashes, loopVars, stops, cand>>

\* Mutant of SettleRound: the round is settled whoever holds it by now.
BugSettleUnfenced ==
    /\ run.stage = "settling"
    /\ round' = [round EXCEPT ![run.task] = Unleased(@, "settled")]
    /\ status' = [status EXCEPT ![run.task] = "ready"]
    /\ ReleaseHoldings(run.task, "ready")
    /\ Leave
    /\ UNCHANGED <<pendingTerminal, startedToday, inst, crashes, queue, engine, late,
                   calls, stops, cand>>

\* settle: written under the fence, nothing at all without it, or rolled back.
SettleRound ==
    /\ run.stage = "settling"
    /\ \/ \E revoked \in BOOLEAN : Settle(run.task, run.no, inst, run.epoch, revoked)
       \/ ~ FenceHeld /\ UNCHANGED storeVars
    /\ Leave
    /\ UNCHANGED <<inst, crashes, queue, engine, late, calls, stops, cand>>

SettleRaises ==
    /\ run.stage = "settling"
    /\ Leave
    /\ UNCHANGED <<storeVars, inst, crashes, queue, engine, late, calls, stops, cand>>

\* engine.stop and the removal of the container have returned.
Close ==
    /\ run.stage = "closing"
    /\ run' = Idle
    /\ engine' = "none"
    /\ UNCHANGED <<storeVars, inst, crashes, queue, renewal, late, calls, stops, cand>>

Reconcile(t) ==
    /\ run.stage = "reconciling"
    /\ ReconcilePendingTerminal(t)
    /\ UNCHANGED <<inst, crashes, loopVars, calls, stops, cand>>

\* The candidates are done, or a transaction raised and the cycle is retried.
NextCycle ==
    /\ run.stage = "reconciling"
    /\ run' = Idle
    /\ UNCHANGED <<storeVars, inst, crashes, queue, engine, renewal, late, calls,
                   stops, cand>>

--------------------------------------------------------------------------------
(* _renew_loop, the deadline watchdog, and the kill switch *)

Renew ==
    /\ renewal = "on"
    /\ \/ /\ RenewLease(run.task, run.no, inst, run.epoch)
          /\ late' = late \ {run.task}
          /\ UNCHANGED renewal
       \/ /\ ~ FenceHeld
          /\ renewal' = "off"
          /\ UNCHANGED <<storeVars, late>>
    /\ UNCHANGED <<inst, crashes, queue, run, engine, calls, stops, cand>>

Stop(why, t, n, e, stage) == [why |-> why, task |-> t, no |-> n, epoch |-> e, stage |-> stage]

\* Mutant of DeadlinePasses: the loop goes on.
BugDeadlineOnlyLogs == renewal = "on" /\ UNCHANGED runtimeVars

\* The deadline is noticed at a beat of the renewal, which ends with it.
DeadlinePasses ==
    /\ renewal = "on"
    /\ renewal' = "off"
    /\ stops' = stops \cup {Stop("deadline", run.task, run.no, run.epoch, "stopping")}
    /\ UNCHANGED <<storeVars, inst, crashes, queue, run, engine, late, calls, cand>>

\* A tool, an MCP server or a user is switched off: only a running round is stopped.
KillSwitch(t) ==
    /\ t \in Switched
    /\ status[t] \in {"queued", "running"}
    /\ \A s \in stops : s.task = t => s.why # "kill"
    /\ stops' = stops \cup
                   {Stop("kill", t, round[t].no, 0,
                         IF round[t].state = "running" THEN "stopping" ELSE "writing")}
    /\ UNCHANGED <<storeVars, inst, crashes, loopVars, calls, cand>>

\* stop_round returns: the round has left the executor, or the time is up and the
\* engine, if there is one yet, is stopped.
StopRound(s) ==
    /\ s.stage = "stopping"
    /\ engine' = IF /\ InExecution(s.task, s.no) /\ engine = "alive"
                    /\ s.why = "deadline" => run.epoch = s.epoch
                 THEN "dead" ELSE engine
    /\ stops' = (stops \ {s}) \cup {[s EXCEPT !.stage = "writing"]}
    /\ UNCHANGED <<storeVars, inst, crashes, queue, run, renewal, late, calls, cand>>

\* The write that follows; a lost race writes nothing.
WriteStopped(s) ==
    /\ s.stage = "writing"
    /\ \/ /\ s.why = "deadline"
          /\ \/ FailOnDeadline(s.task, s.no, inst, s.epoch)
             \/ ~ FenceHolds(s.task, s.no, inst, s.epoch) /\ UNCHANGED storeVars
       \/ /\ s.why = "kill"
          /\ \/ TerminateTask(s.task)
             \/ status[s.task] \notin {"queued", "running"} /\ UNCHANGED storeVars
    /\ stops' = stops \ {s}
    /\ UNCHANGED <<inst, crashes, loopVars, calls, cand>>

\* That transaction raises: the error is logged, or answered to the administrator.
WriteRaises(s) ==
    /\ s.stage = "writing"
    /\ stops' = stops \ {s}
    /\ UNCHANGED <<storeVars, inst, crashes, loopVars, calls, cand>>

--------------------------------------------------------------------------------
\* The process dies and is started again; the pid may be the same.
Crash ==
    /\ crashes < MaxCrashes
    /\ crashes' = crashes + 1
    /\ inst' \in Instances
    /\ queue' = <<>> /\ run' = Idle /\ engine' = "none" /\ renewal' = "off"
    /\ late' = {} /\ calls' = {} /\ stops' = {} /\ cand' = {}
    /\ UNCHANGED storeVars

\* The requests of users and administrators that need nothing of the process.
Request(t) ==
    /\ \/ CreateTask(t) \/ SendMessage(t)
       \/ \E n \in Sizes : CommitInput(t, n)
       \/ t \in Disturbed /\ (AbortTask(t) \/ CompleteTask(t) \/ DeleteTask(t))
    /\ UNCHANGED <<inst, crashes, loopVars, calls, stops, cand>>

UserWide(u) ==
    /\ TasksOf(u) \subseteq Disturbed
    /\ UserStep(u)
    /\ UNCHANGED <<inst, crashes, loopVars, calls, stops, cand>>

RuntimeInit ==
    /\ Init
    /\ inst \in Instances /\ crashes = 0
    /\ queue = <<>> /\ run = Idle /\ engine = "none" /\ renewal = "off"
    /\ late = {} /\ calls = {} /\ stops = {} /\ cand = {}

DispatcherStep ==
    \/ \E t \in Tasks : Dispatch(t) \/ Sweep(t)
    \/ ReclaimScan
    \/ \E c \in cand : Probe(c) \/ CancelCandidate(c) \/ ReclaimCandidate(c)

ExecutorStep ==
    \/ TakeUp \/ Drained \/ NextCycle \/ Recheck \/ StartEngine \/ AssemblyFails
    \/ EngineDied \/ SettleRound \/ SettleRaises \/ Close
    \/ \E t \in Tasks : Reconcile(t)

AgentStep ==
    \/ AgentSettles \/ AgentDies \/ AdmitCallback
    \/ \E c \in calls :
          \/ CallFails(c)
          \/ \E b \in Sizes, old \in {0, copyBytes[c.task]} : WriteOutput(c, b, old)

WatchStep ==
    \/ Renew \/ DeadlinePasses
    \/ \E s \in stops : StopRound(s) \/ WriteStopped(s) \/ WriteRaises(s)

RuntimeNext ==
    \/ DispatcherStep \/ ExecutorStep \/ AgentStep \/ WatchStep \/ Crash
    \/ \E t \in Tasks : Request(t) \/ KillSwitch(t) \/ LeaseRunsOut(t)
    \/ \E u \in Users : UserWide(u)

RuntimeSpec == RuntimeInit /\ [][RuntimeNext]_runtimeVars

--------------------------------------------------------------------------------
(* Fairness *)

\* Every loop goes on, every await returns and time passes.  Dispatch and Reconcile
\* are tried in every pass of a loop that is busy with other things in between.
\* Nothing is assumed of the agent, of requests, of failures and of transactions
\* that raise.
LoopFairness ==
    /\ WF_runtimeVars(TakeUp) /\ WF_runtimeVars(Drained) /\ WF_runtimeVars(NextCycle)
    /\ WF_runtimeVars(Recheck) /\ WF_runtimeVars(StartEngine \/ AssemblyFails)
    /\ WF_runtimeVars(EngineDied) /\ WF_runtimeVars(SettleRound \/ SettleRaises)
    /\ WF_runtimeVars(Close)
    /\ WF_runtimeVars(ReclaimScan)
    /\ WF_runtimeVars(\E c \in cand : Probe(c) \/ CancelCandidate(c) \/ ReclaimCandidate(c))
    /\ WF_runtimeVars(DeadlinePasses)
    /\ \A why \in {"deadline", "kill"} :
          WF_runtimeVars(\E s \in stops : s.why = why /\ (\/ StopRound(s)
                                                          \/ WriteStopped(s)
                                                          \/ WriteRaises(s)))
    /\ \A t \in Tasks : /\ WF_runtimeVars(LeaseRunsOut(t))
                        /\ SF_runtimeVars(Dispatch(t))
                        /\ SF_runtimeVars(Reconcile(t))

FairSpec == RuntimeSpec /\ LoopFairness

\* What some liveness properties need besides: the agent of a running container
\* settles, or its container dies.
AgentsEnd == WF_runtimeVars(AgentSettles \/ AgentDies)

--------------------------------------------------------------------------------
(* Properties *)

\* Type invariant, with what the release of a round's resources guarantees: no
\* renewal and no container outlive the context they belong to.
RuntimeTypeOK ==
    /\ inst \in Instances /\ crashes \in 0 .. MaxCrashes
    /\ queue \in Seq(Tasks)
    /\ run \in Context
    /\ run.stage \in {"idle", "reconciling"} <=> run.task = NoTask
    /\ engine \in {"none", "alive", "dead"}
    /\ engine # "none" => run.stage \in {"pumping", "settling", "closing"}
    /\ renewal \in {"on", "off"}
    /\ renewal = "on" => run.stage \in {"assembling", "pumping", "settling"}
    /\ late \subseteq Tasks
    /\ calls \subseteq Callback
    /\ stops \subseteq StopCall
    /\ cand \subseteq ReclaimRow

\* An output is charged only by a callback of the execution that holds the lease,
\* however long ago it was admitted: one whose round was reclaimed meanwhile, and is
\* queued, claimed again or taken up by another process, changes nothing.  The write
\* compares the round's number, epoch and state, but neither the token nor the owner
\* (register_output); that the owner is this process follows from no epoch being
\* issued twice, and from callbacks dying with the process that admitted them.
OnlyHolderWritesStep(t) ==
    copyBytes'[t] > copyBytes[t] =>
       /\ status[t] = "running"
       /\ \E c \in calls \ calls' : c.task = t /\ FenceHolds(t, c.no, inst, c.epoch)

OnlyHolderWrites == [][\A t \in Tasks : OnlyHolderWritesStep(t)]_runtimeVars

\* The process takes only steps the durable model allows: every lease token it
\* presents was issued, and no handler writes outside its transaction.
ImplementsStore == Spec

\* _enforce_round_deadline and reclaim: whatever the agent does, however late the
\* answers are and wherever the process crashes, a round does not run for ever.
RunningRoundEnds ==
    \A t \in Tasks : round[t].state = "running" ~> round[t].state # "running"

\* A queued task is executed to an end or given up: no crash, lost notification,
\* expired lease or raised transaction leaves it queued or running for ever.
QueuedTaskEnds ==
    \A t \in Tasks : status[t] = "queued" ~> status[t] \notin {"queued", "running"}

\* README.md on abort: timeout and crash are closed by the reclaim job.  An accepted
\* abort or complete of a running task ends the task.
IntentEnds ==
    \A t \in Tasks : status[t] = "running" /\ pendingTerminal[t] # "none"
                        ~> status[t] # "running"

\* When no agent hangs, both hold with requests, kill switches and a crash at any point.
QueuedTaskEndsIfAgentsDo == AgentsEnd => QueuedTaskEnds
IntentEndsIfAgentsDo     == AgentsEnd => IntentEnds

--------------------------------------------------------------------------------
(* Documented, and not kept by the code *)

\* README.md on leases: an expired lease is fenced, and the round is retried only
\* after its container is known to be dead.
RetryOnlyDead ==
    [][\A t \in Tasks :
          round[t].state = "running" /\ round'[t].state = "pending" =>
             ~ ContainerAlive(t)]_runtimeVars

\* container_alive: FALSE means that the container is certainly dead, so that a
\* living round is never cancelled behind the executor's back by mistake.
CancelledMeansDead ==
    \A t \in Tasks :
       ContainerAlive(t) =>
          ~ (status[t] = "running" /\ round[t].no = run.no /\ round[t].state = "cancelled")

\* The executor's notes on renewal: it starts right after the recheck so that no
\* assembly starves the lease.  While it runs and is never late, the lease is live.
LeaseNotStarved ==
    LeaseTimely /\ renewal = "on" /\ FenceHeld => round[run.task].lease = "live"

================================================================================
