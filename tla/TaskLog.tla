--------------------------------- MODULE TaskLog ---------------------------------
(***************************************************************************)
(* What one task writes to its event log, and who announces it.            *)
(* Transactions append to task_events under the lock of the task row, so   *)
(* the order of the log is the order of the commits; the frames that       *)
(* announce them are published after the commit by the coroutine that      *)
(* wrote, all those of a transaction in one go.  Which transactions may    *)
(* follow each other is reduced here to the status of the task, the state  *)
(* of its round and what the executor is doing (TaskStore has the rest).   *)
(***************************************************************************)
EXTENDS Naturals, Sequences, FiniteSets

CONSTANTS
    Writers,      \* the coroutines that commit and publish
    MaxEvents     \* bound: the length of the log

ASSUME LogAssumption ==
    /\ {"request", "dispatcher", "executor", "watchdog"} \subseteq Writers
    /\ MaxEvents \in Nat

VARIABLES
    log,          \* task_events, each by what it tells a client
    status,       \* tasks.status
    round,        \* the state of the active round
    pump,         \* _pump_round and settle of the executor
    fence,        \* the lease of that execution still holds
    unsaved,      \* ctx.pending_assistant
    frames        \* what a writer has committed and not yet published

taskVars == <<log, status, round>>
pumpVars == <<pump, fence, unsaved>>
logVars  == <<taskVars, pumpVars, frames>>

Saved    == {"user", "tool", "assistant"}                \* message_saved, by author
Statuses == {"ready", "queued", "running", "ended"}      \* status_changed
Rounds   == {"round_queued", "round_running", "round_settled", "round_ended"}
Kinds    == Saved \cup Statuses \cup Rounds

\* A frame without a sequence (0) is transient; "done" is the pump's.
Frame  == [seq : Nat, kind : Kinds \cup {"done"}]
Done   == [seq |-> 0, kind |-> "done"]

\* _event_frame: only round_running has no frame of its own.
HasFrame(e) == e # "round_running"

\* The frame of the i-th event of the transaction that is being written.
Announce(i, e) == [seq |-> Len(log) + i, kind |-> e]

\* One transaction of writer w and the frames it leaves to be published.
Commit(w, events, fs) ==
    /\ frames[w] = <<>>
    /\ Len(log) + Len(events) <= MaxEvents
    /\ log' = log \o events
    /\ frames' = [frames EXCEPT ![w] = fs]

\* publish_runtime_frames: a loop without an await, for every frame left by w.
Published(w) == frames[w] # <<>> /\ frames' = [frames EXCEPT ![w] = <<>>]

--------------------------------------------------------------------------------
(* Writers *)

\* send_message; its frames leave in an after_commit listener.
SendMessage ==
    /\ status = "ready"
    /\ Commit("request", <<"user", "queued", "round_queued">>,
              <<Announce(1, "user"), Announce(2, "queued"), Announce(3, "round_queued")>>)
    /\ status' = "queued" /\ round' = "pending"
    /\ UNCHANGED pumpVars

\* abort_task and complete_task before the round runs: events, but no frames.
EndUnstarted ==
    /\ status \in {"ready", "queued"}
    /\ Commit("request", IF round = "pending" THEN <<"ended", "round_ended">> ELSE <<"ended">>, <<>>)
    /\ status' = "ended" /\ round' = "none"
    /\ UNCHANGED pumpVars

\* _request_terminal_while_running: an intent, without an event.
RequestEnd ==
    /\ status = "running" /\ round = "running"
    /\ round' = "cancelling" /\ fence' = FALSE
    /\ UNCHANGED <<log, status, pump, unsaved, frames>>

ClaimRound ==
    /\ status = "queued" /\ round = "pending"
    /\ Commit("dispatcher", <<"running", "round_running">>, <<Announce(1, "running")>>)
    /\ status' = "running" /\ round' = "running"
    /\ UNCHANGED pumpVars

\* Reclaim: a live attempt is queued again, the last one fails the task.
RequeueRound ==
    /\ round = "running"
    /\ Commit("dispatcher", <<"queued", "round_queued">>,
              <<Announce(1, "queued"), Announce(2, "round_queued")>>)
    /\ status' = "queued" /\ round' = "pending" /\ fence' = FALSE
    /\ UNCHANGED <<pump, unsaved>>

\* Reclaim at the last attempt, the deadline, and the terminators of kill switches.
EndRound(w) ==
    /\ w \in {"dispatcher", "watchdog"} /\ round \in {"running", "pending"}
    /\ Commit(w, <<"ended", "round_ended">>, <<Announce(1, "ended"), Done>>)
    /\ status' = "ended" /\ round' = "none" /\ fence' = FALSE
    /\ UNCHANGED <<pump, unsaved>>

CancelRound ==
    /\ round = "cancelling"
    /\ Commit("dispatcher", <<"round_ended">>, <<Done>>)
    /\ round' = "none"
    /\ UNCHANGED <<status, pumpVars>>

\* reconcile_pending_terminal runs in the executor's loop, between two rounds.
Reconcile ==
    /\ status = "running" /\ round = "none" /\ pump = "idle"
    /\ Commit("executor", <<"ended">>, <<Announce(1, "ended")>>)
    /\ status' = "ended"
    /\ UNCHANGED <<round, pumpVars>>

\* _run_round begins to pump the events of the engine.
StartPump ==
    /\ pump = "idle" /\ round = "running" /\ frames["executor"] = <<>>
    /\ pump' = "pumping" /\ fence' = TRUE /\ unsaved' = FALSE
    /\ UNCHANGED <<taskVars, frames>>

\* _persist_tool: the row and its event, but a tool_event frame without sequence.
PersistTool ==
    /\ pump = "pumping" /\ fence
    /\ Commit("executor", <<"tool">>, <<>>)
    /\ UNCHANGED <<status, round, pumpVars>>

PersistAssistant ==
    /\ pump = "pumping" /\ fence
    /\ Commit("executor", <<"assistant">>, <<Announce(1, "assistant")>>)
    /\ UNCHANGED <<status, round, pumpVars>>

\* Mutant of PersistFails: the frame carries the sequence that was not written.
BugAnnouncedAnyway ==
    /\ pump = "pumping" /\ frames["executor"] = <<>>
    /\ unsaved' = TRUE
    /\ frames' = [frames EXCEPT !["executor"] = <<Announce(1, "assistant")>>]
    /\ UNCHANGED <<taskVars, pump, fence>>

\* The fence fails, or the database does: the frame goes out without a sequence,
\* and after a failure of the database settle is to write the message.
PersistFails ==
    /\ pump = "pumping" /\ frames["executor"] = <<>>
    /\ unsaved' \in {unsaved, TRUE}
    /\ fence => unsaved'
    /\ frames' = [frames EXCEPT !["executor"] = <<[seq |-> 0, kind |-> "assistant"]>>]
    /\ UNCHANGED <<taskVars, pump, fence>>

\* agent_settled: the pump publishes done and returns, settle comes after it.
AgentSettled ==
    /\ pump = "pumping" /\ frames["executor"] = <<>>
    /\ pump' = "settling"
    /\ frames' = [frames EXCEPT !["executor"] = <<Done>>]
    /\ UNCHANGED <<taskVars, fence, unsaved>>

\* settle: nothing is published, and without the lease nothing is written either.
Settle ==
    /\ pump = "settling" /\ fence
    /\ \E final \in {"ready", "ended"} :
         /\ Commit("executor",
                   (IF unsaved THEN <<"assistant">> ELSE <<>>) \o <<"round_settled", final>>, <<>>)
         /\ status' = final
    /\ round' = "none"
    /\ pump' = "idle" /\ fence' = FALSE /\ unsaved' = FALSE

\* The engine dies under the pump, or settle abstains.
PumpEnds ==
    /\ \/ pump = "pumping"
       \/ pump = "settling" /\ ~ fence
    /\ frames["executor"] = <<>>
    /\ pump' = "idle" /\ fence' = FALSE /\ unsaved' = FALSE
    /\ UNCHANGED <<taskVars, frames>>

\* What the loops and the admin write; the requests of the owner are separate.
LoopsWrite ==
    \/ ClaimRound \/ RequeueRound \/ CancelRound \/ Reconcile
    \/ \E w \in Writers : EndRound(w)
    \/ StartPump \/ PersistTool \/ PersistAssistant \/ PersistFails
    \/ AgentSettled \/ Settle \/ PumpEnds

\* Sequences are counted from where the model begins: before, between or in the rounds.
LogInit ==
    /\ log = <<>> /\ unsaved = FALSE
    /\ \/ status = "ready" /\ round = "none" /\ pump = "idle" /\ fence = FALSE
       \/ status = "queued" /\ round = "pending" /\ pump = "idle" /\ fence = FALSE
       \/ status = "running" /\ round = "running" /\ pump = "pumping" /\ fence = TRUE
    /\ frames = [w \in Writers |-> <<>>]

LogTypeOK ==
    /\ log \in Seq(Kinds) /\ Len(log) <= MaxEvents
    /\ status \in Statuses /\ round \in {"none", "pending", "running", "cancelling"}
    /\ pump \in {"idle", "pumping", "settling"} /\ fence \in BOOLEAN /\ unsaved \in BOOLEAN
    /\ frames \in [Writers -> Seq(Frame)]

================================================================================
