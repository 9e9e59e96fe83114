------------------------------ MODULE AgentRound ------------------------------
(***************************************************************************)
(* One round as its agent lives it.  The executor assembles a container    *)
(* from what the task was granted (TaskGrants), sends the prompt, persists *)
(* the facts that come back over stdout (AgentPipe) and settles; meanwhile *)
(* the agent calls its model through the provider proxy, a process of its  *)
(* own that exchanges the task token for the key and remembers it.  The    *)
(* control plane may crash and leave a container behind; leases expire     *)
(* under a round that still runs.                                          *)
(***************************************************************************)
EXTENDS AgentPipe, TaskGrants

CONSTANTS
    MaxFrames,        \* bound: deltas and tool results an attempt writes
    MaxDisturbances   \* bound, by transport: crashes, deaths, key changes and switches

ASSUME AgentAssumption == MaxFrames \in Nat /\ MaxDisturbances \in [Transports -> Nat]

VARIABLES
    att,              \* the _RoundContext being executed
    notified,         \* the claim is in notify_queue
    answers,          \* assistant messages stored by each attempt
    box,              \* the container pi-task-<task id>, and whose token it holds
    agent,            \* what the agent in it has done
    grant,            \* a provider-grant under way: the key version it has read
    cache,            \* the proxy's grant_cache entry of this round: a key version
    used,             \* key versions that reached the upstream for this round
    disturbances      \* how many of the bounded events have happened

procVars  == <<att, notified>>
boxVars   == <<box, agent>>
proxyVars == <<grant, cache, used>>
vars == <<pipeVars, taskVars, grantVars, procVars, answers, boxVars, proxyVars, disturbances,
          transport>>

Idle == [stage |-> "idle", epoch |-> 0, exposes |-> FALSE, pending |-> FALSE]

Attempts == 1 .. MaxAttempts
Phases == {"idle", "assembling", "launching", "prompting", "pumping", "settling", "releasing"}

FreshAgent == [pc |-> "prompted", left |-> MaxFrames, answer |-> "none"]

\* The lease token of the attempt is still the one of the round.
Fenced == round.state = "running" /\ round.mine /\ round.epoch = att.epoch

Disturb == disturbances < MaxDisturbances[transport] /\ disturbances' = disturbances + 1

To(stage) == att' = [att EXCEPT !.stage = stage]

--------------------------------------------------------------------------------
(* The executor *)

\* dispatch_once: claim and notify.
Claim ==
    /\ round.state = "pending" /\ status = "queued"
    /\ status' = "running"
    /\ round' = [state |-> "running", epoch |-> round.epoch + 1, mine |-> TRUE]
    /\ notified' = TRUE
    /\ UNCHANGED <<pipeVars, snap, mount, grantVars, att, answers, boxVars, proxyVars,
                   disturbances>>

\* run_pending and the recheck at the head of _run_round.
Recheck ==
    /\ att.stage = "idle" /\ notified
    /\ notified' = FALSE
    /\ att' = IF round.state = "running" /\ round.mine
              THEN [Idle EXCEPT !.stage = "assembling", !.epoch = round.epoch] ELSE Idle
    /\ UNCHANGED <<pipeVars, taskVars, grantVars, answers, boxVars, proxyVars, disturbances>>

\* Mutant of Resolve: the mounted servers are taken from the snapshot as they are.
BugResolve ==
    /\ att.stage = "assembling"
    /\ att' = IF provider.active
              THEN [att EXCEPT !.stage = "launching", !.exposes = mount]
              ELSE [att EXCEPT !.stage = "releasing"]
    /\ UNCHANGED <<pipeVars, taskVars, grantVars, notified, answers, boxVars, proxyVars,
                   disturbances>>

\* The provider is resolved and the mounted servers are looked up again; a revoked
\* provider ends the attempt.
Resolve ==
    /\ att.stage = "assembling"
    /\ att' = IF provider.active
              THEN [att EXCEPT !.stage = "launching", !.exposes = mount /\ server = "on"]
              ELSE [att EXCEPT !.stage = "releasing"]
    /\ UNCHANGED <<pipeVars, taskVars, grantVars, notified, answers, boxVars, proxyVars,
                   disturbances>>

\* transport.start and the prompt.  The name is the task's: a container left behind is
\* in the way.
Launch ==
    /\ att.stage = "launching"
    /\ IF box.up
       THEN To("releasing") /\ UNCHANGED <<pipeVars, boxVars>>
       ELSE /\ To("prompting")
            /\ box' = [up |-> TRUE, epoch |-> att.epoch]
            /\ agent' = FreshAgent
            /\ pipe' = <<>> /\ buf' = <<>> /\ queue' = <<>>
            /\ rd' = At("line") /\ torn' = Intact
    /\ UNCHANGED <<taskVars, grantVars, notified, answers, proxyVars, disturbances>>

\* The response resolves the future of send_prompt.
Acknowledge ==
    /\ att.stage = "prompting" /\ AckNext
    /\ buf' = AfterLine
    /\ To("pumping")
    /\ UNCHANGED <<pipe, rd, queue, torn, taskVars, grantVars, notified, answers, boxVars,
                   proxyVars, disturbances>>

\* send_prompt times out, or fails with the reader.
PromptFails ==
    /\ att.stage = "prompting"
    /\ To("releasing")
    /\ UNCHANGED <<pipeVars, taskVars, grantVars, notified, answers, boxVars, proxyVars,
                   disturbances>>

Read ==
    /\ Reading /\ ~ (att.stage = "prompting" /\ AckNext)
    /\ UNCHANGED <<taskVars, grantVars, procVars, answers, boxVars, proxyVars, disturbances>>

\* The container died, and its stdout with it; or the reader fails.
ReadEof ==
    /\ \/ (~ box.up \/ box.epoch # att.epoch) /\ Eof
       \/ Undecodable
    /\ UNCHANGED <<taskVars, grantVars, procVars, answers, boxVars, proxyVars, disturbances>>

Stored(n) == answers' = [answers EXCEPT ![att.epoch] = @ + n]

\* _persist_fact: written under the fence, refused by it, or failed.  A failed answer is
\* remembered for settle, whether or not its commit went through.
Persist ==
    /\ rd.stage = "persist"
    /\ rd' = With("put", rd.kind)
    /\ \/ /\ Fenced
          /\ IF rd.kind = "answer" THEN Stored(1) ELSE UNCHANGED answers
          /\ UNCHANGED att
       \/ ~ Fenced /\ UNCHANGED <<answers, att>>
       \/ /\ att' = [att EXCEPT !.pending = @ \/ rd.kind = "answer"]
          /\ \/ UNCHANGED answers
             \/ Fenced /\ rd.kind = "answer" /\ Stored(1)
    /\ UNCHANGED <<pipe, buf, queue, torn, taskVars, grantVars, notified, boxVars, proxyVars,
                   disturbances>>

\* _pump_round: the queue first; a reader that ended with nothing queued is a death.
Pump ==
    /\ att.stage = "pumping" /\ queue # <<>>
    /\ queue' = Tail(queue)
    /\ IF Head(queue) = "settled" THEN To("settling") ELSE UNCHANGED att
    /\ UNCHANGED <<pipe, buf, rd, torn, taskVars, grantVars, notified, answers, boxVars,
                   proxyVars, disturbances>>

EngineDied ==
    /\ att.stage = "pumping" /\ queue = <<>> /\ rd.stage = "ended"
    /\ To("releasing")
    /\ UNCHANGED <<pipeVars, taskVars, grantVars, notified, answers, boxVars, proxyVars,
                   disturbances>>

\* _provider_revoked.
KeyReplaced == ~ provider.active \/ provider.version # snap

\* The mutants of Settle leave out the comparison of the keys, or the make-up.
SettleWith(fence, filled, replaced) ==
    /\ att.stage = "settling"
    /\ To("releasing")
    /\ IF fence
       THEN /\ round' = [round EXCEPT !.state = "settled"]
            /\ status' = IF status # "running" THEN status
                         ELSE IF replaced THEN "aborted" ELSE "ready"
            /\ IF filled THEN Stored(1) ELSE UNCHANGED answers
       ELSE UNCHANGED <<round, status, answers>>
    /\ UNCHANGED <<pipeVars, snap, mount, grantVars, notified, boxVars, proxyVars, disturbances>>

BugSettleAnyKey   == SettleWith(Fenced, att.pending, FALSE)
BugSettleNoAnswer == SettleWith(Fenced, FALSE, KeyReplaced)

\* settle: one transaction, then the release.
Settle == SettleWith(Fenced, att.pending, KeyReplaced)

\* The transaction fails: nothing is written, the round is left to its lease.
SettleFails ==
    /\ att.stage = "settling"
    /\ To("releasing")
    /\ UNCHANGED <<pipeVars, taskVars, grantVars, notified, answers, boxVars, proxyVars,
                   disturbances>>

\* _release_round_resources: reader and container go.  The removal is by name, and only
\* attempted: a failure is logged.
Release ==
    /\ att.stage = "releasing"
    /\ att' = Idle
    /\ rd' = At("ended") /\ pipe' = <<>> /\ buf' = <<>> /\ queue' = <<>> /\ torn' = Intact
    /\ \/ box' = [box EXCEPT !.up = FALSE]
       \/ UNCHANGED box
    /\ UNCHANGED <<taskVars, grantVars, notified, answers, agent, proxyVars, disturbances>>

--------------------------------------------------------------------------------
(* The agent in its container; only the attached attempt reads its stdout *)

Attached == box.up /\ box.epoch = att.epoch /\ rd.stage # "ended"
            /\ att.stage \in {"prompting", "pumping", "settling"}

Write(kind, n) == pipe' = IF Attached THEN pipe \o Line(kind, n) ELSE pipe

AgentStep(kind, n, next) ==
    /\ box.up
    /\ Write(kind, n)
    /\ agent' = next
    /\ UNCHANGED <<buf, rd, queue, torn, taskVars, grantVars, procVars, answers, box, proxyVars,
                   disturbances>>

Accept == agent.pc = "prompted" /\ AgentStep("ack", 1, [agent EXCEPT !.pc = "working"])

\* The model has answered: the proxy has a key for the round.
Called == cache # 0

Say ==
    /\ agent.pc = "working" /\ Called /\ agent.left > 0
    /\ LET next == [agent EXCEPT !.left = @ - 1]
       IN  AgentStep("delta", 1, next) \/ \E n \in Sizes : AgentStep("tool", n, next)

\* message_end with stopReason "stop".
Answer ==
    /\ agent.pc = "working" /\ Called
    /\ \E n \in Sizes :
          AgentStep("answer", n, [pc |-> "answered", left |-> 0,
                                  answer |-> IF n <= Limit THEN "whole" ELSE "lost"])

\* An aborted or failed turn has no answer.
GiveNoAnswer ==
    /\ agent.pc = "working" /\ box.up
    /\ agent' = [agent EXCEPT !.pc = "answered", !.left = 0]
    /\ UNCHANGED <<pipeVars, taskVars, grantVars, procVars, answers, box, proxyVars, disturbances>>

Finish == agent.pc = "answered" /\ AgentStep("settled", 1, [agent EXCEPT !.pc = "settled"])

ContainerDies ==
    /\ box.up /\ Disturb
    /\ box' = [box EXCEPT !.up = FALSE]
    /\ UNCHANGED <<pipeVars, taskVars, grantVars, procVars, answers, agent, proxyVars>>

--------------------------------------------------------------------------------
(* The model call: the proxy and the grant of the control plane *)

Calling == box.up /\ agent.pc = "working"

\* A remembered key is used without asking again.
CallWithCached ==
    /\ Calling /\ cache # 0
    /\ used' = used \cup {cache}
    /\ UNCHANGED <<pipeVars, taskVars, grantVars, procVars, answers, boxVars, grant, cache,
                   disturbances>>

\* provider_grant, first transaction: the fence, the provider row and its sealed key.
GrantCheck ==
    /\ Calling /\ cache = 0 /\ grant = 0
    /\ round.state = "running" /\ round.epoch = box.epoch
    /\ provider.active
    /\ grant' = provider.version
    /\ UNCHANGED <<pipeVars, taskVars, grantVars, procVars, answers, boxVars, cache, used,
                   disturbances>>

\* The audit row, of which nothing is told here, is committed; then the key is opened,
\* remembered and used.
GrantIssue ==
    /\ grant # 0 /\ cache = 0
    /\ cache' = grant
    /\ used' = used \cup {grant}
    /\ grant' = 0
    /\ UNCHANGED <<pipeVars, taskVars, grantVars, procVars, answers, boxVars, disturbances>>

\* The audit fails: no key.
GrantRefused ==
    /\ grant # 0
    /\ grant' = 0
    /\ UNCHANGED <<pipeVars, taskVars, grantVars, procVars, answers, boxVars, cache, used,
                   disturbances>>

--------------------------------------------------------------------------------
(* The owner's requests, and the linkage of a switch *)

NoProcess == UNCHANGED <<pipeVars, procVars, answers, boxVars, proxyVars>>

Create    == (ReadSources \/ InsertTask \/ CommitInput) /\ NoProcess /\ UNCHANGED disturbances
LoseLease == Expire /\ NoProcess /\ UNCHANGED disturbances
ChangeKey == (Revoke \/ \E c \in Callers : ReadForRotation(c)) /\ NoProcess /\ Disturb
WriteKey  == (\E c \in Callers : Rotate(c)) /\ NoProcess /\ UNCHANGED disturbances
Switch    == SwitchOff /\ NoProcess /\ Disturb
Return    == SwitchOn /\ NoProcess /\ UNCHANGED disturbances

Executing == att.stage # "idle" /\ round.mine /\ att.epoch = round.epoch

LinkScan  == Scan(Executing) /\ NoProcess /\ UNCHANGED disturbances
LinkWrite == (WriteEnd \/ LinkFails) /\ NoProcess /\ UNCHANGED disturbances

\* stop_round returns when the attempt has closed, or its five seconds are over: then
\* the engine is stopped, if there is one yet.
LinkStop ==
    /\ link = "stopping"
    /\ link' = "writing"
    /\ \/ UNCHANGED rd
       \/ /\ att.stage \in {"prompting", "pumping"}
          /\ rd' = At("ended")
    /\ UNCHANGED <<pipe, buf, queue, torn, taskVars, provider, rotating, overwritten, server,
                   procVars, answers, boxVars, proxyVars, disturbances>>

\* The control plane dies and comes back.  Behind the Docker API the container lives on;
\* the process of docker run ends with its parent's pipes.
Crash ==
    /\ Disturb
    /\ att' = Idle /\ notified' = FALSE
    /\ round' = [round EXCEPT !.mine = FALSE]
    /\ rd' = At("ended") /\ pipe' = <<>> /\ buf' = <<>> /\ queue' = <<>> /\ torn' = Intact
    /\ grant' = 0
    /\ rotating' = [c \in Callers |-> 0]
    /\ link' = IF link = "none" THEN "none" ELSE "failed"
    /\ box' = [box EXCEPT !.up = @ /\ transport = "api"]
    /\ UNCHANGED <<status, snap, mount, provider, overwritten, server, answers, agent, cache, used>>

--------------------------------------------------------------------------------
Init ==
    /\ GrantInit
    /\ transport \in Transports
    /\ pipe = <<>> /\ buf = <<>> /\ queue = <<>> /\ rd = At("ended") /\ torn = Intact
    /\ att = Idle /\ notified = FALSE
    /\ answers = [e \in Attempts |-> 0]
    /\ box = [up |-> FALSE, epoch |-> 0]
    /\ agent = [FreshAgent EXCEPT !.pc = "settled", !.left = 0]
    /\ grant = 0 /\ cache = 0 /\ used = {}
    /\ disturbances = 0

Step ==
    \/ Claim \/ Recheck \/ Resolve \/ Launch \/ Acknowledge \/ PromptFails
    \/ Read \/ ReadEof \/ Persist \/ Pump \/ EngineDied \/ Settle \/ SettleFails \/ Release
    \/ Accept \/ Say \/ Answer \/ GiveNoAnswer \/ Finish \/ ContainerDies
    \/ CallWithCached \/ GrantCheck \/ GrantIssue \/ GrantRefused
    \/ Create \/ LoseLease \/ ChangeKey \/ WriteKey \/ Switch \/ Return
    \/ LinkScan \/ LinkStop \/ LinkWrite \/ Crash

\* The transport is a setting of the process.
Next == Step /\ UNCHANGED transport

Spec == Init /\ [][Next]_vars

--------------------------------------------------------------------------------
TypeOK ==
    /\ PipeTypeOK /\ GrantTypeOK
    /\ att \in [stage : Phases, epoch : 0 .. MaxAttempts, exposes : BOOLEAN, pending : BOOLEAN]
    /\ notified \in BOOLEAN
    /\ answers \in [Attempts -> 0 .. 2]
    /\ box \in [up : BOOLEAN, epoch : 0 .. MaxAttempts]
    /\ agent \in [pc : {"prompted", "working", "answered", "settled"}, left : 0 .. MaxFrames,
                  answer : {"none", "whole", "lost"}]
    /\ grant \in 0 .. MaxVersion /\ cache \in 0 .. MaxVersion
    /\ used \subseteq 1 .. MaxVersion
    /\ disturbances \in Nat

\* Whatever lines were too long before it, agent_settled is not lost: when everything the
\* agent wrote has been read, the round knows that it is over (DockerCliTransport.readline:
\* the round goes on to agent_settled).
SettledIsSeen ==
    (Attached /\ att.stage = "pumping" /\ agent.pc = "settled" /\ Drained)
        => \E k \in DOMAIN queue : queue[k] = "settled"

\* Over the Docker API, what precedes it does not matter, unless a line of more than twice the
\* limit was cut in two (_LineAssembler): nothing but the rest of such a line ends the reader
\* of a container that goes on.
SettledIsSeenOverApi ==
    transport = "api" => SettledIsSeen /\ (torn.fatal => torn.cut)

\* And a round that is settled has the answer its agent gave, although the write that
\* carried it may have failed (_persist_fact, the make-up in settle).
AnswerKept ==
    (transport = "api" /\ round.state = "settled" /\ agent.answer = "whole")
        => answers[round.epoch] > 0

\* A task comes out of a round as ready only if no other key than the one it was created
\* with worked for it, through the proxy's memory or not (_provider_revoked), as long as no
\* rotation has written over another: keys may be rotated, two at a time too, revoked and the
\* process may crash at any point of the round.
KeyOfTheTask == status = "ready" /\ ~ overwritten => used \subseteq {snap}

\* When the linkage of a switched-off server has ended, no round in the books runs with
\* the server's tools in its container (_terminate_candidates, _resolve_mcp_entries).
SwitchedOffLeaves ==
    (server # "on" /\ link = "none") =>
        ~ (round.state = "running" /\ Executing /\ att.exposes)

--------------------------------------------------------------------------------
(* Documented, and not kept by the code *)

\* "it is cleared and an empty line returned" (_drop_oversize_line): no line, however long,
\* costs the round more than itself.  The rest of one of more than twice the limit may begin
\* inside a character, and ends the reader.
OversizeIsHarmless == transport = "api" => ~ torn.fatal

\* "the snapshot fence: the key was rotated while the round ran" (_provider_revoked): a task is
\* ready only if its own key served it.  update_provider adds one to the version it has read:
\* a late rotation puts the version back to that of the snapshot after another key was used.
OnlyItsKey == status = "ready" => used \subseteq {snap}
================================================================================
