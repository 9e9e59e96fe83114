------------------------------ MODULE TaskGrants ------------------------------
(***************************************************************************)
(* What the owner lends a task: the key of a provider, snapshotted by its  *)
(* version when the task is created, and a mounted MCP server.  Key        *)
(* rotation and revocation fail the tasks that have not started; a round   *)
(* that runs is judged by its settle.  Switching a server off is committed *)
(* first and followed by a linkage that ends the tasks which mount it.     *)
(* One task with one round, which lease expiry may send back to the queue. *)
(***************************************************************************)
EXTENDS Naturals

CONSTANTS
    Callers,          \* concurrent update_provider requests that rotate the key
    MaxVersion,       \* bound: key versions
    MaxAttempts       \* _ATTEMPT_LIMIT

ASSUME GrantAssumption == MaxVersion \in Nat \ {0} /\ MaxAttempts \in Nat \ {0}

VARIABLES
    status,           \* tasks.status; "none" before the task is created
    snap,             \* tasks.provider_key_version
    mount,            \* the server is in tasks.mcp_servers
    round,            \* its round: state, and lease_epoch = attempt
    provider,         \* user_providers: status and key_version
    rotating,         \* the version a rotation under way has read, 0 for none
    overwritten,      \* history: a rotation has written over one it had not read
    server,           \* user_mcp_servers: "on", or "off": disabled, or deleted for good
    link              \* _terminate_tasks_for_server after the switch was committed

taskVars  == <<status, snap, mount, round>>
grantVars == <<provider, rotating, overwritten, server, link>>

Statuses  == {"none", "uploading", "queued", "running", "ready", "aborted", "failed"}
Unstarted == {"uploading", "queued", "ready"}
Live      == {"queued", "running"}
Links     == {"none", "due", "stopping", "writing", "failed"}

\* A server that is off cannot be mounted.
Mountable == server = "on"

\* create_task: the provider and the server are read without locks ...
ReadSources ==
    /\ status = "none" /\ snap = 0
    /\ provider.active
    /\ snap' = provider.version
    /\ mount' = Mountable
    /\ UNCHANGED <<status, round, grantVars>>

\* ... and the row is committed with what was read.
InsertTask ==
    /\ status = "none" /\ snap # 0
    /\ status' = "uploading"
    /\ UNCHANGED <<snap, mount, round, grantVars>>

\* commit_input: the first round is pending.
CommitInput ==
    /\ status = "uploading"
    /\ status' = "queued"
    /\ round' = [round EXCEPT !.state = "pending"]
    /\ UNCHANGED <<snap, mount, grantVars>>

\* An expired lease: another attempt, or the end.
Expire ==
    /\ round.state = "running"
    /\ LET over == round.epoch >= MaxAttempts
       IN  /\ round'  = [round EXCEPT !.state = IF over THEN "failed" ELSE "pending",
                                      !.mine = FALSE]
           /\ status' = IF over THEN "failed" ELSE "queued"
    /\ UNCHANGED <<snap, mount, grantVars>>

--------------------------------------------------------------------------------
(* The provider key *)

\* fail_unstarted_tasks, in the transaction of a rotation or a revocation.
FailUnstarted ==
    /\ status' = IF status \in Unstarted THEN "failed" ELSE status
    /\ round'  = IF status \in Unstarted /\ round.state = "pending"
                 THEN [round EXCEPT !.state = "cancelled"] ELSE round
    /\ UNCHANGED <<snap, mount>>

\* update_provider with a new key: the row is read without a lock ...
ReadForRotation(c) ==
    /\ provider.active /\ rotating[c] = 0 /\ provider.version < MaxVersion
    /\ rotating' = [rotating EXCEPT ![c] = provider.version]
    /\ UNCHANGED <<taskVars, provider, overwritten, server, link>>

\* ... and written with the version that follows the one read.
Rotate(c) ==
    /\ rotating[c] # 0
    /\ provider' = [provider EXCEPT !.version = rotating[c] + 1]
    /\ rotating' = [rotating EXCEPT ![c] = 0]
    /\ overwritten' = (overwritten \/ rotating[c] # provider.version)
    /\ FailUnstarted
    /\ UNCHANGED <<server, link>>

\* revoke_provider.
Revoke ==
    /\ provider.active
    /\ provider' = [provider EXCEPT !.active = FALSE]
    /\ FailUnstarted
    /\ UNCHANGED <<rotating, overwritten, server, link>>

--------------------------------------------------------------------------------
(* The MCP server *)

\* update_server(enabled = false) and delete_server.
SwitchOff ==
    /\ server = "on" /\ link \in {"none", "failed"}
    /\ server' = "off"
    /\ link' = "due"
    /\ UNCHANGED <<taskVars, provider, rotating, overwritten>>

\* A disabled one may come back.
SwitchOn ==
    /\ server = "off"
    /\ server' = "on"
    /\ UNCHANGED <<taskVars, provider, rotating, overwritten, link>>

\* The candidates are read without locks; stop_round is for one that runs.
Scan(executing) ==
    /\ link = "due"
    /\ link' = CASE ~ mount \/ status \notin Live -> "none"
                 [] status = "running" /\ executing -> "stopping"
                 [] OTHER -> "writing"
    /\ UNCHANGED <<taskVars, provider, rotating, overwritten, server>>

\* _terminate_one reads the task again under its lock.
WriteEnd ==
    /\ link = "writing"
    /\ link' = "none"
    /\ IF status \in Live
       THEN /\ status' = "aborted"
            /\ round' = [round EXCEPT !.state = "cancelled"]
       ELSE UNCHANGED <<status, round>>
    /\ UNCHANGED <<snap, mount, provider, rotating, overwritten, server>>

\* A database failure: the caller gets an error, the switch stays.
LinkFails ==
    /\ link \in {"due", "writing"}
    /\ link' = "failed"
    /\ UNCHANGED <<taskVars, provider, rotating, overwritten, server>>

GrantInit ==
    /\ status = "none" /\ snap = 0 /\ mount = FALSE
    /\ round = [state |-> "none", epoch |-> 0, mine |-> FALSE]
    /\ provider = [active |-> TRUE, version |-> 1]
    /\ rotating = [c \in Callers |-> 0] /\ overwritten = FALSE
    /\ server = "on" /\ link = "none"

GrantTypeOK ==
    /\ status \in Statuses /\ snap \in 0 .. MaxVersion /\ mount \in BOOLEAN
    /\ round \in [state : {"none", "pending", "running", "settled", "failed", "cancelled"},
                  epoch : 0 .. MaxAttempts, mine : BOOLEAN]
    /\ provider \in [active : BOOLEAN, version : 1 .. MaxVersion]
    /\ rotating \in [Callers -> 0 .. MaxVersion] /\ overwritten \in BOOLEAN
    /\ server \in {"on", "off"} /\ link \in Links
================================================================================
