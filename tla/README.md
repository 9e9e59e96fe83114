# AgentCraft: specifications, model checking and proofs

AgentCraft runs conversations of users with *experts*: each user message becomes a
*round* that an agent works on in a container. The control plane is one Python process
(`backend/`, FastAPI) on PostgreSQL; HTTP requests write rows, background loops execute
the rounds, send the mails and sweep what is left behind. The hard part is that the same
rows are written by many actors, each in transactions of its own, that decide on what they
read earlier, with files, containers, mails and browsers beside the database that take part
in no transaction. These specifications model that part, from the code.

Paths below are relative to the repository; `v2/` stands for `backend/v2/`.

## 1. Inventory

### Components

| Component | State | Operations | Hard behaviour | What makes it correct |
|---|---|---|---|---|
| **Task service** `v2/task_service.py`, `task_state.py`, `task_release.py` | `tasks`, `task_rounds`, `task_events`, `task_reservations`, `user_quota_usage`, `usage_daily`, `platform_storage` | create, commit input, send message, abort, complete, delete | requests race the loops; an abort of a running task is only an intent | rows agree, counters equal reservations, intents are honoured |
| **Dispatcher** `v2/task_dispatcher.py` | leases (`lease_owner`, `lease_epoch`, expiry), `platform_slots` | claim, reclaim, two sweeps | snapshot without locks, then fenced writes; retries | no double execution, bounded attempts, no leaked slot |
| **Executor** `v2/task_executor.py` | notify queue, contexts, engines, renewals, tokens – all in memory | run a round, persist facts, renew, deadline, stop, settle, reconcile, kill | serial executor, long awaits, fencing, a crash loses all of it | a round ends; only the lease holder writes; the answer is kept |
| **Outputs** `v2/task_artifacts.py`, `api/internal.py` | output rows, bytes, files | register, replace | late callbacks of fenced containers; files beside transactions | bytes charged = bytes held; a row has its file |
| **Input files** `v2/task_file_service.py` | rows and files | upload, delete, commit | files are not transactional | no row without file, no file without row, unique names |
| **Streams** `v2/task_streams.py`, `api/v2/task_sse.py`, `frontend/src/api/v2/sse.js`, `pages/taskChatReducer.js` | subscriptions, bounded queues; cursor and water mark of the browser | register, replay, merge, publish, reconnect, refetch | publish after commit from several coroutines, dropped frames, late answers | no gap, no phantom; what the page has passed it has applied, is fetching, or lost for a known cause |
| **Idempotency** `v2/idempotency.py` | stored answers | begin, store | concurrent duplicates, lost answers, expiry | one effect per key |
| **Mail outbox** `v2/outbox.py` | rows with a lease | enqueue, claim, send, finalize | crash between send and commit, slow batches | at least once, no needless duplicate |
| **Rate limiter** `v2/rate_limit.py` | `rate_limit_events` | enforce | concurrent counts, several subjects, transaction time | a bounded overrun |
| **Provider keys** `v2/provider_service.py`, `engine/provider_proxy.py` | key rows, the memory of the proxy | create, rotate, revoke, grant | unstarted tasks fail in the same transaction; a running round keeps a cached key | a task used no other key than its own |
| **Accounts** `v2/login_service.py`, `session_service.py`, `password_service.py`, `verification_service.py`, `invitation_service.py`, `deletion_service.py`, `admin_user_service.py` | users, sessions, one-time links; challenges in memory | invite, login, MFA, reset, suspend, delete with grace, cancel | decisions on stale reads; cascade after commit; sweep races cancel | the status moves as promised; an erased account leaves no tasks; a deletion ends |
| **Authoring, review** `v2/author_service.py`, `review_service.py`, `report_service.py` | drafts, revisions, published pointer, reports | edit, submit, approve, reject, offline, delete, take down, ban | review races edits and deletion | published content is what was read and approved |
| **User MCP servers** `v2/mcp_service.py` | server rows, tool caches | discover, switch, delete, linkage | the linkage runs after the commit on running tasks | a switched-off server leaves every round |
| **Agent engine** `backend/engine/` | pipes, buffers, pending requests, reader task | start, prompt, read, stop | chunks cut anywhere, oversized lines, EOF against answers | the end of a round is heard |

Catalogue administration and content checks, the V1 engine pool, the generated agent
configuration, HTTP routing and schemas, migrations, cryptography, the other pages of the
web client and the scripts keep no state of their own that the properties need;
`PROJECT.json` lists them as not modelled, each with its reason.

### How they interact

```
browser ◄── SSE ── streams ◄──────────────┐ publish after commit
   │                                      │
owner requests ─┐                         │
kill switches ──┤   transactions     ┌── dispatcher_loop: claim, reclaim, sweeps
account hooks ──┴──►  PostgreSQL  ◄──┤        │ notify(task)          ▲ container_alive
outbox, sweeps ◄────────┘    ▲       └── executor_loop: run_pending ───┘
                             │                │ owns: context, renewal + deadline, engine
      files beside it        │                └─► container ── stdout ──► transport, reader
                             └── /internal: tools, provider_grant ◄── callbacks ─┘
```

The database and the files survive a crash, and behind the Docker API the container does.
Between the loops there are three in-memory channels: `notify_queue`, the probe
`container_alive`, and `stop_round`; the streams, the MFA challenges and the key cache of
the proxy are in memory, too.

### Hazards

`PROJECT.json` lists them at their lines with the properties aimed at them. In short:
intents overwritten by late writes; slots and counters released by seven different paths;
stale reclaim candidates; writes and callbacks of executions that lost their lease; a
watchdog that is the same loop as the renewal; a limiter whose lock does not cover what it
counts; frames published out of order, dropped or replayed; answers applied late by the
page; files unlinked before the commit; repeated requests; leases of mails that lapse in
the middle of a batch; logins, resets and suspensions that decide on stale reads; reviews
that race edits; lines over the limit cut at any chunk; an answer whose commit is unknown;
keys rotated and servers switched off under a running round.

## 2. Modules

| Module | Models | Checked with | Proofs |
|---|---|---|---|
| `TaskLifecycle` | abstract: what the owner of a task is promised | as `ImplementsLifecycle` of `TaskStore` | `StoreImplementsLifecycle`, `RuntimeImplementsLifecycle` |
| `TaskStore` | every transaction on tasks, rounds, reservations, slots, counters | `MCTaskStore` | in `TaskRuntimeProofs` |
| `TaskRuntime` | the process: loops, queue, executor, container, watchdog, crash | `MCTaskRuntime` | `TaskRuntimeProofs` |
| `RateLimiter` | `enforce` of one scope | `MCRateLimiter` | `RateLimiterProofs` |
| `TaskLog` | the event log of a task and the frames its writers leave | through the next two | in `TaskStreamProofs` |
| `TaskStream` | registry, one subscription, replay and merge | `MCTaskStream` | `TaskStreamProofs` |
| `TaskChat` | the page: stream client, reconciliation, reducer | `MCTaskChat` | in `TaskStreamProofs` |
| `TaskFiles` | input and output files beside their rows, idempotent requests | `MCTaskFiles` | `TaskFilesProofs` |
| `AccountLifecycle` | abstract: how the status of an account may move | as `ImplementsLifecycle` of `Accounts` | `Refinement` of `AccountsProofs` |
| `Accounts` | one account from its invitation to its erasure | `MCAccounts` | `AccountsProofs` |
| `Outbox` | the mail outbox with several workers | `MCOutbox` | `OutboxProofs` |
| `Publishing` | authoring, review, reports and moderation | `MCPublishing` | `PublishingProofs` |
| `AgentPipe` | stdout, transports, reader, queue of a round | through `AgentRound` | in `AgentRoundProofs` |
| `TaskGrants` | the key and the MCP server a task is lent | through `AgentRound` | in `AgentRoundProofs` |
| `AgentRound` | a round from claim to release, around the two above | `MCAgentRound` | `AgentRoundProofs` |

`TaskRuntime` extends `TaskStore`: each of its steps is one transaction of `TaskStore`
with the lease token the caller really holds, or a step in memory. `TaskStore` implements
`TaskLifecycle`, `Accounts` implements `AccountLifecycle`. `TaskStream` and `TaskChat`
extend `TaskLog`, which keeps of `TaskStore` only which transactions may follow each other
and adds what they write to the log. `AgentRound` extends `AgentPipe` and `TaskGrants` and
looks at one round from inside: what the agent says, what is stored of it, which key it uses.

### TaskStore

One action is one `owner_session` transaction. It is atomic because the code takes the task
row lock, or arbitrates by a conditional `UPDATE` whose row count it tests; an exception
rolls it back, which is no step. Guards come from the status checks, `assert_transition`,
the `WHERE` clauses and the partial unique indexes (`one_active_round_per_task`, one held
reservation of a kind).

* `round[t]` is the newest `task_rounds` row; older rounds are closed and never written
  again. `lease` is what `lease_expires_at` says to the next reader: live or expired.
* `held[t]` are the `active` and `running` reservations in state `held`; `rootBytes` and
  `copyBytes` the bytes of the held storage reservations. `slot[s]` is `platform_slots`.
* `FenceHolds` is the `WHERE lease_owner = … AND lease_epoch = … AND state = 'running'`
  all writes of an execution carry. `Unleased` keeps the epoch, as the dispatcher does.
* `ReleaseHoldings` is `release_task_holdings`: which kinds are released depends on the
  status reached, counters are lowered by the rows returned, with a floor (`Lower`).
  `FailUnstartedTasks` has the release primitive of `provider_service.py` instead.
* Lease tokens are left free: any `(round, instance, epoch)` may be presented at any time,
  so that the invariants do not depend on the executor being well behaved.
* `ChargeDaily` counts per day; the day changes at any time. `MaxRounds` bounds the
  messages of a task, and `AttemptLimit` is `_ATTEMPT_LIMIT`.

Left out: several tasks of a user on different providers (a revocation hits all unstarted
tasks); messages, titles and events, of which `TaskLog` has the kinds and numbers.

### TaskRuntime

An action is what one coroutine does between two awaits.

| Model | Code |
|---|---|
| `queue`, `TakeUp`, `Drained` | `notify_queue`, `run_pending` – serial: one `run` at a time |
| `run.stage` | the awaits of `_run_round`: scanned, assembling, pumping, settling, closing |
| `engine` | `_engines[task]` and its reader; registered from `StartEngine` until the release of the resources begins, the container lives until `Close` |
| `renewal` | `_renew_loop`, which is also the deadline watchdog |
| `stops` | `stop_round` under way, for the deadline or a kill switch, then the write after it |
| `cand`, `ReclaimScan`, `Probe`, `CancelCandidate`, `ReclaimCandidate` | `reclaim_once`: snapshot, probe, one transaction per candidate |
| `calls`, `AdmitCallback`, `WriteOutput`, `CallFails` | a callback of the container: `_require_v2_task_token` admits it while its attempt is registered, awaits follow, and `register_output` writes under the token it came with |
| `inst`, `Crash` | `_instance_id` is the pid: after a restart it may be a new one or the same |
| `Reconcile`, `NextCycle` | the second half of `executor_loop` |

`late` marks tasks whose round had to wait for the executor. With `LeaseTimely` the lease
of a round taken up at once does not run out while its renewal is alive (30 s beats against
90 s of TTL); a round that waited keeps only the lease of its claim. With
`LeaseTimely = FALSE` a lease may run out at any time.

A callback outlives the attempt that admitted it: `Leave`, `Close` and a reclaim do not touch
`calls`, only a crash does. `WriteOutput` therefore looks at nothing of `run`; what keeps a
late one out is the fence of `register_output` alone.

### RateLimiter

`enforce` in three steps: begin (PostgreSQL's `now()` is fixed here), lock and count,
insert with sweep and commit. Lock and count are one step because whoever holds another
lock cannot tell when this one was taken; the insert is invisible before the commit.

### TaskLog, TaskStream, TaskChat

Events are appended under the lock of the task row, so the log is in commit order and an
event's number is its place in it; the frames that announce a transaction are published
after its commit by the coroutine that wrote (`frames[w]` is what `w` has committed and not
yet published). `PersistTool` and `EndUnstarted` write events without a frame of their own,
`PersistFails` announces without a number, `AgentSettled` publishes `done` before `Settle`.

* `TaskStream` is one run of `_task_event_stream`: `Register` (the subscription with its
  water mark), `ReadReplay`, `Merge`, then `NextFrame` and `Yield` for ever. `Publish` is
  `publish_runtime_frames`: a full queue drops. `Wanted` is the filter by the water mark: the
  frames of one transaction ascend, so that the old ones are the first. `announced`, `seen`
  and `lost` only observe.
* `TaskChat` is the page: `link`, `cursor`, `wire` are `createTaskStream` of `sse.js`;
  `shown` is the state of `taskChatReducer` with its water mark, paging target and refetch;
  `load`, `events`, `page`, `refetched`, `final`, `op` are answers on their way, read at one
  step and applied at another. `Show` drops the answer an effect waits for when its
  dependencies change. The page may pass over events it has not shown, and the model says
  where: `told` are the events the reducer has applied, `missed` those that its water mark or
  cursor was moved over without, entered by `Missing` at each cause – overtaken by a later
  frame of the open stream (`Overtaken`: younger than the connection, whose `Rows` it was not
  part of), passed by the 202 of a send, left to a paging that was given up or itself
  overtaken, or written between the two requests of the load. One queue stands for the server's side, which `TaskStream` has;
  `PublishToPage` fills it. `EventsAfter` is a page of GET /events: rows by their number, of
  which `Framed` keeps those that have a frame; a page has two rows or more (1000 in `sse.js`).

### TaskFiles

The files of one task (`disk`), their rows, and requests of which any two may carry one
idempotency key. `tx` is the transaction that holds the row lock: the file system is
changed while it is open (`UploadFiles`, `DeleteFile`, `RegisterOutput`), `Commit`,
`Conflict`, `DatabaseFails` or `Crash` end it, and `CleanUp` follows the commit of a
deletion. `Ask` is `begin` (a transaction of its own), `Store` is `store` with the unique
index as `Taken`. `torn` collects the files a rollback or a crash left unlike their rows:
the code has no protection there, and the invariants say that nothing else breaks them.

### AccountLifecycle, Accounts

A handler is a few steps: it reads what it decides on (`Login`, `FindChallenge`,
`AskChange`, `AskTask`, `AskDeletion`, `Resend`, `ReadForCancel`) and writes later
(`StartSession`, `VerifyCode`, `ChangePassword`, `CreateTask`, …), with anything in between. A
session, a challenge or a handler has `proved` the present password or a former one: when the
password changes (`PasswordChanges`), what was proved is out of date everywhere (`Outdated`),
and in the same transaction the sessions but the setter's are revoked. `tasks` says whether
the account has a row in `tasks`: `RequestDeletion` removes those there are (the hook),
`CreateTask` of a handler that authenticated before may add one afterwards, and `SweepAccount`
then rolls back, because the key of that task cannot be deleted. `Suspend` is the atomic
update, `Cascade` the work after its commit, which may fail. `SweepCandidates` and
`SweepAccount` are the two phases of `sweep_expired`. Challenges, handlers and the cascade are
lost in a `Restart`.

### Outbox

A worker claims up to `Batch` mails under one lease, sends them one by one with no
transaction open, and writes each outcome if the lease is still its own. `Send` may report
a failure of a mail that was taken. `LeaseLapses` covers a dead worker and a slow one,
`Abandon` a crash and an error of the loop. A mail's `delivered` and `lapses` only observe.

### Publishing

One author with an expert and a skill it may refer to; `entities[e]` has the status and the
published pointer, `revisions[e]` the revisions. A handler that relies on what it read
before it held the row of the entity, or on rows other than that one, is a call of several
steps (`CheckContent`/`Save`, `OpenReview`/`LockForApproval`/`Publish`, `ReadPublished`/
`InsertTask`, `LockForDeletion`/`Delete`); one that reads and writes under the lock is one
step. The content is a reference to a revision of the skill; the content guards of
migration 0006 are in `Overwritable`.

### AgentPipe, TaskGrants, AgentRound

* `AgentPipe`: a line is a sequence of units, chunks are any prefix of what was written.
  `api` is the `_LineAssembler` of the Docker API transport, `cli` the `StreamReader` of
  `docker run` and of the local process; `SkipWhole`, `StartDrop`, `EndDrop`, `Overrun` and
  `Drain` are their ways with a line over the limit. `EndDrop` may cut a line in two at twice
  the limit: its rest does not parse (`TakeLine` skips it) or, if it begins inside a character,
  does not decode, which ends the reader (`Undecodable`). `torn` remembers both. `TakeLine` and `Put` are the reader and
  the bounded queue of the round: text may be dropped, facts wait.
* `TaskGrants`: the version of the key a task was created with, rotation as a read and a
  write by any number of callers, revocation, the switch of an MCP server and the linkage that
  ends the tasks mounting it after the switch was committed. `overwritten` remembers that a
  rotation wrote over one it had not read. A server that is "off" may be a deleted one.
* `AgentRound` composes both with the executor (`Claim` … `Release`), the agent in its
  container, the provider proxy with its memory (`cache`) and the two transactions of
  `provider_grant`. `Persist` may fail with its commit unknown; `Settle` makes the answer
  up. `Crash` loses the process; behind the Docker API the container lives on under the
  name of the task, and the next `Launch` meets it.

## 3. Runs

| Run | Question | Result |
|---|---|---|
| `task_store` | Do the transactions of two tasks of one user keep rows, accounts and lifecycle consistent? | holds |
| `runtime_safety` | Is every step of the process one the store allows, and does only the lease holder write, late callbacks included? | holds |
| `runtime_fair` | Does a running round end with a hung agent; do queued tasks and intents end if agents settle or die? | holds |
| `rate_limiter` | By how much can a subject exceed its limit? | by one per further lock key |
| `task_stream` | Does a stream yield all its replay and queue promise, and no phantom? | holds |
| `task_chat` | Has the page applied all that its stream will not ask for again, is it fetching it, or is there a named cause? | holds |
| `task_files` | Do files and rows agree but for torn transactions; has a key one effect? | holds |
| `accounts` | Does the status move as promised, is no task left of an erased account, does a deletion end but for late tasks? | holds |
| `outbox` | Is a mail repeated only for a reason, does an outcome stand, is every mail sent or given up? | holds |
| `publishing` | Is what is public what was read and approved, whatever meets it? | holds |
| `agent_round` | Is the end of a round heard (Docker API), its answer kept, its key the task's unless rotations overwrite one another, a switched-off server gone? | holds |
| `agent_cli` | Is the end of a round heard over `docker run`? | **no** |

`task_store` has its type invariant, and so has `runtime_safety`; the type invariants of
the other modules, and the inductive invariants of the proofs, were checked with the same
configurations (`INVARIANT TypeOK`).

### Observed disagreements

*Oversized lines over docker run* (`agent_cli`, `SettledIsSeen`). A comment of
`docker_transport.py:306` promises that a line over the limit is discarded and the round
goes on to `agent_settled`. `readline` has already removed the line when it raises;
`_drain_oversize_line` then discards chunks until one *ends* with a newline, and takes the
following lines with it. If `agent_settled` is among them the round hears nothing more and
waits for its deadline. The Docker API transport cuts at the newline (but see 9).

Statements of the modules that the code does not keep. Each is defined at the end of its
module; putting it alone into the named configuration, in place of the properties there,
has TLC show a counterexample:

1. `StorageMatchesHeld` (`MCTaskStore.cfg`): commit input, then revoke the provider key. The
   reservation is released, the bytes stay charged to user and platform, and no refund can
   find them. `StorageCoversHeld`, the safe direction, holds.
2. `IntentEnds` (`MCTaskRuntimeFair.cfg`): abort a running task whose agent hangs. The round
   becomes `cancelling`, the next renewal fails its fence and its loop, which is also the
   deadline watchdog, returns; reclaim waits for the container, which nobody stops.
3. `RetryOnlyDead` (`MCTaskRuntime.cfg`): the expired branch of `reclaim_once` does not
   probe. The fence keeps the old container from writing, not from running.
4. `CancelledMeansDead` (`MCTaskRuntime.cfg`): abort during assembly. The probe finds no
   engine, reclaim cancels the round and frees the slot, and the container starts.
5. `LeaseNotStarved` (`MCTaskRuntimeFair.cfg`): the recheck does not look at the expiry and
   the first renewal comes after a sleep; a round that waited may lose an attempt.
6. `WithinLimit` (`MCRateLimiter.cfg`): `login` locks the set {email, address}; two users
   behind one address do not queue on each other, and the address passes its limit.
7. `RefreshConverges` (`MCTaskChat.cfg`): `done` comes before `settle`, which publishes
   nothing; a refresh that reads in between leaves the page at "running".
8. `OnlyItsKey` (`MCAgentRound.cfg` with `Transports = {"api"}`, `MaxVersion = 3`,
   `MaxAttempts = 1`, `MaxFrames = 0`, lines of one unit and three disturbances):
   `update_provider` adds one to the version it has read, without a lock. A late rotation puts
   the version back to the one the running task was created with, after another key served
   it, and `settle` sees nothing. `KeyOfTheTask` holds: it excepts a rotation that has
   overwritten one it had not read, and nothing else.
9. `OversizeIsHarmless` (`MCAgentRound.cfg`): `_drop_oversize_line` promises that an
   oversized line is cleared and the reader goes on. At twice the limit it clears the buffer in
   the middle of the line; the rest may begin inside a character of several bytes,
   `readline` decodes it strictly, and the `UnicodeDecodeError` ends `_read_loop`: the round is
   released and tried again although its agent may have finished.
10. `PagingCatchesUp` (`MCTaskChat.cfg` with `MaxEvents = 4`): the rest that a reconciliation
   left to be paged is overtaken by a frame of the reopened stream, whose number becomes the
   water mark; the page ends its paging there and never shows what lies between.
11. `FormerPasswordIsOut` (`MCAccounts.cfg`): `confirm_password_reset` revokes every session, but
   a login or a challenge that proved the former password before opens its session after.
12. `DeletionEnds` (`MCAccounts.cfg`): the hook deletes the tasks so that the keys can be deleted
   (`task_executor.py:1580`), but `create_task` looks at no status, and one that authenticated
   before commits after the hook. `tasks.provider_id` then makes the erasure fail on every pass;
   `sweep_expired` does not catch the error, so that the candidates behind this account are not
   swept either. A key stored as late as the whole grace is left out.

Smaller ones, seen while reading and not stated as formulas:

* *Tasks.* The table of `task_state.py` has no entry `running → queued`, which reclaim uses.
  `Retry-After` is computed from the oldest event of any subject.
* *Streams.* A late 202 of a send sets "queued" over a later status; the reconciliation
  called unreachable at `taskChatReducer.js:281` is reachable; tool messages have no
  numbered frame; a frame published after a later one is passed over as a repetition.
* *Files.* Files touched before a failing commit stay touched (`delete_file`, replaced
  outputs, `staging/<batch>`). `sweep_terminal_cleanup` counts its seven days from
  `created_at`. A concurrent repetition that finds the state changed gets the state error
  instead of the stored answer.
* *Accounts.* A challenge outlives a password reset, and `login_mfa` does not look at the
  status; two handlers with one challenge open two sessions; overlapping resends leave two
  live links; a failed suspension cascade is not made up by a repetition, contrary to the
  comment in `users.py`; suspending an account that is being deleted drops the deletion;
  the sweep looks at the status again, not at the deadline.
* *Outbox.* The backoff (1, 5, 15, 30 minutes) outlasts a reset link of 30 minutes; ten
  mails share one lease of five minutes.
* *Publishing.* Deleting a skill races an edit that refers to it; an older revision may be
  approved after a newer one; a takedown hits the current revision, whichever was reported;
  a skill revision may be archived while public experts pin it; a ban leaves what is
  published.
* *Agent.* A container that outlived a crash is not swept: the next attempt's create
  conflicts and costs an attempt. The key cache of the proxy is never invalidated;
  concurrent rotations lose a version. A tool message whose write failed is never made up;
  an answer whose commit was unknown is stored twice. An oversized answer is lost and the
  round settles as ready all the same. A failed MCP linkage leaves the server switched off
  and its tasks running, and repeating the request does not run it again.

### Bounds, and why they are enough

* Tasks interact through the counters of their user, the slots and the platform's bytes
  only. Two tasks of one user contend for each of these; the proofs cover any number of
  users, tasks and slots.
* `AttemptLimit = 2` has a retry and an exhausted round (the code uses 3, which adds one
  more retry of the same kind). `MaxRounds = 2` lets a token of an earlier round meet a
  later one. The byte caps are 1 to 3 with outputs of one byte, so that each cap is hit.
* `runtime_*` has one task (the executor is serial, and the reclaim job handles candidates
  one by one) and one crash: a second one meets the same states, since a crash leaves
  nothing in memory. Rounds that wait behind those of other tasks are therefore in no run of
  the process: the safety theorems are for any number of tasks, the liveness properties were
  checked for one. Two callbacks under way let one of a former attempt meet one of the
  present; the liveness run has none, since they write bytes only. The two instance ids of
  `runtime_safety` are interchangeable (symmetry), and so are the two callers of `agent_round`. In the liveness run `LeaseTimely = TRUE` is the harder case: a lease
  that may run out under a living renewal would end the round by itself.
* `rate_limiter`: four requests, limit 2, a window of three units of which a request may
  wait one: the limit can be passed, rows expire, and a sweep can overtake a waiting request.
* `task_stream`: four coroutines, four events (more than one transaction, and a round that
  ends), a queue of two, which overflows. `task_chat`: three events in pages of two, a queue
  of one, one answer on its way beside the load and one fault; the model starts before,
  between or in rounds.
* `task_files`: three calls, two names, one key, one failure: two calls race with one key
  while a third changes the task, and an upload may collide with one of two names.
* `accounts`: two handlers at a time, two sessions, one challenge that two handlers share,
  two links; ids are reused, so that the run has no bound on the number of operations.
* `outbox`: two workers, two mails in one batch, three attempts, one lapse of each row: a late
  worker meets the one that took over, whose outcome may be any.
* `publishing`: two revisions of the expert (one replaces the other), one of the skill, two
  handlers, one report.
* `agent_round`: limit 1 and lines of one unit and of four, within the limit and beyond twice
  the limit, cut anywhere; two attempts and two callers that rotate the key; over the Docker API
  two disturbances (crash, death, key change or switch), so that any two of them meet. After
  the second only states without parts of long lines in the pipe are followed
  (`MCShortLines`). Over `docker run`, whose container dies with the process, there is one
  disturbance. Leases expire at will.

`CHECK_DEADLOCK FALSE` everywhere: once the bounds are used up and all has ended the
system really rests.

### Fairness

* `TaskRuntime`: `LoopFairness` says that the loops go on, awaits return and time passes:
  `executor_loop` and `dispatcher_loop` catch every exception and go round again;
  `stop_round` has a timeout; the deadline is finite; leases expire. `Dispatch` and
  `Reconcile` get strong fairness, because their loop tries them in every pass but is busy
  with other candidates in between. Nothing is assumed of users, crashes, failures or the
  agent. `AgentsEnd` – the agent settles or its container dies – is an antecedent of two
  properties, not part of the specification.
* `Accounts`: the grace ends, `deletion_sweep_loop` goes on whatever a pass raises, and
  strong fairness of `SweepAccount` says that the process does not restart in every pass.
* `Outbox`: `outbox_loop` goes on in every process, sends end (the transport has a timeout),
  leases lapse and backoffs end with time.
* `TaskFiles`: the cleanup job goes on, and a transaction ends one way or another.

## 4. Proofs

Checked by TLAPS for every value of the constants, from the assumptions of the modules:
the sets of actors and users of `TaskStore` and `TaskRuntime` are finite, limits are natural and
attempt limits positive, the queue of a subscription has room for one, a page of GET /events
has two rows or more, and "none" is none of the rest.

* `TaskRuntimeProofs`, the database. The inductive invariant `Inv` is the conjunction `TypeOK`,
  `RoundMatchesTask`, `LeaseMatchesRound`, `HoldingsMatchTask`, `CountersMatchHoldings`,
  and none of the five is inductive without others: a claim keeps the slot account only
  because a queued task holds no running reservation, which needs round and task to agree;
  a counter never meets its floor only because it equals the reservations it counts; the
  retry stays below the limit only because epoch and attempt move together. The counting
  lemmas use `FiniteSetTheorems`. Each conjunct is a theorem (`TypeCorrect`,
  `RoundsMatchTasks`, `LeasesMatchRounds`, `HoldingsMatchTasks`, `CountersAreExact`); on top
  of them `TerminalStaysFinal`, `IntentsAreHonoured`, `EpochsFence`, and the refinement
  `StoreImplementsLifecycle`, where slots and reservations stand for the set of executing
  tasks and its size is bounded by the number of slots.
* `TaskRuntimeProofs`, the byte account. `StorageCovers` proves `StorageCoversHeld`: what a user is
  charged covers the bytes of its tasks, and the platform is charged what its users are. It
  is no consequence of `Inv` and needs it: the bytes a transaction refunds are those of the
  reservation it releases, and the guard of the decrement, which keeps a counter from going
  below zero, may lose nothing, so each refund must be covered before it happens. The sums
  are folds of the community modules, over sets of any finite size. The library's induction takes an
  operator as a parameter and cannot be used. Instead the fold is looked at as the table of
  its values on all subsets (`SumStep`); that the table exists, is unique, and that a sum
  changes by what one member changes follows by taking a smallest subset without the claim
  (`SubsetInduction`).
* `TaskRuntimeProofs`, the process. `RuntimeImplementsStore` shows that every step of the process is a
  step of `TaskStore` or none, so all of the above holds of the process. The work is in the
  tokens: what `run`, `stops` and `cand` carry was issued (a round number in
  `1 .. MaxRounds`, an epoch in `1 .. AttemptLimit`, a known instance) whenever the fence
  would accept it. `RuntimeTypeCorrect` is the type invariant.
  `ProcessKeepsTheStore` and `RuntimeImplementsLifecycle` draw the conclusion: invariants, byte
  account and lifecycle hold while the process runs, crashes and starts again.
  `OnlyTheHolderWrites` proves the fencing of callbacks end to end, for any number of them
  admitted at any time: `HolderInv` – a running round with the number and the epoch of the
  executor's context, or of a callback, is owned by this process – holds because a claim always
  issues a new epoch, and because a callback dies with the process that admitted it.
* `RateLimiterProofs`. `OverrunIsBounded` is not inductive: it says nothing of requests
  that have counted and not yet written. `GrantsBounded` counts them with what a window
  holds already. A request passes only if its count is below the limit; everything the
  window held then it has counted, and what is granted and was not counted has a lock key
  of its own (`OneHolderPerKey`), of which there is one less than keys, the own one being
  the passer's. `StillRecorded` says that no sweep has removed what a count must see.
* `OutboxProofs`. `StateInv` has the leases: what a worker holds of a row it still owns is
  the row as it is (`LeaseKeepsRow`), and an owned row is pending (`RowsSound`); so a
  decided mail is never written again (`OutcomesAreFinal`). `DuplicatesAreAccounted` needs
  the `Account`: deliveries, plus one for every worker that still has the mail before it,
  plus one if the mail can be claimed, are at most one more than attempts and lapses. A
  claim trades the last for the second, a send the second for the first, and only an
  attempt or a lapse makes the mail claimable again.

* `TaskStreamProofs`. `NoFrameIsPhantom` and `NoStreamHasGaps`. `NoGap` speaks of a live
  stream only; `IInv` follows an announced event from the start: it is among the frames its
  writer has not published (`Coming`), in the queue of the subscription, in the replay that
  was read, or yielded or lost (`Awaited`). That the water mark passes over no part of the
  replay rests on its place (`Replayed`): it stands in order before whatever has a higher
  number. `Honest` keeps every frame true to the log and ascending within its transaction.
* `TaskStreamProofs`, the page. `ChatTypeCorrect` and `NoEventIsSkipped` (`CursorIsCovered` of
  `TaskChat`): of every event up to the cursor the page was told, or it still pages to it, or
  it was passed over for a cause that `TaskChat` names. Two invariants carry it. `PageInv` is
  about the marks: no two neighbours in the log are both without a frame (`Spaced`: a
  `round_running` is written behind the `status_changed` of its claim), so that a page of two
  rows has a frame unless it reached the end of the log, and an empty page read for a target
  leaves nothing before it (`NothingLeft`) however late it is applied; no cursor, target or
  answer is ahead of the log (`Within`), and what the page shows was saved (`Texts`). `Cover` is
  about the events: what is known reaches up to cursor and water mark (`Covered`); of what
  there was when the stream was opened, all above the cursor is on its way in the order of the
  log and before anything younger (`OnTheWay`), so that a frame overtakes only events younger
  than the connection; and an answer under way leaves out no event from the place it was
  asked for to its last one (`Answered`). The reducer is a fold over the frames of an answer;
  induction over its places gives that it is told each of them (`AppliedTells`) and that what is
  not applied up to the number an answer stands for is left as a target
  (`EventsAppliedState`).
* `TaskFilesProofs`. The four invariants of `TaskFiles` (`RowsKeepFiles`, `FilesKeepRows`,
  `NamesStayUnique`, `KeysAreExclusive`). `IInv` says of the rows of the transaction under
  way what it says of the stored ones (`Stored`, `Ready`), with the files it has put or will
  drop as exceptions, so that a commit only exchanges the two; what an operation writes is
  looked at once, where its transaction begins. A request that has not begun to work owns no
  row (`Fresh`), and the record of a call that worked is there until it expires (`Recorded`).
* `AccountsProofs`. `ErasedHasNoTasksCorrect` rests on two places that have to agree: the
  erasure rolls back while a task refers to a key, and without a key no task is created
  (`TasksNext`). `Refinement` shows that `Accounts` implements `AccountLifecycle`, the restart
  and the failing sweep included.
* `PublishingProofs`. Two facts carry all five theorems: the history of a revision only
  moves forward (`History`: what was approved stays approved until the entity is deleted,
  what is under review keeps its content), and what a handler has read is true in the sense
  it relies on (`CallSound`). Behind the row lock nothing of the entity moves (`LocksKept`);
  the references of what was read can have moved, but only forward. The three
  invariants follow from the two; the two action properties are about single steps under the
  invariant.
* `AgentRoundProofs`. All four invariants of `AgentRound`, for lines of any length, any
  limit, any cutting into chunks and any number of attempts. The proofs look at `Stream`,
  what was written and not yet taken as a line: each step of the reader cuts units off its
  front (`Onward`), and a line within the limit is never cut (`Whole`), because what is
  dropped is over the limit (`DropSound`) and ends at a newline. `EndAhead` follows the end of
  the round from the stream into the queue (`EndIsSeen`). For `AnswerIsKept`, `AnswerAhead`
  says that an answer which is neither stored nor marked for the make-up is ahead of the end
  of the round, or the reader has ended and the end never comes; it needs that a container
  speaks to one attempt only (`ReaderSound`), that a fence is not regained (`Books`), and
  `Said`. `Once` bounds what is stored, which the type of `answers` claims. `SwitchIsFinal`
  needs `Mounted`: an attempt that exposes the server was assembled while it was on, and the
  linkage ends whatever still runs. For `KeyIsTheTasks`, `Versions` says that as long as no rotation
  has overwritten one it had not read, the version of the provider only grows and no key older
  than the snapshot is lent; whether rotations overlap, and how many, does not matter.
  `Unbroken`, for `EndIsSeen`, says that only the rest of a cut line (`torn`) ends a reader
  whose container goes on.

Every safety invariant and every safety property of steps that a run checks is a theorem,
and so are the refinements. Checked by TLC only: the six liveness properties (`RunningRoundEnds`,
`QueuedTaskEndsIfAgentsDo`, `IntentEndsIfAgentsDo`, `DeletedIsCleared`, `DeletionEndsButForLateTasks`,
`MailEnds`), because fairness and `ENABLED` are outside the prover's reach, and what §3
lists as disagreements, which is refuted by a behaviour and not by a proof. The bounds of
the models on retries, faults and answers are parameters of the theorems, any natural number.

## 5. Not modelled, and plan

Not modelled, beyond the components the inventory sets aside:

* Row locks one by one. `settle`, `claim` and `reclaim` lock the round before the task,
  other transactions the task before the round; PostgreSQL breaks such a cycle by rolling
  one back, and `TaskRuntime` lets every settle and every write after a stop fail.
* Several providers of one user and the choice of the default one; provider and tool
  administration, quotas set by administrators; activation and removal of the second factor
  and the sliding lifetime of a session.
* The discovery sessions with MCP servers in their sandbox: their result is one row.
* The verdict of content checks, of schema validation and of decryption: an input that is
  refused changes nothing, and where the refusal follows a change it is an action
  (`DatabaseFails`, `PersistFails`, a failed send).
* The V1 engine pool (`engine/pi_engine_manager.py`): of it only the sweeping loop
  is started, over containers of its own that nothing starts any more; `/internal` still
  accepts its tokens.
* Text deltas, rendering, paging through sessions and catalogues.

Next, in this order:

1. `RowLocks`: the lock orders of settle, claim, reclaim, abort and `register_output`, one
   row at a time; which waits can form a cycle, and that each victim is one whose failure
   `TaskRuntime` already has.
2. Composition of `Accounts` with `TaskStore`: the cascade of a suspension and the sweep of
   a deletion over several tasks, each in a transaction of its own.
3. The theorems of these two, and of the byte account over a suspension's cascade.
