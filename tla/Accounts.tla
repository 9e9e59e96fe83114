------------------------------- MODULE Accounts -------------------------------
(***************************************************************************)
(* One account: its invitation, status, password, sessions, e-mailed links *)
(* and MFA challenges.  A request reads what it decides on (the user of a  *)
(* session or behind an address, a challenge) before its transaction, and  *)
(* other requests commit in between.  Sessions, links and statuses are     *)
(* rows; challenges, requests, the pass of the sweep and the cascade of a  *)
(* suspension are lost when the process restarts.  A password is only told *)
(* apart from the ones before it: each proof of a password, of a session,  *)
(* a challenge or a handler, remembers whether it is still the present one.*)
(* Of the tasks of the account it is known whether there are any: they pin *)
(* the provider keys, which the erasure has to delete.                     *)
(***************************************************************************)
EXTENDS Naturals, FiniteSets, FiniteSetsExt

CONSTANTS
    MaxSessions,   \* bound: sessions that are live at a time
    MaxRequests,   \* bound: handlers that run at a time
    MaxLinks,      \* bound: e-mailed links, of every purpose, that are live at a time
    Challenges,    \* ids of MFA challenges
    None,
    MaxAttempts    \* MfaChallengeStore._max_attempts

ASSUME BoundsAssumption == /\ MaxSessions \in Nat /\ MaxRequests \in Nat /\ MaxLinks \in Nat
                           /\ MaxAttempts \in Nat \ {0}

\* Ids are interchangeable: a new session or request takes the least one free, and that of
\* an ended one is used again; links of one purpose are counted.
Sessions == 1 .. MaxSessions
Requests == 1 .. MaxRequests

VARIABLES
    invitation,    \* the invitation of the address
    status, grace, \* users.status and users.deletion_deadline_at
    tasks,         \* are there tasks, which all refer to a row of user_providers?
    sessions,      \* live rows: whether their proof is of the present password
    links,         \* per purpose, account_action_tokens neither consumed nor expired
    challenges,    \* MfaChallengeStore
    requests,      \* what each handler has got to
    cascade,       \* the post-commit cascade of a suspension
    sweeping       \* the account is among the candidates of the running sweep

vars == <<invitation, status, grace, tasks, sessions, links, challenges, requests,
          cascade, sweeping>>

rows   == <<invitation, status, grace, tasks, sessions, links>>
memory == <<challenges, requests, cascade, sweeping>>

Purposes   == {"email_verify", "password_reset", "deletion_cancel"}
Resettable == {"active", "suspended", "deleting"}

Idle == [op |-> "idle"]

LiveSessions == {s \in Sessions : sessions[s] # None}
Held         == {r \in Requests : requests[r].op = "cancel"}   \* hold a link each
Speaking     == {s \in Sessions : \E r \in Requests : requests[r] = [op |-> "change", by |-> s]}

\* get_v2_auth: the session is live and the status passes.
Usable(s) == s \in LiveSessions /\ status \in {"pending", "active"}

--------------------------------------------------------------------------------
(* Parts of transactions *)

\* create_session, for a handler whose proof of the password may be out of date; a session
\* that has ended keeps its id while a handler speaks for it.
OpenSession(proved) == LET free == Sessions \ (LiveSessions \cup Speaking) IN
    /\ free # {}
    /\ sessions' = [sessions EXCEPT ![Min(free)] = [proved |-> proved]]

\* revoke_all, or all but those kept.
Revoked(rowsOf, kept) == [s \in Sessions |-> IF s \in kept THEN rowsOf[s] ELSE None]
RevokeAll == sessions' = Revoked(sessions, {})

NewLink(p) ==
    /\ links["email_verify"] + links["password_reset"] + links["deletion_cancel"] < MaxLinks
    /\ links' = [links EXCEPT ![p] = @ + 1]

\* _CONSUME_TOKEN_SQL, or the link expires.
Spend(p) == links[p] > 0 /\ links' = [links EXCEPT ![p] = @ - 1]

\* What open sessions proved when the password becomes another one: the session that sets it
\* knows it, the others go on with the former one until they are revoked.
Outdated(setters) ==
    [s \in Sessions |-> IF sessions[s] = None \/ s \in setters THEN sessions[s]
                        ELSE [sessions[s] EXCEPT !.proved = FALSE]]

\* The password becomes another one: what sessions, handlers and challenges proved is out of
\* date, and the sessions but that of the setter are revoked.
PasswordChanges(setters, done) ==
    /\ sessions' = Revoked(Outdated(setters), setters)
    /\ requests' = [r \in Requests |-> IF r \in done THEN Idle
                      ELSE IF requests[r].op \in {"open", "guess", "cancel"}
                           THEN [requests[r] EXCEPT !.proved = FALSE] ELSE requests[r]]
    /\ challenges' = [c \in Challenges |-> IF challenges[c] = None THEN None
                                           ELSE [challenges[c] EXCEPT !.proved = FALSE]]

Becomes(r, record) == requests' = [requests EXCEPT ![r] = record]
Done(r) == Becomes(r, Idle)
FirstIdle(r) == requests[r] = Idle /\ \A q \in Requests : q < r => requests[q] # Idle
Start(r, record) == FirstIdle(r) /\ Becomes(r, record)

--------------------------------------------------------------------------------
(* Invitations and the first link *)

\* An invitation that is open or has expired keeps the address from another one.  One to
\* an address that has an account can be created, but not accepted; it is left out.
CreateInvitation ==
    /\ invitation \notin {"open", "expired"} /\ status = "none"
    /\ invitation' = "open"
    /\ UNCHANGED <<status, grace, tasks, sessions, links, memory>>

InvitationExpires ==
    /\ invitation = "open" /\ invitation' = "expired"
    /\ UNCHANGED <<status, grace, tasks, sessions, links, memory>>

RevokeInvitation ==
    /\ invitation \in {"open", "expired"} /\ invitation' = "revoked"
    /\ UNCHANGED <<status, grace, tasks, sessions, links, memory>>

\* users.email is unique, and an erased account has given its address up: the account
\* modelled is the first one.
AcceptInvitation ==
    /\ invitation = "open" /\ status = "none"
    /\ invitation' = "consumed" /\ status' = "pending"
    /\ OpenSession(TRUE)
    /\ NewLink("email_verify")
    /\ UNCHANGED <<grace, tasks, memory>>

\* confirm_email_verification; a link of an account that is active already is spent too.
ConfirmEmail ==
    /\ status \in {"pending", "active"}
    /\ status' = "active"
    /\ Spend("email_verify")
    /\ UNCHANGED <<invitation, grace, tasks, sessions, memory>>

\* resend_email_verification or request_password_reset has passed its gate; the links
\* before are invalidated in the transaction that inserts the new one, and no lock keeps
\* a second request from doing the same in between.
Resend(r, p) ==
    /\ p = "email_verify" => status = "pending" /\ LiveSessions # {}
    /\ p = "password_reset" => status \in Resettable
    /\ p # "deletion_cancel"
    /\ Start(r, [op |-> "insert", purpose |-> p])
    /\ links' = [links EXCEPT ![p] = 0]
    /\ UNCHANGED <<invitation, status, grace, tasks, sessions, challenges, cascade, sweeping>>

InsertLink(r) ==
    /\ requests[r].op = "insert"
    /\ NewLink(requests[r].purpose)
    /\ Done(r)
    /\ UNCHANGED <<invitation, status, grace, tasks, sessions, challenges, cascade, sweeping>>

LinkExpires(p) ==
    /\ p = "deletion_cancel" => links[p] > Cardinality(Held)
    /\ Spend(p)
    /\ UNCHANGED <<invitation, status, grace, tasks, sessions, memory>>

--------------------------------------------------------------------------------
(* Login and the second factor *)

Referred(c) == \E r \in Requests : requests[r].op = "guess" /\ requests[r].of = c

\* MfaChallengeStore.create; an id is given once, so a handler that still holds the id
\* of a destroyed challenge meets no other one.
NewChallenge(c) ==
    /\ challenges[c] = None /\ ~Referred(c)
    /\ challenges' = [challenges EXCEPT ![c] = [attempts |-> 0, proved |-> TRUE]]

\* login with the present password: the user is read and the password verified before
\* the transaction that opens the session, or the challenge is made at once if a second
\* factor is set; whether it is may change between any two reads.
Login(r) ==
    /\ status \in {"pending", "active"} /\ FirstIdle(r)
    /\ \/ Becomes(r, [op |-> "open", proved |-> TRUE]) /\ UNCHANGED challenges
       \/ (\E c \in Challenges : NewChallenge(c)) /\ UNCHANGED requests
    /\ UNCHANGED <<rows, cascade, sweeping>>

\* login_mfa finds the challenge; the user is read after that.
FindChallenge(r, c) ==
    /\ challenges[c] # None
    /\ Start(r, [op |-> "guess", of |-> c, proved |-> challenges[c].proved])
    /\ UNCHANGED <<rows, challenges, cascade, sweeping>>

\* record_failure.
Recorded(ch) == IF ch = None \/ ch.attempts + 1 >= MaxAttempts THEN None
                ELSE [ch EXCEPT !.attempts = @ + 1]

\* The user is read and the code verified; a right code destroys the challenge whether
\* or not another handler has done so, and the status is not looked at.  A wrong one is
\* recorded unless the rate limiter refuses the failure.
VerifyCode(r) ==
    /\ requests[r].op = "guess"
    /\ LET c == requests[r].of IN
         \/ Done(r) /\ UNCHANGED challenges
         \/ Done(r) /\ challenges' = [challenges EXCEPT ![c] = Recorded(@)]
         \/ /\ Becomes(r, [op |-> "open", proved |-> requests[r].proved])
            /\ challenges' = [challenges EXCEPT ![c] = None]
    /\ UNCHANGED <<rows, cascade, sweeping>>

ChallengeExpires(c) ==
    /\ challenges[c] # None
    /\ challenges' = [challenges EXCEPT ![c] = None]
    /\ UNCHANGED <<rows, requests, cascade, sweeping>>

\* _start_session: the transaction has no condition.
StartSession(r) ==
    /\ requests[r].op = "open"
    /\ OpenSession(requests[r].proved)
    /\ Done(r)
    /\ UNCHANGED <<invitation, status, grace, tasks, links, challenges, cascade, sweeping>>

\* logout, delete_device_session, and the end of the lifetime of a session.
EndSession(s) ==
    /\ s \in LiveSessions
    /\ sessions' = [sessions EXCEPT ![s] = None]
    /\ UNCHANGED <<invitation, status, grace, tasks, links, memory>>

--------------------------------------------------------------------------------
(* Passwords *)

\* confirm_password_reset: one transaction under the lock of the link.
ConfirmReset ==
    /\ status \in Resettable
    /\ Spend("password_reset")
    /\ PasswordChanges({}, {})
    /\ UNCHANGED <<invitation, status, grace, tasks, cascade, sweeping>>

\* change_password: the given password is verified against the hash that came with the
\* authentication; the update has no condition.
AskChange(r, s) ==
    /\ Usable(s)
    /\ Start(r, [op |-> "change", by |-> s])
    /\ UNCHANGED <<rows, challenges, cascade, sweeping>>

ChangePassword(r) ==
    /\ requests[r].op = "change"
    /\ PasswordChanges({requests[r].by}, {r})
    /\ UNCHANGED <<invitation, status, grace, tasks, links, cascade, sweeping>>

--------------------------------------------------------------------------------
(* Tasks *)

\* POST /tasks has authenticated its user.
AskTask(r) ==
    /\ status \in {"pending", "active"} /\ LiveSessions # {}
    /\ Start(r, [op |-> "task"])
    /\ UNCHANGED <<rows, challenges, cascade, sweeping>>

\* resolve_task_provider and create_task: the key is one of the user's, which an erased
\* account has none of; the status of the account is not looked at again.  Quotas and the
\* other checks may refuse.  A row of tasks goes by terminate_tasks_hook alone.
CreateTask(r) ==
    /\ requests[r].op = "task" /\ Done(r)
    /\ \/ status # "deleted" /\ tasks' = TRUE
       \/ UNCHANGED tasks
    /\ UNCHANGED <<invitation, status, grace, sessions, links, challenges, cascade, sweeping>>

--------------------------------------------------------------------------------
(* The end of the account *)

AskDeletion(r) ==
    /\ status = "active" /\ LiveSessions # {}
    /\ Start(r, [op |-> "delete"])
    /\ UNCHANGED <<rows, challenges, cascade, sweeping>>

\* Mutant of RequestDeletion: no deadline is set.
BugNoDeadline(r) ==
    /\ requests[r].op = "delete" /\ Done(r)
    /\ status = "active"
    /\ status' = "deleting" /\ UNCHANGED grace
    /\ RevokeAll /\ tasks' = FALSE
    /\ NewLink("deletion_cancel")
    /\ UNCHANGED <<invitation, challenges, cascade, sweeping>>

\* request_deletion, with terminate_tasks_hook: the tasks there are by now are deleted.  What
\* becomes of their accounts is TaskStore's.
RequestDeletion(r) ==
    /\ requests[r].op = "delete" /\ Done(r)
    /\ \/ /\ status = "active"
          /\ status' = "deleting" /\ grace' = "running"
          /\ RevokeAll /\ tasks' = FALSE
          /\ NewLink("deletion_cancel")
       \/ status # "active" /\ UNCHANGED <<status, grace, tasks, sessions, links>>
    /\ UNCHANGED <<invitation, challenges, cascade, sweeping>>

\* cancel_deletion locks its link and reads the user, without a lock on the user.
ReadForCancel(r) ==
    /\ links["deletion_cancel"] > Cardinality(Held)
    /\ status = "deleting"
    /\ Start(r, [op |-> "cancel", proved |-> TRUE])
    /\ UNCHANGED <<rows, challenges, cascade, sweeping>>

CancelDeletion(r) ==
    /\ requests[r].op = "cancel" /\ Done(r)
    /\ \/ /\ status = "deleting"
          /\ status' = "active" /\ grace' = "none"
          /\ Spend("deletion_cancel")
          /\ OpenSession(requests[r].proved)
       \/ status # "deleting" /\ UNCHANGED <<status, grace, links, sessions>>
    /\ UNCHANGED <<invitation, tasks, challenges, cascade, sweeping>>

GraceEnds ==
    /\ grace = "running" /\ grace' = "over"
    /\ UNCHANGED <<invitation, status, tasks, sessions, links, memory>>

\* sweep_expired lists its candidates, then erases one after the other.
SweepCandidates ==
    /\ ~sweeping /\ status = "deleting" /\ grace = "over"
    /\ sweeping' = TRUE
    /\ UNCHANGED <<rows, challenges, requests, cascade>>

\* Mutants of SweepAccount: the status is that of the list; the keys go whoever refers to them.
BugErasesCandidate ==
    /\ sweeping /\ sweeping' = FALSE
    /\ \/ tasks /\ UNCHANGED <<status, grace, sessions, challenges, requests>>
       \/ ~tasks /\ status' = "deleted" /\ grace' = "none" /\ PasswordChanges({}, {})
    /\ UNCHANGED <<invitation, tasks, links, cascade>>

BugCascadesKeys ==
    /\ sweeping /\ sweeping' = FALSE
    /\ \/ status = "deleting" /\ status' = "deleted" /\ grace' = "none" /\ PasswordChanges({}, {})
       \/ status # "deleting" /\ UNCHANGED <<status, grace, sessions, challenges, requests>>
    /\ UNCHANGED <<invitation, tasks, links, cascade>>

\* One transaction.  tasks.provider_id restricts the deletion of the keys: a task created after
\* terminate_tasks_hook has it roll back, and ends the pass of sweep_expired by an error.
SweepAccount ==
    /\ sweeping /\ sweeping' = FALSE
    /\ \/ /\ status = "deleting" /\ ~tasks
          /\ status' = "deleted" /\ grace' = "none"
          /\ PasswordChanges({}, {})
       \/ /\ status # "deleting" \/ tasks
          /\ UNCHANGED <<status, grace, sessions, challenges, requests>>
    /\ UNCHANGED <<invitation, tasks, links, cascade>>

\* suspend_user_atomic; the sessions and links are left to the cascade.
Suspend ==
    /\ status \in {"active", "deleting"}
    /\ status' = "suspended" /\ grace' = "none"
    /\ cascade' = TRUE
    /\ UNCHANGED <<invitation, tasks, sessions, links, challenges, requests, sweeping>>

\* run_suspension_cascade, its first transaction; it waits for a link that is held.
Cascade ==
    /\ cascade /\ Held = {}
    /\ cascade' = FALSE
    /\ RevokeAll
    /\ links' = [links EXCEPT !["deletion_cancel"] = 0]
    /\ UNCHANGED <<invitation, status, grace, tasks, challenges, requests, sweeping>>

\* The error is logged; a repetition with the same key replays the answer, another one
\* is refused because the account is suspended, and neither runs the cascade.
CascadeFails ==
    /\ cascade /\ cascade' = FALSE
    /\ UNCHANGED <<rows, challenges, requests, sweeping>>

Unsuspend ==
    /\ status = "suspended" /\ status' = "active"
    /\ UNCHANGED <<invitation, grace, tasks, sessions, links, memory>>

\* Challenges live in the process; transactions under way are rolled back.
Restart ==
    /\ challenges' = [c \in Challenges |-> None]
    /\ requests' = [r \in Requests |-> Idle]
    /\ cascade' = FALSE /\ sweeping' = FALSE
    /\ UNCHANGED rows

--------------------------------------------------------------------------------
Init ==
    /\ invitation = "none" /\ status = "none" /\ grace = "none"
    /\ tasks = FALSE
    /\ sessions = [s \in Sessions |-> None]
    /\ links = [p \in Purposes |-> 0]
    /\ challenges = [c \in Challenges |-> None]
    /\ requests = [r \in Requests |-> Idle]
    /\ cascade = FALSE /\ sweeping = FALSE

Next ==
    \/ CreateInvitation \/ InvitationExpires \/ RevokeInvitation
    \/ AcceptInvitation
    \/ ConfirmEmail \/ ConfirmReset \/ \E p \in Purposes : LinkExpires(p)
    \/ \E c \in Challenges : ChallengeExpires(c)
    \/ (\E s \in Sessions : EndSession(s))
    \/ \E r \in Requests :
         \/ (\E p \in Purposes : Resend(r, p)) \/ InsertLink(r) \/ ReadForCancel(r)
         \/ Login(r) \/ VerifyCode(r) 
         \/ \E c \in Challenges : FindChallenge(r, c)
         \/ StartSession(r) \/ CancelDeletion(r) \/ \E s \in Sessions : AskChange(r, s)
         \/ ChangePassword(r) \/ AskTask(r) \/ CreateTask(r) \/ AskDeletion(r) \/ RequestDeletion(r)
    \/ GraceEnds \/ SweepCandidates \/ SweepAccount
    \/ Suspend \/ Cascade \/ CascadeFails \/ Unsuspend \/ Restart

Spec == Init /\ [][Next]_vars

\* deletion_sweep_loop goes on whatever a pass raises, time passes, and the process does
\* not restart in the middle of every pass.
FairSpec == Spec /\ WF_vars(GraceEnds) /\ WF_vars(SweepCandidates) /\ SF_vars(SweepAccount)

--------------------------------------------------------------------------------
(* Properties *)

Request == [op : {"idle", "task", "delete"}] \cup [op : {"insert"}, purpose : Purposes] \cup
           [op : {"open", "cancel"}, proved : BOOLEAN] \cup
           [op : {"guess"}, of : Challenges, proved : BOOLEAN] \cup
           [op : {"change"}, by : Sessions]

TypeOK ==
    /\ invitation \in {"none", "open", "expired", "revoked", "consumed"}
    /\ status \in {"none", "pending", "active", "suspended", "deleting", "deleted"}
    /\ grace \in {"none", "running", "over"}
    /\ tasks \in BOOLEAN /\ cascade \in BOOLEAN /\ sweeping \in BOOLEAN
    /\ sessions \in [Sessions -> {None} \cup [proved : BOOLEAN]]
    /\ links \in [Purposes -> 0 .. MaxLinks]
    /\ challenges \in [Challenges -> {None} \cup [attempts : 0 .. MaxAttempts - 1, proved : BOOLEAN]]
    /\ requests \in [Requests -> Request]

\* terminate_tasks_hook and the foreign key of tasks: whatever create_task commits during the
\* deletion, no task is left of an erased account, and none has lost the key it is to run with.
ErasedHasNoTasks == status = "deleted" => ~tasks

\* users.status moves as AccountLifecycle promises, whichever handler was late.
Lifecycle == INSTANCE AccountLifecycle
ImplementsLifecycle == Lifecycle!Spec

\* A deletion ends, withdrawn, stopped by a suspension or carried out, unless a task is created
\* after those there were have been deleted.
DeletionEndsButForLateTasks == status = "deleting" ~> status # "deleting" \/ tasks

--------------------------------------------------------------------------------
(* Documented, and not kept by the code *)

\* "all sessions are revoked, a new login is required" (confirm_password_reset): every session
\* proved the present password.  A login or a challenge that proved the former one before it
\* changed opens its session after the others are revoked.
FormerPasswordIsOut == \A s \in LiveSessions : sessions[s].proved

\* "tasks.provider_id RESTRICT is out of the way, the DELETE of user_providers passes"
\* (terminate_tasks_hook), so that every deletion ends.  A create_task that authenticated before
\* commits after it, and each pass of the sweep fails.
DeletionEnds == status = "deleting" ~> status # "deleting"

================================================================================
