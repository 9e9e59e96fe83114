-------------------------------- MODULE Outbox --------------------------------
(***************************************************************************)
(* The mail outbox: rows are enqueued with the transaction that needs the  *)
(* mail and sent by the loop of whichever process claims them.  A worker   *)
(* claims a batch under a lease, sends its mails one after the other with  *)
(* no transaction open, and writes the outcome of each if the lease is     *)
(* still its own.  Workers die, leases lapse under slow ones, transports   *)
(* fail.                                                                   *)
(***************************************************************************)
EXTENDS Naturals, FiniteSets

CONSTANTS
    Workers,       \* processes that run outbox_loop
    None,
    MaxMails,      \* bound: rows enqueued
    Batch,         \* dispatch_once(batch)
    MaxAttempts,   \* outbox.MAX_ATTEMPTS
    MaxLapses      \* bound: leases of a row that lapse

ASSUME OutboxAssumption ==
    /\ IsFiniteSet(Workers) /\ None \notin Workers
    /\ None \notin [mail : Nat, attempts : Nat] /\ None \notin {"ok", "failed"}
    /\ MaxMails \in Nat /\ Batch \in Nat /\ MaxAttempts \in Nat \ {0} /\ MaxLapses \in Nat

Mails == 1 .. MaxMails       \* in the order of created_at

VARIABLES
    mails,         \* email_outbox
    workers,       \* per worker: the rest of its batch, the row being sent, the outcome
    delivered,     \* observer: how often the transport took each mail
    lapses         \* observer: how often a lease of the row lapsed

vars == <<mails, workers, delivered, lapses>>

Idle == [batch |-> {}, row |-> None, outcome |-> None]

\* Mutant of Claimable: leases are not looked at.
BugAnyPending(m) == mails[m].state = "pending" /\ ~mails[m].backoff

\* The predicate of _CLAIM_SQL; a lapsed lease is one that crashed or is too slow.
Claimable(m) == /\ mails[m].state = "pending" /\ ~mails[m].backoff
                /\ mails[m].owner = None \/ mails[m].lapsed

\* ORDER BY created_at LIMIT batch, of what can be claimed.
Claims == {m \in Mails : /\ Claimable(m)
                         /\ Cardinality({n \in Mails : n < m /\ Claimable(n)}) < Batch}

--------------------------------------------------------------------------------
(* Enqueue and claim *)

\* The transaction that enqueues; ids are uuid7, so rows are numbered as they come.
Enqueue(m) ==
    /\ mails[m].state = "absent" /\ \A n \in Mails : n < m => mails[n].state # "absent"
    /\ mails' = [mails EXCEPT ![m].state = "pending"]
    /\ UNCHANGED <<workers, delivered, lapses>>

ClaimRows(w, claims) ==
    /\ workers[w] = Idle /\ claims # {}
    /\ workers' = [workers EXCEPT ![w].batch =
                     {[mail |-> m, attempts |-> mails[m].attempts] : m \in claims}]
    /\ mails' = [m \in Mails |-> IF m \in claims
                                 THEN [mails[m] EXCEPT !.owner = w, !.lapsed = FALSE]
                                 ELSE mails[m]]
    /\ UNCHANGED <<delivered, lapses>>

\* Mutant of Claim: leases that lapsed are not taken over.
BugNoTakeover(w) == ClaimRows(w, {m \in Claims : mails[m].owner = None})

\* The rows and their attempts come back in any order.
Claim(w) == ClaimRows(w, Claims)

--------------------------------------------------------------------------------
(* Delivery: _finalize_row *)

\* A payload that cannot be decrypted and a transport that raises are both a failure; the
\* transport may have raised after it took the mail.
Send(w) ==
    /\ workers[w].outcome = None
    /\ \E row \in workers[w].batch, outcome \in {"ok", "failed"}, taken \in BOOLEAN :
         /\ outcome = "ok" => taken
         /\ workers' = [workers EXCEPT ![w] = [batch |-> @.batch \ {row}, row |-> row,
                                              outcome |-> outcome]]
         /\ delivered' = [delivered EXCEPT ![row.mail] = @ + (IF taken THEN 1 ELSE 0)]
    /\ UNCHANGED <<mails, lapses>>

\* locked_by = NULL, locked_until = NULL
Freed(row) == [row EXCEPT !.owner = None, !.lapsed = FALSE]

Outcome(row, outcome, attempts) ==
    IF outcome = "ok" THEN [Freed(row) EXCEPT !.state = "sent"]
    ELSE IF attempts >= MaxAttempts
         THEN [Freed(row) EXCEPT !.state = "delivery_failed", !.attempts = attempts]
         ELSE [Freed(row) EXCEPT !.attempts = attempts, !.backoff = TRUE]

FinalizeIf(w, mine) ==
    /\ workers[w].outcome # None
    /\ LET row == workers[w].row IN
         mails' = IF mine
                  THEN [mails EXCEPT ![row.mail] =
                          Outcome(@, workers[w].outcome, row.attempts + 1)]
                  ELSE mails
    /\ workers' = [workers EXCEPT ![w] = [Idle EXCEPT !.batch = workers[w].batch]]
    /\ UNCHANGED <<delivered, lapses>>

\* Mutant of Finalize: the lease is not looked at.
BugUnfenced(w) == FinalizeIf(w, TRUE)

\* The attempts written are those of the claim and one more; the write is lost if another
\* worker has taken the lease over.
Finalize(w) == FinalizeIf(w, mails[workers[w].row.mail].owner = w)

\* The process dies, or the database fails and outbox_loop starts over: the rest of the
\* batch keeps its lease until it lapses.
Abandon(w) ==
    /\ workers[w] # Idle
    /\ workers' = [workers EXCEPT ![w] = Idle]
    /\ UNCHANGED <<mails, delivered, lapses>>

--------------------------------------------------------------------------------
(* Time *)

LeaseLapses(m) ==
    /\ mails[m].owner # None /\ ~mails[m].lapsed /\ lapses[m] < MaxLapses
    /\ mails' = [mails EXCEPT ![m].lapsed = TRUE]
    /\ lapses' = [lapses EXCEPT ![m] = @ + 1]
    /\ UNCHANGED <<workers, delivered>>

BackoffEnds(m) ==
    /\ mails[m].backoff
    /\ mails' = [mails EXCEPT ![m].backoff = FALSE]
    /\ UNCHANGED <<workers, delivered, lapses>>

--------------------------------------------------------------------------------
Init ==
    /\ mails = [m \in Mails |-> [state |-> "absent", attempts |-> 0, owner |-> None,
                                 lapsed |-> FALSE, backoff |-> FALSE]]
    /\ workers = [w \in Workers |-> Idle]
    /\ delivered = [m \in Mails |-> 0]
    /\ lapses = [m \in Mails |-> 0]

\* A worker abandons a batch only while leases may still lapse, so that MaxLapses bounds
\* both.
Next ==
    \/ \E m \in Mails : Enqueue(m) \/ LeaseLapses(m) \/ BackoffEnds(m)
    \/ \E w \in Workers :
         \/ Claim(w) \/ Send(w) \/ Finalize(w)
         \/ (\A m \in Mails : mails[m].owner = w => lapses[m] < MaxLapses) /\ Abandon(w)

Spec == Init /\ [][Next]_vars

\* outbox_loop goes on in every process, sends come to an end, and time passes.
FairSpec ==
    /\ Spec
    /\ \A w \in Workers : WF_vars(Claim(w)) /\ WF_vars(Send(w)) /\ WF_vars(Finalize(w))
    /\ \A m \in Mails : WF_vars(LeaseLapses(m)) /\ WF_vars(BackoffEnds(m))

--------------------------------------------------------------------------------
(* Properties *)

Claimed == [mail : Mails, attempts : 0 .. MaxAttempts - 1]

Row == [state : {"absent", "pending", "sent", "delivery_failed"}, attempts : 0 .. MaxAttempts,
        owner : Workers \cup {None}, lapsed : BOOLEAN, backoff : BOOLEAN]

TypeOK ==
    /\ mails \in [Mails -> Row]
    /\ \A m \in Mails : mails[m].state = "pending" => mails[m].attempts < MaxAttempts
    /\ workers \in [Workers -> [batch : SUBSET Claimed, row : Claimed \cup {None},
                                outcome : {None, "ok", "failed"}]]
    /\ \A w \in Workers : workers[w].outcome = None <=> workers[w].row = None
    /\ delivered \in [Mails -> Nat] /\ lapses \in [Mails -> 0 .. MaxLapses]

\* _CLAIM_SQL, "several instances do not claim twice": a mail goes out again only if a try
\* was reported as failed, or a lease of its row had lapsed.
NoNeedlessDuplicate ==
    \A m \in Mails : delivered[m] <= 1 + mails[m].attempts + lapses[m]

\* _RETRY_SQL and its "optimistic guard": a worker that lost its lease takes no attempt
\* back, and what has been sent or has failed for good stays so.
OutcomesStand ==
    [][\A m \in Mails : /\ mails'[m].attempts >= mails[m].attempts
                        /\ mails[m].state \in {"sent", "delivery_failed"} =>
                             mails'[m].state = mails[m].state]_vars

\* Every mail is sent or given up, whatever fails on the way.
MailEnds == \A m \in Mails :
               mails[m].state = "pending" ~> mails[m].state \in {"sent", "delivery_failed"}

================================================================================
