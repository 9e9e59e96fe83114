------------------------------ MODULE OutboxProofs ------------------------------
(***************************************************************************)
(* Proofs about Outbox for any number of workers and mails.  OutcomesStand *)
(* rests on the lease: what a worker holds of a row it owns is the row.    *)
(* NoNeedlessDuplicate is an account: a mail may be delivered once more    *)
(* for each worker that has it in its batch, and once if it is free to be  *)
(* claimed, and neither is gained without an attempt or a lapse.           *)
(***************************************************************************)
EXTENDS Outbox, TLAPS, FiniteSetTheorems

\* Owned rows are pending, and those not yet decided have attempts left.
RowsSound ==
    \A m \in Mails :
       /\ mails[m].owner # None => mails[m].state = "pending"
       /\ mails[m].lapsed => mails[m].owner # None
       /\ mails[m].state = "absent" => mails[m].attempts = 0

\* What a worker took with its lease is still so while the lease is its own.
LeaseKeepsRow ==
    \A w \in Workers :
       /\ \A r \in workers[w].batch : mails[r.mail].owner = w => r.attempts = mails[r.mail].attempts
       /\ workers[w].row # None /\ mails[workers[w].row.mail].owner = w
             => workers[w].row.attempts = mails[workers[w].row.mail].attempts
       /\ \A q, r \in workers[w].batch : q.mail = r.mail => q = r

Has(w, m)  == \E r \in workers[w].batch : r.mail = m
Holders(m) == {w \in Workers : Has(w, m)}

\* A mail that can be claimed at once, or whose lease has lapsed.
Free(m) == IF (mails[m].owner = None /\ mails[m].state \in {"absent", "pending"}) \/ mails[m].lapsed
           THEN 1 ELSE 0

Account ==
    \A m \in Mails :
       delivered[m] + Cardinality(Holders(m)) + Free(m) <= 1 + mails[m].attempts + lapses[m]

StateInv == TypeOK /\ RowsSound /\ LeaseKeepsRow
IInv     == StateInv /\ Account

--------------------------------------------------------------------------------
(* What the writes do to a row *)

LEMMA OwnedRow ==
  ASSUME NEW r \in Row, NEW w \in Workers
  PROVE  LET q == [r EXCEPT !.owner = w, !.lapsed = FALSE]
         IN  /\ q \in Row /\ q.owner = w /\ ~ q.lapsed
             /\ q.state = r.state /\ q.attempts = r.attempts
BY DEF Row

LEMMA LapsedRow ==
  ASSUME NEW r \in Row
  PROVE  LET q == [r EXCEPT !.lapsed = TRUE]
         IN  /\ q \in Row /\ q.owner = r.owner /\ q.lapsed
             /\ q.state = r.state /\ q.attempts = r.attempts
BY DEF Row

LEMMA ReadyRow ==
  ASSUME NEW r \in Row
  PROVE  LET q == [r EXCEPT !.backoff = FALSE]
         IN  /\ q \in Row /\ q.owner = r.owner /\ q.lapsed = r.lapsed
             /\ q.state = r.state /\ q.attempts = r.attempts
BY DEF Row

LEMMA EnqueuedRow ==
  ASSUME NEW r \in Row
  PROVE  LET q == [r EXCEPT !.state = "pending"]
         IN  /\ q \in Row /\ q.owner = r.owner /\ q.lapsed = r.lapsed
             /\ q.state = "pending" /\ q.attempts = r.attempts
BY DEF Row

LEMMA FreedRow ==
  ASSUME NEW r \in Row
  PROVE  /\ Freed(r) \in Row /\ Freed(r).owner = None /\ ~ Freed(r).lapsed
         /\ Freed(r).state = r.state /\ Freed(r).attempts = r.attempts
BY DEF Row, Freed

\* The row of a try that has come to its end.
Decided(r, n, q) ==
    /\ q \in Row /\ q.owner = None /\ ~ q.lapsed
    /\ q.state \in {"pending", "sent", "delivery_failed"}
    /\ q.state = "pending" => q.attempts < MaxAttempts
    /\ q.attempts >= r.attempts
    /\ q.state # "sent" => q.attempts = n

LEMMA DecidedRow ==
  ASSUME NEW r \in Row, NEW outcome \in {"ok", "failed"}, NEW n \in 1 .. MaxAttempts,
         r.attempts = n - 1, r.state = "pending"
  PROVE  Decided(r, n, Outcome(r, outcome, n))
<1> USE DEF Decided
<1>1. PICK f \in Row : f = Freed(r) BY FreedRow
<1>2. f.owner = None /\ ~ f.lapsed /\ f.state = "pending" /\ f.attempts = n - 1
  BY <1>1, FreedRow
<1>3. n \in 0 .. MaxAttempts BY OutboxAssumption
<1>4. PICK g : g = [f EXCEPT !.attempts = n] OBVIOUS
<1>5. g \in Row BY <1>3, <1>4 DEF Row
<1>6. g.owner = None /\ ~ g.lapsed /\ g.state = "pending" /\ g.attempts = n
  BY <1>2, <1>4 DEF Row
<1>7. CASE outcome = "ok"
  <2>1. Outcome(r, outcome, n) = [f EXCEPT !.state = "sent"] BY <1>1, <1>7 DEF Outcome
  <2>2. PICK q : q = [f EXCEPT !.state = "sent"] OBVIOUS
  <2>3. q \in Row BY <2>2 DEF Row
  <2>4. q.owner = None /\ ~ q.lapsed /\ q.state = "sent" /\ q.attempts = n - 1
    BY <1>2, <2>2 DEF Row
  <2> QED BY <2>1, <2>2, <2>3, <2>4
<1>8. CASE outcome # "ok" /\ n >= MaxAttempts
  <2>1. Outcome(r, outcome, n) = [f EXCEPT !.state = "delivery_failed", !.attempts = n]
    BY <1>1, <1>8 DEF Outcome
  <2>2. PICK q : q = [g EXCEPT !.state = "delivery_failed"] OBVIOUS
  <2>3. q \in Row BY <1>5, <2>2 DEF Row
  <2>4. q.owner = None /\ ~ q.lapsed /\ q.state = "delivery_failed" /\ q.attempts = n
    BY <1>5, <1>6, <2>2 DEF Row
  <2>5. q = [f EXCEPT !.state = "delivery_failed", !.attempts = n] BY <1>4, <2>2 DEF Row
  <2> QED BY <2>1, <2>5, <2>3, <2>4
<1>9. CASE outcome # "ok" /\ ~ (n >= MaxAttempts)
  <2>1. Outcome(r, outcome, n) = [f EXCEPT !.attempts = n, !.backoff = TRUE]
    BY <1>1, <1>9 DEF Outcome
  <2>2. PICK q : q = [g EXCEPT !.backoff = TRUE] OBVIOUS
  <2>3. q \in Row BY <1>5, <2>2 DEF Row
  <2>4. q.owner = None /\ ~ q.lapsed /\ q.state = "pending" /\ q.attempts = n
    BY <1>5, <1>6, <2>2 DEF Row
  <2>5. q = [f EXCEPT !.attempts = n, !.backoff = TRUE] BY <1>4, <2>2
  <2> QED BY <1>9, <2>1, <2>5, <2>3, <2>4, OutboxAssumption
<1> QED BY <1>7, <1>8, <1>9

--------------------------------------------------------------------------------
(* What the steps do to the rows *)

LEMMA EnqueueRows ==
  ASSUME StateInv, NEW m \in Mails, Enqueue(m)
  PROVE  /\ mails' \in [Mails -> Row] /\ UNCHANGED <<workers, delivered, lapses>>
         /\ \A n \in Mails : /\ mails'[n].attempts = mails[n].attempts
                             /\ mails'[n].owner = mails[n].owner
                             /\ mails'[n].lapsed = mails[n].lapsed
                             /\ mails'[n].state = IF n = m THEN "pending" ELSE mails[n].state
         /\ mails[m].state = "absent"
<1>1. PICK q : q = [mails[m] EXCEPT !.state = "pending"] OBVIOUS
<1>2. /\ mails' = [mails EXCEPT ![m] = q] /\ mails[m].state = "absent"
      /\ UNCHANGED <<workers, delivered, lapses>>
  BY <1>1 DEF Enqueue
<1>3. mails \in [Mails -> Row] BY DEF StateInv, TypeOK
<1>4. /\ q \in Row /\ q.owner = mails[m].owner /\ q.lapsed = mails[m].lapsed
      /\ q.state = "pending" /\ q.attempts = mails[m].attempts
  BY <1>1, <1>3, EnqueuedRow
<1> QED BY <1>2, <1>3, <1>4

LEMMA LapseRows ==
  ASSUME StateInv, NEW m \in Mails, LeaseLapses(m)
  PROVE  /\ mails' \in [Mails -> Row] /\ UNCHANGED <<workers, delivered>>
         /\ lapses' = [lapses EXCEPT ![m] = @ + 1] /\ lapses[m] < MaxLapses
         /\ \A n \in Mails : /\ mails'[n].attempts = mails[n].attempts
                             /\ mails'[n].owner = mails[n].owner
                             /\ mails'[n].lapsed = (n = m \/ mails[n].lapsed)
                             /\ mails'[n].state = mails[n].state
         /\ mails[m].owner # None
<1>1. PICK q : q = [mails[m] EXCEPT !.lapsed = TRUE] OBVIOUS
<1>2. /\ mails' = [mails EXCEPT ![m] = q] /\ mails[m].owner # None
      /\ lapses' = [lapses EXCEPT ![m] = @ + 1] /\ lapses[m] < MaxLapses
      /\ UNCHANGED <<workers, delivered>>
  BY <1>1 DEF LeaseLapses
<1>3. mails \in [Mails -> Row] BY DEF StateInv, TypeOK
<1>4. /\ q \in Row /\ q.owner = mails[m].owner /\ q.lapsed = TRUE
      /\ q.state = mails[m].state /\ q.attempts = mails[m].attempts
  BY <1>1, <1>3, LapsedRow DEF Row
<1>5. \A n \in Mails : mails[n].lapsed \in BOOLEAN BY <1>3 DEF Row
<1> QED BY <1>2, <1>3, <1>4, <1>5

LEMMA BackoffRows ==
  ASSUME StateInv, NEW m \in Mails, BackoffEnds(m)
  PROVE  /\ mails' \in [Mails -> Row] /\ UNCHANGED <<workers, delivered, lapses>>
         /\ \A n \in Mails : /\ mails'[n].attempts = mails[n].attempts
                             /\ mails'[n].owner = mails[n].owner
                             /\ mails'[n].lapsed = mails[n].lapsed
                             /\ mails'[n].state = mails[n].state
<1>1. PICK q : q = [mails[m] EXCEPT !.backoff = FALSE] OBVIOUS
<1>2. /\ mails' = [mails EXCEPT ![m] = q] /\ UNCHANGED <<workers, delivered, lapses>>
  BY <1>1 DEF BackoffEnds
<1>3. mails \in [Mails -> Row] BY DEF StateInv, TypeOK
<1>4. /\ q \in Row /\ q.owner = mails[m].owner /\ q.lapsed = mails[m].lapsed
      /\ q.state = mails[m].state /\ q.attempts = mails[m].attempts
  BY <1>1, <1>3, ReadyRow
<1> QED BY <1>2, <1>3, <1>4

LEMMA ClaimedRows ==
  ASSUME StateInv, NEW w \in Workers, Claim(w)
  PROVE  /\ mails' \in [Mails -> Row] /\ UNCHANGED <<delivered, lapses>>
         /\ \A m \in Mails : /\ mails'[m].attempts = mails[m].attempts
                             /\ mails'[m].state = mails[m].state
                             /\ mails'[m].owner = IF m \in Claims THEN w ELSE mails[m].owner
                             /\ m \in Claims => ~ mails'[m].lapsed
                             /\ m \notin Claims => mails'[m].lapsed = mails[m].lapsed
<1>1. mails \in [Mails -> Row] BY DEF StateInv, TypeOK
<1>2. UNCHANGED <<delivered, lapses>>
      /\ mails' = [m \in Mails |-> IF m \in Claims
                                   THEN [mails[m] EXCEPT !.owner = w, !.lapsed = FALSE]
                                   ELSE mails[m]]
  BY DEF Claim, ClaimRows
<1>3. ASSUME NEW m \in Mails
      PROVE  /\ mails'[m] \in Row /\ mails'[m].attempts = mails[m].attempts
             /\ mails'[m].state = mails[m].state
             /\ mails'[m].owner = IF m \in Claims THEN w ELSE mails[m].owner
             /\ m \in Claims => ~ mails'[m].lapsed
             /\ m \notin Claims => mails'[m].lapsed = mails[m].lapsed
  <2>1. CASE m \in Claims
    <3>1. mails'[m] = [mails[m] EXCEPT !.owner = w, !.lapsed = FALSE] BY <1>2, <2>1
    <3>2. PICK q : q = [mails[m] EXCEPT !.owner = w, !.lapsed = FALSE] OBVIOUS
    <3>3. /\ q \in Row /\ q.owner = w /\ ~ q.lapsed
          /\ q.state = mails[m].state /\ q.attempts = mails[m].attempts
      BY <1>1, <3>2, OwnedRow
    <3> QED BY <2>1, <3>1, <3>2, <3>3
  <2>2. CASE m \notin Claims BY <1>1, <1>2, <2>2
  <2> QED BY <2>1, <2>2
<1>4. mails' \in [Mails -> Row] BY <1>2, <1>3
<1> QED BY <1>2, <1>3, <1>4

LEMMA ClaimedBatch ==
  ASSUME StateInv, NEW w \in Workers, Claim(w)
  PROVE  \E batch \in SUBSET Claimed :
            /\ workers[w] = Idle
            /\ workers' = [workers EXCEPT ![w] = [batch |-> batch, row |-> None, outcome |-> None]]
            /\ \A r \in batch : r.mail \in Claims /\ r.attempts = mails[r.mail].attempts
            /\ \A m \in Claims : \E r \in batch : r.mail = m
            /\ \A q, r \in batch : q.mail = r.mail => q = r
<1> DEFINE batch == {[mail |-> m, attempts |-> mails[m].attempts] : m \in Claims}
<1>1. \A m \in Claims : m \in Mails /\ mails[m].attempts \in 0 .. MaxAttempts - 1
  BY OutboxAssumption DEF Claims, Claimable, Row, StateInv, TypeOK
<1>2. batch \in SUBSET Claimed BY <1>1 DEF Claimed
<1>3. workers[w] = Idle /\ workers' = [workers EXCEPT ![w].batch = batch]
  BY DEF Claim, ClaimRows
<1>4. \A r \in batch : r.mail \in Claims /\ r.attempts = mails[r.mail].attempts OBVIOUS
<1>5. \A q, r \in batch : q.mail = r.mail => q = r OBVIOUS
<1>6. ASSUME NEW m \in Claims PROVE \E r \in batch : r.mail = m
  <2>1. [mail |-> m, attempts |-> mails[m].attempts] \in batch OBVIOUS
  <2> QED BY <2>1
<1> HIDE DEF batch
<1>7. workers' = [workers EXCEPT ![w] = [batch |-> batch, row |-> None, outcome |-> None]]
  <2>1. workers \in [Workers -> [batch : SUBSET Claimed, row : Claimed \cup {None},
                                outcome : {None, "ok", "failed"}]]
    BY DEF StateInv, TypeOK
  <2>2. [workers[w] EXCEPT !.batch = batch] = [batch |-> batch, row |-> None, outcome |-> None]
    BY <1>3 DEF Idle
  <2> QED BY <1>3, <2>1, <2>2
<1> QED BY <1>2, <1>3, <1>4, <1>5, <1>6, <1>7

LEMMA FinalizedRows ==
  ASSUME StateInv, NEW w \in Workers, Finalize(w)
  PROVE  LET m == workers[w].row.mail
         IN  /\ m \in Mails /\ UNCHANGED <<delivered, lapses>>
             /\ workers' = [workers EXCEPT ![w] = [batch |-> workers[w].batch, row |-> None,
                                                outcome |-> None]]
             /\ mails[m].owner # w => mails' = mails
             /\ mails[m].owner = w => /\ mails[m].state = "pending"
                                      /\ Decided(mails[m], mails[m].attempts + 1, mails'[m])
                                      /\ mails' = [mails EXCEPT ![m] = mails'[m]]
<1> DEFINE row == workers[w].row
<1> USE OutboxAssumption DEF StateInv, TypeOK
<1>1. row \in Claimed /\ workers[w].outcome \in {"ok", "failed"}
  BY DEF Finalize, FinalizeIf
<1>2. row.mail \in Mails /\ row.attempts + 1 \in 1 .. MaxAttempts
  BY <1>1 DEF Claimed
<1>3. workers' = [workers EXCEPT ![w] = [batch |-> workers[w].batch, row |-> None,
                                                outcome |-> None]]
      /\ UNCHANGED <<delivered, lapses>>
  <2>1. [Idle EXCEPT !.batch = workers[w].batch] =
           [batch |-> workers[w].batch, row |-> None, outcome |-> None]
    BY DEF Idle
  <2> QED BY <2>1 DEF Finalize, FinalizeIf
<1>4. mails[row.mail].owner # w => mails' = mails BY DEF Finalize, FinalizeIf
<1>5. ASSUME mails[row.mail].owner = w
      PROVE  /\ mails[row.mail].state = "pending"
             /\ Decided(mails[row.mail], mails[row.mail].attempts + 1, mails'[row.mail])
             /\ mails' = [mails EXCEPT ![row.mail] = mails'[row.mail]]
  <2>1. mails[row.mail].state = "pending" BY <1>2, <1>5 DEF RowsSound
  <2>2. row # None BY <1>1 DEF Claimed, Mails
  <2>3. row.attempts = mails[row.mail].attempts BY <1>5, <2>2 DEF LeaseKeepsRow
  <2>4. mails' = [mails EXCEPT ![row.mail] =
                    Outcome(mails[row.mail], workers[w].outcome, row.attempts + 1)]
    BY <1>5 DEF Finalize, FinalizeIf
  <2>5. PICK q : q = Outcome(mails[row.mail], workers[w].outcome, row.attempts + 1) OBVIOUS
  <2>6. mails[row.mail] \in Row /\ row.attempts \in Nat BY <1>1, <1>2 DEF Claimed
  <2>7. Decided(mails[row.mail], row.attempts + 1, q)
    BY <1>1, <1>2, <2>1, <2>3, <2>5, <2>6, DecidedRow
  <2>8. mails' = [mails EXCEPT ![row.mail] = q] BY <2>4, <2>5
  <2>9. mails'[row.mail] = q BY <1>2, <2>8
  <2> QED BY <2>1, <2>3, <2>7, <2>8, <2>9
<1> QED BY <1>2, <1>3, <1>4, <1>5

--------------------------------------------------------------------------------
(* Rows and leases *)

LEMMA StateInit == Init => StateInv
BY OutboxAssumption DEF Init, StateInv, TypeOK, RowsSound, LeaseKeepsRow, Row, Idle

LEMMA StateNext ==
  ASSUME StateInv, [Next]_vars
  PROVE  StateInv'
<1> USE OutboxAssumption DEF StateInv, TypeOK, RowsSound, LeaseKeepsRow
<1>1. ASSUME NEW m \in Mails, Enqueue(m) PROVE StateInv'
  <2>1. TypeOK' BY <1>1, EnqueueRows
  <2>2. RowsSound' BY <1>1, EnqueueRows
  <2>3. LeaseKeepsRow' BY <1>1, EnqueueRows, SMTT(30) DEF Claimed
  <2> QED BY <2>1, <2>2, <2>3
<1>2. ASSUME NEW m \in Mails, LeaseLapses(m) PROVE StateInv'
  <2>1. TypeOK' BY <1>2, LapseRows
  <2>2. RowsSound' BY <1>2, LapseRows, ZenonT(60)
  <2>3. LeaseKeepsRow' BY <1>2, LapseRows DEF Claimed
  <2> QED BY <2>1, <2>2, <2>3
<1>3. ASSUME NEW m \in Mails, BackoffEnds(m) PROVE StateInv'
  <2>1. TypeOK' BY <1>3, BackoffRows
  <2>2. RowsSound' BY <1>3, BackoffRows
  <2>3. LeaseKeepsRow' BY <1>3, BackoffRows DEF Claimed
  <2> QED BY <2>1, <2>2, <2>3
<1>4. ASSUME NEW w \in Workers, Claim(w) PROVE StateInv'
  <2>1. PICK batch \in SUBSET Claimed :
           /\ workers[w] = Idle
           /\ workers' = [workers EXCEPT ![w] = [batch |-> batch, row |-> None, outcome |-> None]]
           /\ \A r \in batch : r.mail \in Claims /\ r.attempts = mails[r.mail].attempts
           /\ \A m \in Claims : \E r \in batch : r.mail = m
           /\ \A q, r \in batch : q.mail = r.mail => q = r
    BY <1>4, ClaimedBatch
  <2>2. \A m \in Claims : m \in Mails /\ mails[m].state = "pending"
    BY DEF Claims, Claimable
  <2>3. /\ mails' \in [Mails -> Row] /\ UNCHANGED <<delivered, lapses>>
        /\ \A m \in Mails : /\ mails'[m].attempts = mails[m].attempts
                            /\ mails'[m].state = mails[m].state
                            /\ mails'[m].owner = IF m \in Claims THEN w ELSE mails[m].owner
                            /\ m \in Claims => ~ mails'[m].lapsed
                            /\ m \notin Claims => mails'[m].lapsed = mails[m].lapsed
    BY <1>4, ClaimedRows
  <2>4. TypeOK'
    <3>1. [batch |-> batch, row |-> None, outcome |-> None] \in
             [batch : SUBSET Claimed, row : Claimed \cup {None}, outcome : {None, "ok", "failed"}]
      OBVIOUS
    <3>2. workers' \in [Workers -> [batch : SUBSET Claimed, row : Claimed \cup {None},
                                    outcome : {None, "ok", "failed"}]]
      BY <2>1, <3>1
    <3>3. \A v \in Workers : workers'[v].outcome = None <=> workers'[v].row = None BY <2>1
    <3> QED BY <2>3, <3>2, <3>3
  <2>5. RowsSound' BY <2>2, <2>3
  <2>6. LeaseKeepsRow'
    <3>1. ASSUME NEW v \in Workers, v # w
          PROVE  /\ \A r \in workers'[v].batch :
                       mails'[r.mail].owner = v => r.attempts = mails'[r.mail].attempts
                 /\ workers'[v].row # None /\ mails'[workers'[v].row.mail].owner = v
                       => workers'[v].row.attempts = mails'[workers'[v].row.mail].attempts
                 /\ \A q, r \in workers'[v].batch : q.mail = r.mail => q = r
      BY <3>1, <2>1, <2>3 DEF Claimed
    <3>2. workers'[w] = [batch |-> batch, row |-> None, outcome |-> None] BY <2>1
    <3>3. \A r \in batch : r.attempts = mails'[r.mail].attempts BY <2>1, <2>2, <2>3
    <3> QED BY <2>1, <3>1, <3>2, <3>3
  <2> QED BY <2>4, <2>5, <2>6
<1>5. ASSUME NEW w \in Workers, Send(w) PROVE StateInv'
  <2>1. PICK row \in workers[w].batch, outcome \in {"ok", "failed"}, taken \in BOOLEAN :
           /\ workers' = [workers EXCEPT ![w] = [batch |-> workers[w].batch \ {row}, row |-> row,
                                                 outcome |-> outcome]]
           /\ delivered' = [delivered EXCEPT ![row.mail] = @ + (IF taken THEN 1 ELSE 0)]
           /\ UNCHANGED <<mails, lapses>>
    BY <1>5 DEF Send
  <2>2. row \in Claimed OBVIOUS
  <2>3. TypeOK'
    <3>1. [batch |-> workers[w].batch \ {row}, row |-> row, outcome |-> outcome] \in
             [batch : SUBSET Claimed, row : Claimed \cup {None}, outcome : {None, "ok", "failed"}]
      BY <2>2
    <3>2. outcome # None /\ row # None BY <2>2 DEF Claimed, Mails
    <3>3. delivered' \in [Mails -> Nat] BY <2>1, <2>2 DEF Claimed
    <3>4. workers' \in [Workers -> [batch : SUBSET Claimed, row : Claimed \cup {None},
                                    outcome : {None, "ok", "failed"}]]
      BY <2>1, <3>1
    <3>5. \A v \in Workers : workers'[v].outcome = None <=> workers'[v].row = None
      BY <2>1, <3>2
    <3> QED BY <2>1, <3>3, <3>4, <3>5
  <2>4. RowsSound' BY <2>1
  <2>5. LeaseKeepsRow' BY <2>1, <2>2
  <2> QED BY <2>3, <2>4, <2>5
<1>6. ASSUME NEW w \in Workers, Finalize(w) PROVE StateInv'
  <2> DEFINE m == workers[w].row.mail
  <2>1. /\ m \in Mails /\ UNCHANGED <<delivered, lapses>>
        /\ workers' = [workers EXCEPT ![w] = [batch |-> workers[w].batch, row |-> None,
                                                outcome |-> None]]
        /\ mails[m].owner # w => mails' = mails
        /\ mails[m].owner = w => /\ Decided(mails[m], mails[m].attempts + 1, mails'[m])
                                 /\ mails' = [mails EXCEPT ![m] = mails'[m]]
    BY <1>6, FinalizedRows
  <2> HIDE DEF m
  <2>2. \A n \in Mails : n # m => mails'[n] = mails[n] BY <2>1
  <2>3. mails'[m] = mails[m] \/ Decided(mails[m], mails[m].attempts + 1, mails'[m]) BY <2>1
  <2>4. mails' \in [Mails -> Row] BY <2>1 DEF Decided
  <2>5. \A v \in Workers : /\ workers'[v].batch = workers[v].batch
                           /\ v # w => workers'[v] = workers[v]
                           /\ v = w => workers'[v].row = None /\ workers'[v].outcome = None
    BY <2>1
  <2>6. TypeOK'
    <3>1. workers' \in [Workers -> [batch : SUBSET Claimed, row : Claimed \cup {None},
                                    outcome : {None, "ok", "failed"}]]
      <4>1. PICK q : q = [batch |-> workers[w].batch, row |-> None, outcome |-> None] OBVIOUS
      <4>2. q \in [batch : SUBSET Claimed, row : Claimed \cup {None},
                   outcome : {None, "ok", "failed"}]
        BY <4>1
      <4>3. workers' = [workers EXCEPT ![w] = q] BY <2>1, <4>1
      <4> QED BY <4>2, <4>3
    <3>2. \A v \in Workers : workers'[v].outcome = None <=> workers'[v].row = None BY <2>5
    <3>3. \A n \in Mails : mails'[n].state = "pending" => mails'[n].attempts < MaxAttempts
      BY <2>2, <2>3 DEF Decided
    <3> QED BY <2>1, <2>4, <3>1, <3>2, <3>3
  <2>7. RowsSound' BY <2>2, <2>3 DEF Decided
  <2>8. LeaseKeepsRow'
    <3>1. \A v \in Workers, n \in Mails : mails'[n].owner = v => mails'[n] = mails[n]
      BY <2>2, <2>3 DEF Decided
    <3> QED BY <2>5, <3>1 DEF Claimed
  <2> QED BY <2>6, <2>7, <2>8
<1>7. ASSUME NEW w \in Workers, Abandon(w) PROVE StateInv'
  <2>1. workers' = [workers EXCEPT ![w] = Idle] /\ UNCHANGED <<mails, delivered, lapses>>
    BY <1>7 DEF Abandon
  <2> QED BY <2>1 DEF Idle
<1>8. CASE UNCHANGED vars BY <1>8 DEF vars
<1> QED BY <1>1, <1>2, <1>3, <1>4, <1>5, <1>6, <1>7, <1>8 DEF Next

\* Rows, batches and counters keep their type; a row that waits has an attempt left.
THEOREM OutboxTypeCorrect == Spec => []TypeOK
<1>1. StateInv => TypeOK BY DEF StateInv
<1> QED BY StateInit, StateNext, <1>1, PTL DEF Spec

--------------------------------------------------------------------------------
(* OutcomesStand *)

LEMMA OutcomesStep ==
  ASSUME StateInv, [Next]_vars, NEW m \in Mails
  PROVE  /\ mails'[m].attempts >= mails[m].attempts
         /\ mails[m].state \in {"sent", "delivery_failed"} => mails'[m].state = mails[m].state
<1>1. mails[m] \in Row BY DEF StateInv, TypeOK
<1>2. mails[m].attempts \in Nat BY <1>1, OutboxAssumption DEF Row
<1>3. ASSUME NEW n \in Mails, Enqueue(n) \/ LeaseLapses(n) \/ BackoffEnds(n)
      PROVE  /\ mails'[m].attempts = mails[m].attempts
             /\ mails[m].state \in {"sent", "delivery_failed"} => mails'[m].state = mails[m].state
  BY <1>3, EnqueueRows, LapseRows, BackoffRows
<1>4. ASSUME NEW w \in Workers, Claim(w)
      PROVE  mails'[m].attempts = mails[m].attempts /\ mails'[m].state = mails[m].state
  BY <1>4, ClaimedRows
<1>5. ASSUME NEW w \in Workers, Send(w) \/ Abandon(w)
      PROVE  mails' = mails
  BY <1>5 DEF Send, Abandon
<1>6. ASSUME NEW w \in Workers, Finalize(w)
      PROVE  /\ mails'[m].attempts >= mails[m].attempts
             /\ mails[m].state \in {"sent", "delivery_failed"} => mails'[m].state = mails[m].state
  <2> DEFINE n == workers[w].row.mail
  <2>1. /\ n \in Mails
        /\ mails[n].owner # w => mails' = mails
        /\ mails[n].owner = w => /\ mails[n].state = "pending"
                                 /\ Decided(mails[n], mails[n].attempts + 1, mails'[n])
                                 /\ mails' = [mails EXCEPT ![n] = mails'[n]]
    BY <1>6, FinalizedRows
  <2> HIDE DEF n
  <2>2. (mails' = mails \/ m # n) => mails'[m] = mails[m] BY <2>1 DEF StateInv, TypeOK
  <2>3. mails' # mails /\ m = n => /\ mails[m].state = "pending"
                                   /\ Decided(mails[m], mails[m].attempts + 1, mails'[m])
    BY <2>1
  <2> QED BY <1>2, <2>2, <2>3 DEF Decided
<1>7. CASE UNCHANGED vars BY <1>2, <1>7 DEF vars
<1> QED BY <1>2, <1>3, <1>4, <1>5, <1>6, <1>7 DEF Next

\* A worker whose lease was taken over takes no attempt back, and what has been sent or has
\* failed for good stays so: the guard of the writes is on the owner, and an owner's row is
\* as it was when it was claimed.
THEOREM OutcomesAreFinal == Spec => OutcomesStand
<1>1. StateInv /\ [Next]_vars =>
        [\A m \in Mails : /\ mails'[m].attempts >= mails[m].attempts
                          /\ mails[m].state \in {"sent", "delivery_failed"} =>
                               mails'[m].state = mails[m].state]_vars
  BY OutcomesStep
<1> QED BY StateInit, StateNext, <1>1, PTL DEF Spec, OutcomesStand

--------------------------------------------------------------------------------
(* NoNeedlessDuplicate *)

LEMMA HoldersCount ==
  /\ \A m \in Mails : IsFiniteSet(Holders(m)) /\ Cardinality(Holders(m)) \in Nat
  /\ \A m \in Mails : IsFiniteSet(Holders(m)') /\ Cardinality(Holders(m))' \in Nat
BY OutboxAssumption, FS_Subset, FS_CardinalityType DEF Holders

\* A step that changes only what a mail costs keeps the account, if it is paid for.
LEMMA AccountKept ==
  ASSUME NEW d \in Nat, NEW h \in Nat, NEW f \in {0, 1}, NEW a \in Nat, NEW l \in Nat,
         NEW d2 \in Nat, NEW h2 \in Nat, NEW f2 \in {0, 1}, NEW a2 \in Nat, NEW l2 \in Nat,
         d + h + f <= 1 + a + l,
         d2 + h2 + f2 + a + l <= d + h + f + a2 + l2
  PROVE  d2 + h2 + f2 <= 1 + a2 + l2
OBVIOUS

LEMMA AccountInit == Init => Account
<1> SUFFICES ASSUME Init, NEW m \in Mails
             PROVE delivered[m] + Cardinality(Holders(m)) + Free(m) <= 1 + mails[m].attempts + lapses[m]
  BY DEF Account
<1>1. Holders(m) = {} BY DEF Holders, Has, Init, Idle
<1>2. Cardinality(Holders(m)) = 0 BY <1>1, FS_EmptySet
<1> QED BY <1>2 DEF Init, Free

LEMMA AccountNext ==
  ASSUME StateInv, StateInv', Account, [Next]_vars
  PROVE  Account'
<1> SUFFICES ASSUME NEW m \in Mails
             PROVE  delivered'[m] + Cardinality(Holders(m)') + Free(m)' <=
                       1 + mails'[m].attempts + lapses'[m]
  BY DEF Account
<1> DEFINE h == Cardinality(Holders(m))
           k == Cardinality(Holders(m)')
<1>1. delivered[m] + h + Free(m) <= 1 + mails[m].attempts + lapses[m] BY DEF Account
<1>2. /\ h \in Nat /\ delivered[m] \in Nat /\ mails[m].attempts \in Nat /\ lapses[m] \in Nat
      /\ Free(m) \in {0, 1}
  BY HoldersCount, OutboxAssumption DEF StateInv, TypeOK, Row, Free
<1>3. /\ k \in Nat /\ delivered'[m] \in Nat /\ mails'[m].attempts \in Nat /\ lapses'[m] \in Nat
      /\ Free(m)' \in {0, 1}
  BY HoldersCount, OutboxAssumption DEF StateInv, TypeOK, Row, Free
<1> SUFFICES delivered'[m] + k + Free(m)' + mails[m].attempts + lapses[m] <=
               delivered[m] + h + Free(m) + mails'[m].attempts + lapses'[m]
  <2> HIDE DEF h, k
  <2> QED BY <1>1, <1>2, <1>3, AccountKept DEF h, k
<1>4. ASSUME UNCHANGED workers PROVE k = h BY <1>4 DEF Holders, Has
<1>5. ASSUME NEW n \in Mails, Enqueue(n) \/ BackoffEnds(n) PROVE
             delivered'[m] + k + Free(m)' + mails[m].attempts + lapses[m] <=
               delivered[m] + h + Free(m) + mails'[m].attempts + lapses'[m]
  <2>1. /\ UNCHANGED <<workers, delivered, lapses>> /\ mails'[m].attempts = mails[m].attempts
        /\ mails'[m].owner = mails[m].owner /\ mails'[m].lapsed = mails[m].lapsed
        /\ mails'[m].state # mails[m].state => mails[m].state = "absent" /\ mails'[m].state = "pending"
    BY <1>5, EnqueueRows, BackoffRows
  <2>2. Free(m)' = Free(m) BY <2>1 DEF Free
  <2>3. k = h BY <1>4, <2>1
  <2> HIDE DEF h, k
  <2> QED BY <1>2, <2>1, <2>2, <2>3
<1>6. ASSUME NEW n \in Mails, LeaseLapses(n) PROVE
             delivered'[m] + k + Free(m)' + mails[m].attempts + lapses[m] <=
               delivered[m] + h + Free(m) + mails'[m].attempts + lapses'[m]
  <2>1. /\ UNCHANGED <<workers, delivered>> /\ mails'[m].attempts = mails[m].attempts
        /\ lapses' = [lapses EXCEPT ![n] = @ + 1]
        /\ mails'[m].owner = mails[m].owner /\ mails'[m].lapsed = (m = n \/ mails[m].lapsed)
        /\ mails'[m].state = mails[m].state
    BY <1>6, LapseRows
  <2>2. k = h BY <1>4, <2>1
  <2>3. m # n => Free(m)' = Free(m) /\ lapses'[m] = lapses[m] BY <2>1 DEF Free, StateInv, TypeOK, Row
  <2>4. m = n => lapses'[m] = lapses[m] + 1 BY <2>1 DEF StateInv, TypeOK
  <2> HIDE DEF h, k
  <2> QED BY <1>2, <1>3, <2>1, <2>2, <2>3, <2>4
<1>7. ASSUME NEW w \in Workers, Claim(w) PROVE
             delivered'[m] + k + Free(m)' + mails[m].attempts + lapses[m] <=
               delivered[m] + h + Free(m) + mails'[m].attempts + lapses'[m]
  <2>1. PICK batch \in SUBSET Claimed :
           /\ workers[w] = Idle
           /\ workers' = [workers EXCEPT ![w] = [batch |-> batch, row |-> None, outcome |-> None]]
           /\ \A r \in batch : r.mail \in Claims
           /\ \A n \in Claims : \E r \in batch : r.mail = n
    BY <1>7, ClaimedBatch
  <2>2. /\ UNCHANGED <<delivered, lapses>>
        /\ mails'[m].attempts = mails[m].attempts /\ mails'[m].state = mails[m].state
        /\ mails'[m].owner = IF m \in Claims THEN w ELSE mails[m].owner
        /\ m \in Claims => ~ mails'[m].lapsed
        /\ m \notin Claims => mails'[m].lapsed = mails[m].lapsed
    BY <1>7, ClaimedRows
  <2>3. \A v \in Workers : Has(v, m)' <=> IF v = w THEN m \in Claims ELSE Has(v, m)
    BY <2>1 DEF Has, StateInv, TypeOK
  <2>4. ~ Has(w, m) BY <2>1 DEF Has, Idle
  <2>5. CASE m \in Claims
    <3>1. Holders(m)' = Holders(m) \cup {w} /\ w \notin Holders(m)
      BY <2>3, <2>4, <2>5 DEF Holders
    <3>2. k = h + 1 BY <3>1, HoldersCount, FS_AddElement
    <3>3. Free(m) = 1 BY <2>5 DEF Claims, Claimable, Free
    <3>4. Free(m)' = 0 BY <2>2, <2>5, OutboxAssumption DEF Free
    <3> HIDE DEF h, k
    <3> QED BY <1>2, <2>2, <3>2, <3>3, <3>4
  <2>6. CASE m \notin Claims
    <3>1. Holders(m)' = Holders(m) BY <2>3, <2>4, <2>6 DEF Holders
    <3>2. Free(m)' = Free(m) BY <2>2, <2>6 DEF Free
    <3>3. k = h BY <3>1
    <3> HIDE DEF h, k
    <3> QED BY <1>2, <2>2, <3>2, <3>3
  <2> QED BY <2>5, <2>6
<1>8. ASSUME NEW w \in Workers, Send(w) PROVE
             delivered'[m] + k + Free(m)' + mails[m].attempts + lapses[m] <=
               delivered[m] + h + Free(m) + mails'[m].attempts + lapses'[m]
  <2>1. PICK row \in workers[w].batch, outcome \in {"ok", "failed"}, taken \in BOOLEAN :
           /\ workers' = [workers EXCEPT ![w] = [batch |-> workers[w].batch \ {row}, row |-> row,
                                                 outcome |-> outcome]]
           /\ delivered' = [delivered EXCEPT ![row.mail] = @ + (IF taken THEN 1 ELSE 0)]
           /\ UNCHANGED <<mails, lapses>>
    BY <1>8 DEF Send
  <2>2. row.mail \in Mails BY <2>1 DEF StateInv, TypeOK, Claimed
  <2>3. \A v \in Workers : Has(v, m)' <=> IF v = w THEN \E r \in workers[w].batch \ {row} : r.mail = m
                                          ELSE Has(v, m)
    BY <2>1 DEF Has, StateInv, TypeOK
  <2>4. Free(m)' = Free(m) BY <2>1 DEF Free
  <2>5. CASE row.mail = m
    <3>1. Has(w, m) BY <2>5 DEF Has
    <3>2. ~ Has(w, m)' BY <2>3, <2>5 DEF StateInv, LeaseKeepsRow
    <3>3. Holders(m)' = Holders(m) \ {w} /\ w \in Holders(m) BY <2>3, <3>1, <3>2 DEF Holders
    <3>4. k = h - 1 BY <3>3, HoldersCount, FS_RemoveElement
    <3>5. delivered'[m] <= delivered[m] + 1 BY <1>2, <2>1, <2>2, <2>5 DEF StateInv, TypeOK
    <3> HIDE DEF h, k
    <3> QED BY <1>2, <1>3, <2>1, <2>4, <3>4, <3>5
  <2>6. CASE row.mail # m
    <3>1. Holders(m)' = Holders(m) BY <2>3, <2>6 DEF Holders, Has
    <3>2. k = h BY <3>1
    <3>3. delivered'[m] = delivered[m] BY <2>1, <2>2, <2>6 DEF StateInv, TypeOK
    <3> HIDE DEF h, k
    <3> QED BY <1>2, <2>1, <2>4, <3>2, <3>3
  <2> QED BY <2>5, <2>6
<1>9. ASSUME NEW w \in Workers, Finalize(w) PROVE
             delivered'[m] + k + Free(m)' + mails[m].attempts + lapses[m] <=
               delivered[m] + h + Free(m) + mails'[m].attempts + lapses'[m]
  <2> DEFINE n == workers[w].row.mail
  <2>1. /\ n \in Mails /\ UNCHANGED <<delivered, lapses>>
        /\ workers' = [workers EXCEPT ![w] = [batch |-> workers[w].batch, row |-> None,
                                              outcome |-> None]]
        /\ mails[n].owner # w => mails' = mails
        /\ mails[n].owner = w => /\ Decided(mails[n], mails[n].attempts + 1, mails'[n])
                                 /\ mails' = [mails EXCEPT ![n] = mails'[n]]
    BY <1>9, FinalizedRows
  <2>2. \A v \in Workers : workers'[v].batch = workers[v].batch
    BY <2>1 DEF StateInv, TypeOK
  <2>3. Holders(m)' = Holders(m) BY <2>2 DEF Holders, Has
  <2>4. k = h BY <2>3
  <2> HIDE DEF n, h, k
  <2>5. mails'[m] = mails[m] \/ Decided(mails[m], mails[m].attempts + 1, mails'[m])
    <3>1. CASE m = n BY <2>1, <3>1
    <3>2. CASE m # n BY <2>1, <3>2 DEF StateInv, TypeOK
    <3> QED BY <3>1, <3>2
  <2>6. CASE mails'[m] = mails[m]
    <3>1. Free(m)' = Free(m) BY <2>6 DEF Free
    <3> QED BY <1>2, <2>1, <2>4, <2>6, <3>1
  <2>7. CASE Decided(mails[m], mails[m].attempts + 1, mails'[m])
    <3>1. CASE mails'[m].state = "sent"
      <4>1. Free(m)' = 0 BY <2>7, <3>1 DEF Decided, Free
      <4>2. mails'[m].attempts >= mails[m].attempts BY <2>7 DEF Decided
      <4> QED BY <1>2, <1>3, <2>1, <2>4, <4>1, <4>2
    <3>2. CASE mails'[m].state # "sent"
      <4>1. mails'[m].attempts = mails[m].attempts + 1 BY <2>7, <3>2 DEF Decided
      <4> QED BY <1>2, <1>3, <2>1, <2>4, <4>1
    <3> QED BY <3>1, <3>2
  <2> QED BY <2>5, <2>6, <2>7
<1>10. ASSUME NEW w \in Workers, Abandon(w) PROVE
             delivered'[m] + k + Free(m)' + mails[m].attempts + lapses[m] <=
               delivered[m] + h + Free(m) + mails'[m].attempts + lapses'[m]
  <2>1. workers' = [workers EXCEPT ![w] = Idle] /\ UNCHANGED <<mails, delivered, lapses>>
    BY <1>10 DEF Abandon
  <2>2. Holders(m)' \subseteq Holders(m) BY <2>1 DEF Holders, Has, Idle, StateInv, TypeOK
  <2>3. k <= h BY <2>2, HoldersCount, FS_Subset
  <2>4. Free(m)' = Free(m) BY <2>1 DEF Free
  <2> HIDE DEF h, k
  <2> QED BY <1>2, <1>3, <2>1, <2>3, <2>4
<1>11. CASE UNCHANGED vars
  <2>1. Free(m)' = Free(m) BY <1>11 DEF vars, Free
  <2>2. k = h BY <1>4, <1>11 DEF vars
  <2> HIDE DEF h, k
  <2> QED BY <1>2, <1>11, <2>1, <2>2 DEF vars
<1> HIDE DEF h, k
<1> QED BY <1>5, <1>6, <1>7, <1>8, <1>9, <1>10, <1>11 DEF Next

\* A mail goes out again only after a try that was reported as failed or a lease that lapsed,
\* however the batches of however many workers overlap.
THEOREM DuplicatesAreAccounted == Spec => []NoNeedlessDuplicate
<1>1. Init => IInv BY StateInit, AccountInit DEF IInv
<1>2. IInv /\ [Next]_vars => IInv' BY StateNext, AccountNext DEF IInv
<1>3. IInv => NoNeedlessDuplicate
  <2> SUFFICES ASSUME IInv, NEW m \in Mails
               PROVE  delivered[m] <= 1 + mails[m].attempts + lapses[m]
    BY DEF NoNeedlessDuplicate
  <2> DEFINE h == Cardinality(Holders(m))
  <2>1. h \in Nat BY HoldersCount
  <2>2. delivered[m] + h + Free(m) <= 1 + mails[m].attempts + lapses[m] BY DEF IInv, Account
  <2>3. /\ delivered[m] \in Nat /\ mails[m].attempts \in Nat /\ lapses[m] \in Nat
        /\ Free(m) \in {0, 1}
    BY OutboxAssumption DEF IInv, StateInv, TypeOK, Row, Free
  <2> HIDE DEF h
  <2> QED BY <2>1, <2>2, <2>3
<1> QED BY <1>1, <1>2, <1>3, PTL DEF Spec

================================================================================
