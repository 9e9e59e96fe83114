--------------------------- MODULE AgentRoundProofs ---------------------------
(***************************************************************************)
(* Proofs about one round as its agent lives it.  Of the stdout stream the *)
(* proofs see only Stream, what was written and not yet taken as a line: a *)
(* step of the reader cuts a number of units off its front, a step of the  *)
(* agent appends whole lines, and no other step changes it.  A line of the *)
(* agent that fits the limit stays whole until the reader takes it, so the *)
(* answer and the end of the round reach the round in the order in which   *)
(* they were written.                                                      *)
(***************************************************************************)
EXTENDS AgentRound, TLAPS, WellFoundedInduction, SequenceTheorems

--------------------------------------------------------------------------------
(* The invariant *)

\* The books: the task and its round agree; before its round there is nothing, and an
\* attempt that executes was claimed.
Books ==
    /\ round.state = "running" <=> status = "running"
    /\ round.state = "pending" <=> status = "queued"
    /\ status \in {"none", "uploading"} => round.state = "none" /\ att = Idle /\ ~ notified
    /\ status # "none" => snap # 0
    /\ round.state = "none" => round.epoch = 0 /\ used = {} /\ cache = 0 /\ grant = 0
    /\ round.state = "running" => round.epoch > 0
    /\ round.state = "pending" => round.epoch < MaxAttempts
    /\ round.state = "settled" => att.stage \in {"idle", "releasing"}
    /\ att.epoch <= round.epoch
    /\ att.stage # "idle" => att.epoch > 0
    /\ notified /\ round.mine => att.epoch < round.epoch
    /\ \A c \in Callers : rotating[c] < MaxVersion

\* What is mounted was granted; when the linkage of a switched-off server has ended, no
\* attempt that has it can still be the one of a round.
Mounted ==
    /\ att.exposes => mount
    /\ server # "on" /\ link = "none" => ~ (att.exposes /\ status \in Live)

Serving == att.stage \in {"prompting", "pumping", "settling"}
Before == {"idle", "assembling", "launching"}

\* The reader belongs to an attempt with a container of its own.
Reads == Serving \/ rd.stage # "ended"
ReaderSound == Reads => att.stage \notin Before /\ box.epoch = att.epoch

\* What is dropped is a line over the limit, and over the Docker API a part of it only.
DropSound ==
    /\ transport = "api" => rd.stage # "drain"
    /\ rd.stage = "drop" => Len(buf) > Limit /\ \A j \in 1 .. Limit : ~ buf[j].last

\* What was written and not yet taken as a line.
Stream == buf \o pipe

\* Over the Docker API, until a line is cut in two, lines begin where they begin.
Begins(s) ==
    /\ Len(s) > 0 => s[1].first
    /\ \A k \in 2 .. Len(s) : s[k - 1].last => s[k].first
Unbroken == transport = "api" /\ ~ torn.cut => ~ torn.fatal /\ Begins(Stream)

\* Units i to j of s are a line of kind k within the limit, of which nothing is missing.
Whole(s, k, i, j) ==
    /\ 1 <= i /\ i <= j /\ j <= Len(s) /\ j < i + Limit
    /\ s[i].first /\ s[i].kind = k
    /\ s[j].last /\ \A h \in i .. j - 1 : ~ s[h].last
    /\ i = 1 \/ s[i - 1].last

InQueue == \E h \in DOMAIN queue : queue[h] = "settled"
Ending == InQueue \/ (rd.stage = "put" /\ rd.kind = "settled") \/ att.stage = "settling"

IsAnswer(u) == u.first /\ u.kind = "answer"
Persisting == rd.stage = "persist" /\ rd.kind = "answer"

\* The end of the round, and the answer, are under way.
Coming == Ending \/ \E h \in DOMAIN Stream : Stream[h].kind = "settled"
Answering == Persisting \/ \E h \in DOMAIN Stream : IsAnswer(Stream[h])

\* Lines come complete, from an agent that has got so far.
Said ==
    /\ Len(Stream) > 0 => Stream[Len(Stream)].last
    /\ rd.stage = "persist" => rd.kind # "settled"
    /\ Coming => agent.pc = "settled"
    /\ Answering => agent.pc \in {"answered", "settled"}
    /\ round.state = "settled" => agent.pc = "settled"
    /\ agent.answer = "whole" => agent.pc \in {"answered", "settled"}

\* The end of the round is on its way.
EndAhead ==
    transport = "api" /\ Attached /\ agent.pc = "settled" =>
        Ending \/ \E i, j \in DOMAIN Stream : Whole(Stream, "settled", i, j)

\* The answer is stored or will be made up, or the attempt no longer holds the lease; else it
\* is on its way, ahead of the end of the round, which never comes if the reader has ended.
AnswerSafe == answers[att.epoch] > 0 \/ att.pending \/ ~ Fenced
Ahead ==
    /\ ~ Ending
    /\ \/ rd.stage = "ended" \/ Persisting
       \/ \E i, j \in DOMAIN Stream :
             /\ Whole(Stream, "answer", i, j)
             /\ \A h \in DOMAIN Stream : Stream[h].kind = "settled" => i < h
AnswerAhead ==
    transport = "api" /\ Serving /\ agent.answer = "whole" /\ ~ AnswerSafe => Ahead

\* An attempt has one answer, which is stored once, and once again if settle makes it up.
Unanswered == answers[att.epoch] = 0 /\ ~ att.pending
Once ==
    /\ \A e \in Attempts : e > round.epoch => answers[e] = 0
    /\ notified /\ round.mine => answers[round.epoch] = 0
    /\ att.stage \in {"assembling", "launching"} => Unanswered
    /\ Reads /\ agent.pc \in {"prompted", "working"} => Unanswered
    /\ Fenced /\ att.stage # "idle" => answers[att.epoch] <= 1
    /\ Answering => att.stage \notin Before /\ Unanswered
    /\ Persisting => \A h \in DOMAIN Stream : ~ IsAnswer(Stream[h])
    /\ \A g, h \in DOMAIN Stream : IsAnswer(Stream[g]) /\ IsAnswer(Stream[h]) => g = h

\* The inductive invariant.  AnswerKept needs the answer ahead of the end of the round, that
\* needs what the stream may still hold (Said) and that a fence is not regained (Books).
IInv ==
    /\ TypeOK /\ Books /\ Mounted /\ ReaderSound /\ DropSound /\ Unbroken
    /\ Said /\ EndAhead /\ AnswerAhead /\ Once /\ AnswerKept

\* A key that was lent is none older than that of the task, and none newer than the row.
Lent(k) == k # 0 => snap <= k /\ k <= provider.version

\* As long as no rotation has written over another, versions only grow, and a task that is
\* ready has the key of the row.
Versions ==
    ~ overwritten =>
        /\ snap <= provider.version
        /\ Lent(cache) /\ Lent(grant) /\ \A k \in used : Lent(k)
        /\ status = "ready" => snap = provider.version

LEMMA LeastOf ==
  ASSUME NEW S, S \subseteq Nat, S # {}
  PROVE  \E m \in S : \A n \in S : m <= n
<1>1. PICK R : R = {p \in Nat \X Nat : p[1] < p[2]} OBVIOUS
<1>2. IsWellFoundedOn(R, Nat) BY <1>1, NatLessThanWellFounded DEF OpToRel
<1>3. PICK m \in S : \A n \in S : ~ <<n, m>> \in R BY <1>2, WFMin, Zenon
<1>4. ASSUME NEW n \in S PROVE m <= n
  <2>1. <<n, m>> \in Nat \X Nat /\ ~ <<n, m>> \in R BY <1>3
  <2>2. ~ n < m BY <2>1, <1>1
  <2> QED BY <2>2
<1> QED BY <1>4

LEMMA LineEndIs ==
  ASSUME buf \in Seq(Units), HasLine
  PROVE  /\ LineEnd \in 1 .. Len(buf) /\ buf[LineEnd].last
         /\ \A j \in 1 .. LineEnd - 1 : ~ buf[j].last
<1>1. PICK T : T = {k \in DOMAIN buf : buf[k].last} OBVIOUS
<1>2. T \subseteq Nat /\ T # {} BY <1>1 DEF HasLine
<1>3. PICK m \in T : \A n \in T : m <= n BY <1>2, LeastOf
<1>4. m \in DOMAIN buf /\ buf[m].last /\ \A j \in 1 .. m - 1 : ~ buf[j].last BY <1>1, <1>3
<1> QED BY <1>4 DEF LineEnd

--------------------------------------------------------------------------------
(* Types *)

GrantMove == \/ Create \/ LoseLease \/ ChangeKey \/ WriteKey \/ Switch \/ Return
             \/ LinkScan \/ LinkWrite
ProxyCall == CallWithCached \/ GrantCheck \/ GrantIssue \/ GrantRefused

RoundRow == [state : {"none", "pending", "running", "settled", "failed", "cancelled"},
             epoch : 0 .. MaxAttempts, mine : BOOLEAN]
ContextRow == [stage : Phases, epoch : 0 .. MaxAttempts, exposes : BOOLEAN, pending : BOOLEAN]

LEMMA RoundSet ==
  ASSUME NEW q \in RoundRow,
         NEW s \in {"none", "pending", "running", "settled", "failed", "cancelled"}
  PROVE  LET r == [q EXCEPT !.state = s]
         IN  r \in RoundRow /\ r.state = s /\ r.epoch = q.epoch /\ r.mine = q.mine
BY DEF RoundRow

\* What a grant action does to the books.
Loses == /\ round.epoch' = round.epoch /\ (round.mine' => round.mine)
         /\ (round.state' = "running" => round.state = "running")
         /\ (round.state' = "settled" <=> round.state = "settled")

TaskTyped == /\ status \in Statuses /\ snap \in 0 .. MaxVersion /\ mount \in BOOLEAN
             /\ round \in RoundRow
LentTyped == /\ provider \in [active : BOOLEAN, version : 1 .. MaxVersion]
             /\ rotating \in [Callers -> 0 .. MaxVersion] /\ overwritten \in BOOLEAN
             /\ server \in {"on", "off"} /\ link \in Links

LEMMA GrantParts == GrantTypeOK <=> TaskTyped /\ LentTyped
BY DEF GrantTypeOK, TaskTyped, LentTyped, RoundRow

LEMMA FailUnstartedTyped ==
  ASSUME TaskTyped, FailUnstarted
  PROVE  TaskTyped' /\ Loses
<1>1. PICK q : q = [round EXCEPT !.state = "cancelled"] OBVIOUS
<1>2. q \in RoundRow /\ q.state = "cancelled" /\ q.epoch = round.epoch /\ q.mine = round.mine
  BY <1>1, RoundSet DEF TaskTyped, RoundRow
<1>3. round' = IF status \in Unstarted /\ round.state = "pending" THEN q ELSE round
  BY <1>1 DEF FailUnstarted
<1> QED BY <1>2, <1>3 DEF FailUnstarted, TaskTyped, Loses, Statuses

LEMMA GrantMoveTyped ==
  ASSUME TypeOK, Books, GrantMove
  PROVE  /\ GrantTypeOK' /\ Loses
         /\ UNCHANGED <<pipeVars, procVars, answers, boxVars, proxyVars>>
         /\ disturbances' \in Nat
<1> USE AgentAssumption, GrantAssumption
<1>1. TaskTyped /\ LentTyped /\ disturbances \in Nat
  BY GrantParts DEF TypeOK
<1>2. UNCHANGED <<pipeVars, procVars, answers, boxVars, proxyVars>>
  BY DEF GrantMove, Create, LoseLease, ChangeKey, WriteKey, Switch, Return, LinkScan, LinkWrite,
         NoProcess
<1>3. disturbances' \in Nat
  BY <1>1 DEF GrantMove, Create, LoseLease, ChangeKey, WriteKey, Switch, Return, LinkScan,
              LinkWrite, Disturb
<1>4. TaskTyped' /\ LentTyped' /\ Loses
  <2>1. CASE ReadSources
    BY <2>1, <1>1 DEF ReadSources, grantVars, TaskTyped, LentTyped, Loses, Mountable
  <2>2. CASE InsertTask
    BY <2>2, <1>1 DEF InsertTask, grantVars, TaskTyped, LentTyped, Loses, Statuses
  <2>3. CASE CommitInput
    <3>1. PICK q : q = [round EXCEPT !.state = "pending"] OBVIOUS
    <3>2. q \in RoundRow /\ q.state = "pending" /\ q.epoch = round.epoch /\ q.mine = round.mine
      BY <3>1, <1>1, RoundSet DEF TaskTyped
    <3>3. round' = q BY <2>3, <3>1 DEF CommitInput
    <3>4. round.state = "none" BY <2>3 DEF CommitInput, Books
    <3> QED BY <2>3, <1>1, <3>2, <3>3, <3>4 DEF CommitInput, grantVars, TaskTyped, LentTyped,
            Loses, Statuses
  <2>4. CASE Expire
    <3>1. PICK s \in {"failed", "pending"} : /\ round' = [round EXCEPT !.state = s, !.mine = FALSE]
                                             /\ status' \in Statuses
      BY <2>4 DEF Expire, Statuses
    <3>2. PICK q : q = [round EXCEPT !.state = s, !.mine = FALSE] OBVIOUS
    <3>3. q \in RoundRow /\ q.state = s /\ q.epoch = round.epoch /\ q.mine = FALSE
      BY <3>2, <1>1 DEF TaskTyped, RoundRow
    <3>4. round' = q BY <3>1, <3>2
    <3> QED BY <2>4, <1>1, <3>1, <3>3, <3>4 DEF Expire, grantVars, TaskTyped, LentTyped, Loses
  <2>5. CASE \E c \in Callers : ReadForRotation(c)
    BY <2>5, <1>1 DEF ReadForRotation, taskVars, TaskTyped, LentTyped, Loses
  <2>6. CASE \E c \in Callers : Rotate(c)
    <3>1. PICK c \in Callers : Rotate(c) BY <2>6
    <3>2. rotating[c] + 1 \in 1 .. MaxVersion BY <1>1 DEF LentTyped, Books
    <3>3. LentTyped' BY <3>1, <3>2, <1>1 DEF Rotate, LentTyped
    <3> QED BY <3>1, <3>3, <1>1, FailUnstartedTyped DEF Rotate
  <2>7. CASE Revoke
    <3>1. LentTyped' BY <2>7, <1>1 DEF Revoke, LentTyped
    <3> QED BY <2>7, <3>1, <1>1, FailUnstartedTyped DEF Revoke
  <2>8. CASE SwitchOff \/ SwitchOn \/ Scan(Executing) \/ LinkFails
    BY <2>8, <1>1 DEF SwitchOff, SwitchOn, Scan, LinkFails, taskVars, TaskTyped, LentTyped, Loses,
       Links
  <2>9. CASE WriteEnd
    <3>1. PICK q : q = [round EXCEPT !.state = "cancelled"] OBVIOUS
    <3>2. q \in RoundRow /\ q.state = "cancelled" /\ q.epoch = round.epoch /\ q.mine = round.mine
      BY <3>1, <1>1, RoundSet DEF TaskTyped
    <3>3. round' = IF status \in Live THEN q ELSE round BY <2>9, <3>1 DEF WriteEnd
    <3>4. status \in Live => round.state # "settled" BY DEF Live, Books
    <3> QED BY <2>9, <1>1, <3>2, <3>3, <3>4 DEF WriteEnd, TaskTyped, LentTyped, Loses, Statuses,
            Links
  <2> QED BY <2>1, <2>2, <2>3, <2>4, <2>5, <2>6, <2>7, <2>8, <2>9
          DEF GrantMove, Create, LoseLease, ChangeKey, WriteKey, Switch, Return, LinkScan, LinkWrite
<1>5. GrantTypeOK' BY <1>4 DEF GrantTypeOK, TaskTyped, LentTyped, RoundRow
<1> QED BY <1>2, <1>3, <1>4, <1>5

--------------------------------------------------------------------------------
(* Sequences of units *)

\* t is s without its first m units.
Shorten(s, t, m) == /\ m \in Nat /\ m <= Len(s) /\ Len(t) = Len(s) - m
                    /\ \A h \in 1 .. Len(t) : t[h] = s[h + m]

LEMMA Joined ==
  ASSUME NEW b \in Seq(Units), NEW p \in Seq(Units), NEW s, s = b \o p
  PROVE  /\ s \in Seq(Units) /\ Len(b) \in Nat /\ Len(p) \in Nat /\ Len(s) = Len(b) + Len(p)
         /\ \A h \in 1 .. Len(b) : s[h] = b[h]
         /\ \A h \in 1 .. Len(p) : s[Len(b) + h] = p[h]
OBVIOUS

LEMMA JoinedCut ==
  ASSUME NEW b \in Seq(Units), NEW p \in Seq(Units), NEW c \in Seq(Units), NEW m \in Nat,
         NEW s, s = b \o p, NEW t, t = c \o p
  PROVE  /\ m <= Len(b) /\ Len(c) = Len(b) - m /\ \A h \in 1 .. Len(c) : c[h] = b[h + m]
         => Shorten(s, t, m)
<1>1. /\ Len(b) \in Nat /\ Len(p) \in Nat /\ Len(s) = Len(b) + Len(p)
      /\ \A h \in 1 .. Len(b) : s[h] = b[h]
      /\ \A h \in 1 .. Len(p) : s[Len(b) + h] = p[h]
  BY Joined
<1>2. /\ Len(c) \in Nat /\ Len(t) = Len(c) + Len(p) /\ \A h \in 1 .. Len(c) : t[h] = c[h]
      /\ \A h \in 1 .. Len(p) : t[Len(c) + h] = p[h]
  BY Joined
<1> HAVE /\ m <= Len(b) /\ Len(c) = Len(b) - m
         /\ \A h \in 1 .. Len(c) : c[h] = b[h + m]
<1>3. ASSUME NEW h \in 1 .. Len(t) PROVE t[h] = s[h + m]
  <2>1. CASE h <= Len(c)
    <3>1. h \in 1 .. Len(c) /\ h + m \in 1 .. Len(b) BY <2>1, <1>1, <1>2
    <3> QED BY <3>1, <1>1, <1>2
  <2>2. CASE ~ h <= Len(c)
    <3>1. PICK v : v = h - Len(c) OBVIOUS
    <3>2. v \in 1 .. Len(p) /\ h + m = Len(b) + v /\ h = Len(c) + v
      BY <3>1, <2>2, <1>1, <1>2
    <3> QED BY <3>2, <1>1, <1>2
  <2> QED BY <2>1, <2>2
<1>4. m <= Len(s) /\ Len(t) = Len(s) - m BY <1>1, <1>2
<1> QED BY <1>3, <1>4 DEF Shorten

LEMMA JoinedMove ==
  ASSUME NEW b \in Seq(Units), NEW p \in Seq(Units), NEW c \in Seq(Units), NEW q \in Seq(Units),
         NEW n \in Nat, NEW s, s = b \o p, NEW t, t = c \o q
  PROVE  /\ n <= Len(p) /\ Len(c) = Len(b) + n /\ Len(q) = Len(p) - n
         /\ \A h \in 1 .. Len(b) : c[h] = b[h]
         /\ \A h \in 1 .. n : c[Len(b) + h] = p[h]
         /\ \A h \in 1 .. Len(q) : q[h] = p[h + n]
         => Shorten(s, t, 0)
<1>1. /\ Len(b) \in Nat /\ Len(p) \in Nat /\ Len(s) = Len(b) + Len(p)
      /\ \A h \in 1 .. Len(b) : s[h] = b[h]
      /\ \A h \in 1 .. Len(p) : s[Len(b) + h] = p[h]
  BY Joined
<1>2. /\ Len(c) \in Nat /\ Len(q) \in Nat /\ Len(t) = Len(c) + Len(q)
      /\ \A h \in 1 .. Len(c) : t[h] = c[h]
      /\ \A h \in 1 .. Len(q) : t[Len(c) + h] = q[h]
  BY Joined
<1> HAVE /\ n <= Len(p) /\ Len(c) = Len(b) + n /\ Len(q) = Len(p) - n
         /\ \A h \in 1 .. Len(b) : c[h] = b[h]
         /\ \A h \in 1 .. n : c[Len(b) + h] = p[h]
         /\ \A h \in 1 .. Len(q) : q[h] = p[h + n]
<1>3. ASSUME NEW h \in 1 .. Len(t) PROVE t[h] = s[h]
  <2>1. CASE h <= Len(b)
    <3>1. h \in 1 .. Len(b) /\ h \in 1 .. Len(c) BY <2>1, <1>1, <1>2
    <3> QED BY <3>1, <1>1, <1>2
  <2>2. CASE ~ h <= Len(b) /\ h <= Len(c)
    <3>1. PICK v : v = h - Len(b) OBVIOUS
    <3>2. v \in 1 .. n /\ v \in 1 .. Len(p) /\ h = Len(b) + v /\ h \in 1 .. Len(c)
      BY <3>1, <2>2, <1>1, <1>2
    <3>3. t[h] = c[h] BY <3>2, <1>2
    <3>4. c[h] = p[v] /\ s[h] = p[v] BY <3>2, <1>1
    <3> QED BY <3>3, <3>4
  <2>3. CASE ~ h <= Len(c)
    <3>1. PICK v : v = h - Len(c) OBVIOUS
    <3>2. v \in 1 .. Len(q) /\ h = Len(c) + v BY <3>1, <2>3, <1>2
    <3>3. v + n \in 1 .. Len(p) /\ h = Len(b) + (v + n) BY <3>2, <1>1, <1>2
    <3>4. t[h] = q[v] /\ q[v] = p[v + n] BY <3>2, <1>2
    <3> QED BY <3>3, <3>4, <1>1
  <2> QED BY <2>1, <2>2, <2>3
<1>4. 0 <= Len(s) /\ Len(t) = Len(s) - 0 BY <1>1, <1>2
<1>5. ASSUME NEW h \in 1 .. Len(t) PROVE t[h] = s[h + 0]
  <2>1. h + 0 = h BY <1>2
  <2> QED BY <1>3, <2>1, Zenon
<1> QED BY <1>4, <1>5 DEF Shorten

LEMMA Cutting ==
  ASSUME NEW b \in Seq(Units), NEW m \in 0 .. Len(b), NEW c, c = SubSeq(b, m + 1, Len(b))
  PROVE  c \in Seq(Units) /\ Len(c) = Len(b) - m /\ \A h \in 1 .. Len(c) : c[h] = b[h + m]
OBVIOUS

LEMMA Moving ==
  ASSUME NEW b \in Seq(Units), NEW p \in Seq(Units), NEW n \in 1 .. Len(p),
         NEW c, c = b \o SubSeq(p, 1, n)
  PROVE  /\ c \in Seq(Units) /\ Len(c) = Len(b) + n /\ \A h \in 1 .. Len(b) : c[h] = b[h]
         /\ \A h \in 1 .. n : c[Len(b) + h] = p[h]
<1>1. PICK x : x = SubSeq(p, 1, n) OBVIOUS
<1>2. x \in Seq(Units) /\ Len(x) = n /\ \A h \in 1 .. n : x[h] = p[h] BY <1>1
<1> QED BY <1>1, <1>2, Joined

LEMMA ShiftedInside ==
  ASSUME NEW i \in Int, NEW j \in Int, NEW m \in Int, NEW n \in Int, NEW h \in Int,
         1 <= i - m, j - m <= n, i - m <= h, h <= j - m - 1
  PROVE  h \in 1 .. n /\ h + m \in i .. j - 1
OBVIOUS

LEMMA ShiftedBefore ==
  ASSUME NEW i \in Int, NEW m \in Nat, NEW n \in Int, i - m > 1, i - m <= n
  PROVE  i - m - 1 \in 1 .. n /\ (i - m - 1) + m = i - 1 /\ i # 1
OBVIOUS

\* A whole line stays one when units before it go.
LEMMA WholeMoves ==
  ASSUME NEW s \in Seq(Units), NEW t \in Seq(Units), NEW m, Shorten(s, t, m), NEW k,
         NEW i \in DOMAIN s, NEW j \in DOMAIN s, Whole(s, k, i, j), m < i
  PROVE  i - m \in DOMAIN t /\ j - m \in DOMAIN t /\ Whole(t, k, i - m, j - m)
<1> USE PipeAssumption
<1>1. /\ m \in Nat /\ m <= Len(s) /\ Len(t) = Len(s) - m /\ \A h \in 1 .. Len(t) : t[h] = s[h + m]
  BY DEF Shorten
<1>2. i \in 1 .. Len(s) /\ j \in 1 .. Len(s) /\ Len(s) \in Nat /\ DOMAIN t = 1 .. Len(t) OBVIOUS
<1>3. i - m \in 1 .. Len(t) /\ j - m \in 1 .. Len(t) BY <1>1, <1>2 DEF Whole
<1>4. t[i - m] = s[i] /\ t[j - m] = s[j] BY <1>1, <1>2, <1>3
<1>5. ASSUME NEW h \in i - m .. j - m - 1 PROVE ~ t[h].last
  <2>1. h \in Int /\ i - m <= h /\ h <= j - m - 1 BY <1>1, <1>2
  <2>2. /\ i \in Int /\ j \in Int /\ m \in Int /\ Len(t) \in Int
        /\ 1 <= i - m /\ j - m <= Len(t)
    BY <1>1, <1>2, <1>3
  <2>3. h \in 1 .. Len(t) /\ h + m \in i .. j - 1 BY <2>1, <2>2, ShiftedInside
  <2> QED BY <2>3, <1>1 DEF Whole
<1>6. i - m = 1 \/ t[i - m - 1].last
  <2>1. CASE i - m > 1
    <3>1. i \in Int /\ m \in Nat /\ Len(t) \in Int /\ i - m <= Len(t) BY <1>1, <1>2, <1>3
    <3>2. i - m - 1 \in 1 .. Len(t) /\ (i - m - 1) + m = i - 1 /\ i # 1
      BY <2>1, <3>1, ShiftedBefore
    <3> QED BY <3>2, <1>1 DEF Whole
  <2> QED BY <2>1, <1>1, <1>2
<1> QED BY <1>1, <1>2, <1>3, <1>4, <1>5, <1>6 DEF Whole

\* The first line of s ends at e: a whole line begins after it, or is it.
LEMMA FirstLine ==
  ASSUME NEW s \in Seq(Units), NEW e \in 1 .. Len(s), s[e].last, \A h \in 1 .. e - 1 : ~ s[h].last,
         NEW k, NEW i \in DOMAIN s, NEW j \in DOMAIN s, Whole(s, k, i, j), i <= e
  PROVE  i = 1 /\ j = e /\ e <= Limit
<1> USE PipeAssumption
<1>1. i \in 1 .. Len(s) /\ j \in 1 .. Len(s) /\ Len(s) \in Nat OBVIOUS
<1>2. i = 1
  <2>1. CASE i > 1
    <3>1. i - 1 \in 1 .. e - 1 /\ s[i - 1].last BY <2>1, <1>1 DEF Whole
    <3> QED BY <3>1
  <2> QED BY <2>1, <1>1
<1>3. ~ (j < e)
  <2>1. j < e => j \in 1 .. e - 1 BY <1>1
  <2> QED BY <2>1 DEF Whole
<1>4. ~ (e < j)
  <2>1. e < j => e \in i .. j - 1 BY <1>1
  <2> QED BY <2>1 DEF Whole
<1> QED BY <1>1, <1>2, <1>3, <1>4 DEF Whole

\* More units than a line may have, and none the last of one: no whole line begins there.
LEMMA NoLine ==
  ASSUME NEW s \in Seq(Units), NEW m \in 1 .. Len(s), m > Limit, \A h \in 1 .. m : ~ s[h].last,
         NEW k, NEW i \in DOMAIN s, NEW j \in DOMAIN s, Whole(s, k, i, j)
  PROVE  m < i
<1> USE PipeAssumption
<1>1. i \in 1 .. Len(s) /\ j \in 1 .. Len(s) /\ Len(s) \in Nat OBVIOUS
<1>2. SUFFICES ASSUME i <= m PROVE FALSE BY <1>1
<1>3. i = 1
  <2>1. CASE i > 1
    <3>1. i - 1 \in 1 .. m /\ s[i - 1].last BY <2>1, <1>1, <1>2 DEF Whole
    <3> QED BY <3>1
  <2> QED BY <2>1, <1>1
<1>4. j \in 1 .. m BY <1>1, <1>3 DEF Whole
<1> QED BY <1>4 DEF Whole

--------------------------------------------------------------------------------
(* What the reader does to the stream *)

Keeps(m, k) ==
    \A i, j \in DOMAIN Stream : Whole(Stream, k, i, j) =>
        /\ m < i /\ i - m \in DOMAIN Stream' /\ j - m \in DOMAIN Stream'
        /\ Whole(Stream', k, i - m, j - m)

\* Nothing is taken: lines that go are no whole answer or end of the round.
Passes(m) ==
    /\ rd.stage \notin {"persist", "put", "ended"} /\ rd'.stage \notin {"persist", "put", "ended"}
    /\ queue' = queue \/ queue' = Append(queue, "delta")
    /\ transport = "api" => Keeps(m, "answer") /\ Keeps(m, "settled")

\* A fact is taken.
Takes(m) ==
    /\ m > 0 /\ m <= Len(Stream) /\ rd.stage = "line" /\ queue' = queue
    /\ LET u == Stream[1]
       IN  /\ u.first
           /\ \/ u.kind \in {"tool", "answer"} /\ rd' = With("persist", u.kind)
              \/ u.kind = "settled" /\ rd' = With("put", "settled")
           /\ \A k \in {"answer", "settled"} \ {u.kind} : Keeps(m, k)

\* A fact is handed over.
Hands(m) ==
    /\ m = 0 /\ rd.stage = "put" /\ rd' = At("line") /\ queue' = Append(queue, rd.kind)
    /\ Keeps(0, "answer") /\ Keeps(0, "settled")

Onward == \E m \in Nat : /\ Shorten(Stream, Stream', m)
                         /\ Passes(m) \/ Takes(m) \/ Hands(m)

LEMMA StreamTyped ==
  ASSUME PipeTypeOK
  PROVE  /\ Stream \in Seq(Units) /\ Len(Stream) = Len(buf) + Len(pipe)
         /\ Len(buf) \in Nat /\ Len(pipe) \in Nat
         /\ \A h \in 1 .. Len(buf) : Stream[h] = buf[h]
BY Joined DEF PipeTypeOK, Stream

LEMMA CutStream ==
  ASSUME PipeTypeOK, NEW m \in 0 .. Len(buf), buf' = SubSeq(buf, m + 1, Len(buf)), pipe' = pipe
  PROVE  /\ buf' \in Seq(Units) /\ Len(buf') = Len(buf) - m
         /\ Stream' \in Seq(Units) /\ Shorten(Stream, Stream', m)
<1>1. PICK c : c = buf' OBVIOUS
<1>2. /\ c \in Seq(Units) /\ Len(c) = Len(buf) - m /\ \A h \in 1 .. Len(c) : c[h] = buf[h + m]
      /\ m <= Len(buf) /\ m \in Nat
  BY <1>1, Cutting DEF PipeTypeOK
<1>3. PICK t : t = c \o pipe OBVIOUS
<1>4. Stream' = t BY <1>1, <1>3 DEF Stream
<1>5. Stream = buf \o pipe /\ buf \in Seq(Units) /\ pipe \in Seq(Units) BY DEF Stream, PipeTypeOK
<1>6. Shorten(Stream, t, m) BY <1>2, <1>3, <1>5, JoinedCut
<1>7. t \in Seq(Units) BY <1>2, <1>3, <1>5, Joined
<1> QED BY <1>1, <1>2, <1>4, <1>6, <1>7

LEMMA LineCut ==
  ASSUME PipeTypeOK, HasLine, buf' = AfterLine, pipe' = pipe
  PROVE  /\ LineEnd \in 1 .. Len(buf) /\ Stream[1] = buf[1]
         /\ buf' \in Seq(Units) /\ Stream' \in Seq(Units) /\ Shorten(Stream, Stream', LineEnd)
         /\ \A k : \A i, j \in DOMAIN Stream :
              Whole(Stream, k, i, j) =>
                 \/ i = 1 /\ LineEnd <= Limit /\ Stream[1].first /\ Stream[1].kind = k
                 \/ /\ LineEnd < i
                    /\ i - LineEnd \in DOMAIN Stream' /\ j - LineEnd \in DOMAIN Stream'
                    /\ Whole(Stream', k, i - LineEnd, j - LineEnd)
<1>1. buf \in Seq(Units) BY DEF PipeTypeOK
<1>2. PICK e \in 1 .. Len(buf) : /\ e = LineEnd /\ buf[e].last
                                 /\ \A h \in 1 .. e - 1 : ~ buf[h].last
  BY <1>1, LineEndIs
<1>3. /\ Stream \in Seq(Units) /\ Len(Stream) = Len(buf) + Len(pipe)
      /\ Len(buf) \in Nat /\ Len(pipe) \in Nat /\ \A h \in 1 .. Len(buf) : Stream[h] = buf[h]
  BY StreamTyped
<1>4. /\ e \in 1 .. Len(Stream) /\ Stream[e].last /\ \A h \in 1 .. e - 1 : ~ Stream[h].last
      /\ Stream[1] = buf[1]
  BY <1>2, <1>3
<1>5. buf' = SubSeq(buf, e + 1, Len(buf)) /\ e \in 0 .. Len(buf) BY <1>2 DEF AfterLine
<1>6. buf' \in Seq(Units) /\ Stream' \in Seq(Units) /\ Shorten(Stream, Stream', e)
  BY <1>5, CutStream
<1>7. ASSUME NEW k, NEW i \in DOMAIN Stream, NEW j \in DOMAIN Stream, Whole(Stream, k, i, j)
      PROVE  \/ i = 1 /\ e <= Limit /\ Stream[1].first /\ Stream[1].kind = k
             \/ /\ e < i /\ i - e \in DOMAIN Stream' /\ j - e \in DOMAIN Stream'
                /\ Whole(Stream', k, i - e, j - e)
  <2>1. CASE i <= e
    <3>1. i = 1 /\ j = e /\ e <= Limit BY ONLY <2>1, <1>3, <1>4, <1>7, FirstLine, Zenon
    <3> QED BY <3>1, <1>7 DEF Whole
  <2>2. CASE e < i BY <2>2, <1>3, <1>6, <1>7, WholeMoves
  <2> QED BY <2>1, <2>2, <1>2, <1>3
<1> QED BY <1>2, <1>4, <1>6, <1>7

LEMMA SameKeeps ==
  ASSUME PipeTypeOK, Stream' \in Seq(Units), Shorten(Stream, Stream', 0), NEW k
  PROVE  Keeps(0, k)
<1>1. Stream \in Seq(Units) BY StreamTyped
<1>2. ASSUME NEW i \in DOMAIN Stream, NEW j \in DOMAIN Stream, Whole(Stream, k, i, j)
      PROVE  0 < i /\ i - 0 \in DOMAIN Stream' /\ j - 0 \in DOMAIN Stream'
             /\ Whole(Stream', k, i - 0, j - 0)
  <2>1. 0 < i BY <1>1
  <2> QED BY <2>1, <1>1, <1>2, WholeMoves
<1> QED BY <1>2 DEF Keeps

LEMMA ReaderTyped ==
  ASSUME NEW st \in Stages, NEW k \in Kinds
  PROVE  /\ At(st) \in Reader /\ At(st).stage = st
         /\ With(st, k) \in Reader /\ With(st, k).stage = st /\ With(st, k).kind = k
BY DEF At, With, Reader, Kinds, Stages

\* The types of the pipe, but for the history.
PipeTyped ==
    /\ transport \in Transports /\ pipe \in Seq(Units) /\ buf \in Seq(Units) /\ rd \in Reader
    /\ queue \in Seq(Kinds) /\ Len(queue) <= QueueMax

ReadTyped == PipeTyped' /\ DropSound' /\ Onward

LEMMA ReceiveReads ==
  ASSUME PipeTypeOK, DropSound, UNCHANGED transport, Receive
  PROVE  ReadTyped
<1> USE PipeAssumption
<1>1. PICK n \in 1 .. Len(pipe) :
         /\ buf' = buf \o SubSeq(pipe, 1, n) /\ pipe' = SubSeq(pipe, n + 1, Len(pipe))
         /\ rd' = IF rd.stage = "drop" THEN [rd EXCEPT !.drained = @ + n] ELSE rd
  BY DEF Receive
<1>2. buf \in Seq(Units) /\ pipe \in Seq(Units) /\ rd \in Reader BY DEF PipeTypeOK
<1>3. PICK c, q : c = buf' /\ q = pipe' OBVIOUS
<1>4. /\ c \in Seq(Units) /\ Len(c) = Len(buf) + n /\ \A h \in 1 .. Len(buf) : c[h] = buf[h]
      /\ \A h \in 1 .. n : c[Len(buf) + h] = pipe[h]
  <2>1. c = buf \o SubSeq(pipe, 1, n) BY <1>1, <1>3
  <2> QED BY <2>1, <1>2, Moving
<1>5. /\ q \in Seq(Units) /\ Len(q) = Len(pipe) - n /\ \A h \in 1 .. Len(q) : q[h] = pipe[h + n]
      /\ n \in Nat /\ n <= Len(pipe)
  <2>1. q = SubSeq(pipe, n + 1, Len(pipe)) BY <1>1, <1>3
  <2>2. n \in 0 .. Len(pipe) OBVIOUS
  <2> QED BY <2>1, <2>2, <1>2, Cutting
<1>6. PICK t : t = c \o q OBVIOUS
<1>7. Stream' = t /\ Stream = buf \o pipe BY <1>3, <1>6 DEF Stream
<1>8. Shorten(Stream, t, 0) BY <1>2, <1>4, <1>5, <1>6, <1>7, JoinedMove
<1>9. Stream' \in Seq(Units) BY <1>4, <1>5, <1>6, <1>7, Joined
<1>10. rd' \in Reader /\ rd'.stage = rd.stage
  <2>1. rd.drained + n \in Nat BY <1>2 DEF Reader
  <2>2. PICK r : r = [rd EXCEPT !.drained = @ + n] OBVIOUS
  <2>3. r \in Reader /\ r.stage = rd.stage BY <2>1, <2>2, <1>2 DEF Reader
  <2> QED BY <2>2, <2>3, <1>1, <1>2
<1>11. queue' = queue BY DEF Receive
<1>12. PipeTyped' BY <1>3, <1>4, <1>5, <1>10, <1>11 DEF PipeTypeOK, PipeTyped
<1>13. DropSound'
  <2>1. SUFFICES ASSUME rd.stage = "drop"
                 PROVE  Len(c) > Limit /\ \A j \in 1 .. Limit : ~ c[j].last
    BY <1>3, <1>10 DEF DropSound
  <2>2. Len(buf) > Limit /\ \A j \in 1 .. Limit : ~ buf[j].last BY <2>1 DEF DropSound
  <2>3. Len(buf) \in Nat /\ Limit \in Nat BY <1>2
  <2>4. \A j \in 1 .. Limit : j \in 1 .. Len(buf) BY <2>2, <2>3
  <2>5. Len(c) > Limit BY <2>2, <2>3, <1>4, <1>5
  <2>6. \A j \in 1 .. Limit : c[j] = buf[j] BY <2>4, <1>4, Zenon
  <2> QED BY <2>2, <2>5, <2>6, Zenon
<1>14. Keeps(0, "answer") /\ Keeps(0, "settled") BY <1>7, <1>8, <1>9, SameKeeps
<1>15. rd.stage \in {"line", "drop", "drain"} BY DEF Receive, Hungry
<1>16. Passes(0) BY <1>10, <1>11, <1>14, <1>15 DEF Passes
<1> QED BY <1>7, <1>8, <1>12, <1>13, <1>16 DEF ReadTyped, Onward

LEMMA DropReads ==
  ASSUME PipeTypeOK, DropSound, UNCHANGED transport, SkipWhole \/ StartDrop \/ EndDrop
  PROVE  ReadTyped
<1> USE PipeAssumption
<1>1. buf \in Seq(Units) /\ pipe \in Seq(Units) /\ rd \in Reader /\ Len(buf) \in Nat
  BY DEF PipeTypeOK
<1>2. CASE SkipWhole
  <2>1. HasLine /\ buf' = AfterLine /\ pipe' = pipe /\ rd' = rd /\ queue' = queue
        /\ rd.stage = "line" /\ LineEnd > Limit
    BY <1>2 DEF SkipWhole
  <2>2. /\ LineEnd \in 1 .. Len(buf)
        /\ buf' \in Seq(Units) /\ Stream' \in Seq(Units) /\ Shorten(Stream, Stream', LineEnd)
    BY <2>1, LineCut
  <2>3. \A k : Keeps(LineEnd, k) BY <2>1, <2>2, LineCut DEF Keeps
  <2>4. Passes(LineEnd) BY <2>1, <2>3 DEF Passes
  <2>5. PipeTyped' /\ DropSound' BY <2>1, <2>2 DEF PipeTypeOK, PipeTyped, DropSound
  <2> QED BY <2>2, <2>4, <2>5 DEF ReadTyped, Onward
<1>3. CASE StartDrop
  <2>1. /\ UNCHANGED <<pipe, buf, queue>> /\ ~ HasLine /\ Len(buf) > Limit /\ rd.stage = "line"
        /\ rd' = [At("drop") EXCEPT !.drained = Len(buf)]
    BY <1>3 DEF StartDrop
  <2>2. rd' \in Reader /\ rd'.stage = "drop" BY <2>1, <1>1 DEF At, Reader, Stages, Kinds
  <2>3. Stream' = Stream BY <2>1 DEF Stream
  <2>4. Stream \in Seq(Units) BY StreamTyped
  <2>5. Shorten(Stream, Stream, 0) BY <2>4 DEF Shorten
  <2>6. Passes(0) BY <2>1, <2>2, <2>3, <2>4, <2>5, SameKeeps DEF Passes
  <2>7. \A j \in 1 .. Limit : ~ buf[j].last
    <3>1. \A j \in 1 .. Limit : j \in DOMAIN buf BY <2>1, <1>1
    <3> QED BY <2>1, <3>1 DEF HasLine
  <2>8. PipeTyped' /\ DropSound' BY <2>1, <2>2, <2>7 DEF PipeTypeOK, PipeTyped, DropSound
  <2> QED BY <2>3, <2>5, <2>6, <2>8 DEF ReadTyped, Onward
<1>4. CASE EndDrop
  <2>1. /\ UNCHANGED <<pipe, queue>> /\ rd.stage = "drop" /\ rd' = At("line")
    BY <1>4 DEF EndDrop
  <2>2. rd' \in Reader /\ rd'.stage = "line" BY <2>1, ReaderTyped DEF Stages, Kinds
  <2>3. Len(buf) > Limit /\ \A j \in 1 .. Limit : ~ buf[j].last BY <2>1 DEF DropSound
  <2>4. ASSUME NEW m \in 0 .. Len(buf), buf' \in Seq(Units), Shorten(Stream, Stream', m),
               Keeps(m, "answer"), Keeps(m, "settled")
        PROVE  ReadTyped
    <3>1. Passes(m) BY <2>1, <2>2, <2>4 DEF Passes
    <3>2. PipeTyped' /\ DropSound' BY <2>1, <2>2, <2>4 DEF PipeTypeOK, PipeTyped, DropSound
    <3> QED BY <3>1, <3>2, <2>4 DEF ReadTyped, Onward
  <2>5. CASE HasLine /\ buf' = AfterLine
    <3>1. /\ LineEnd \in 1 .. Len(buf)
          /\ buf' \in Seq(Units) /\ Stream' \in Seq(Units) /\ Shorten(Stream, Stream', LineEnd)
      BY <2>1, <2>5, LineCut
    <3>2. ~ (LineEnd <= Limit)
      <4>1. buf[LineEnd].last BY <1>1, <2>5, LineEndIs
      <4>2. LineEnd <= Limit => LineEnd \in 1 .. Limit BY <3>1
      <4> QED BY <4>1, <4>2, <2>3
    <3>3. \A k : Keeps(LineEnd, k) BY <2>1, <2>5, <3>2, LineCut DEF Keeps
    <3> QED BY <3>1, <3>3, <2>4
  <2>6. CASE ~ HasLine /\ buf' = <<>>
    <3>1. PICK m : m = Len(buf) OBVIOUS
    <3>2. m \in 0 .. Len(buf) /\ buf' = SubSeq(buf, m + 1, Len(buf)) BY <3>1, <2>6, <1>1
    <3>3. buf' \in Seq(Units) /\ Stream' \in Seq(Units) /\ Shorten(Stream, Stream', m)
      BY <3>2, <2>1, CutStream
    <3>4. /\ Stream \in Seq(Units) /\ Len(Stream) = Len(buf) + Len(pipe) /\ Len(pipe) \in Nat
          /\ \A h \in 1 .. Len(buf) : Stream[h] = buf[h]
      BY StreamTyped
    <3>5. m \in 1 .. Len(Stream) /\ m > Limit /\ \A h \in 1 .. m : ~ Stream[h].last
      <4>1. m \in Nat /\ m >= 1 /\ m <= Len(Stream) BY <3>1, <3>4, <2>3, <1>1
      <4>2. \A h \in 1 .. m : h \in DOMAIN buf BY <3>1, <1>1
      <4>3. \A h \in 1 .. m : ~ buf[h].last BY <4>2, <2>6 DEF HasLine
      <4> QED BY <4>1, <4>3, <3>1, <3>4, <2>3
    <3>6. ASSUME NEW k PROVE Keeps(m, k)
      <4>1. ASSUME NEW i \in DOMAIN Stream, NEW j \in DOMAIN Stream, Whole(Stream, k, i, j)
            PROVE  /\ m < i /\ i - m \in DOMAIN Stream' /\ j - m \in DOMAIN Stream'
                   /\ Whole(Stream', k, i - m, j - m)
        <5>1. m < i BY <4>1, <3>4, <3>5, NoLine
        <5> QED BY <5>1, <4>1, <3>3, <3>4, WholeMoves
      <4> QED BY <4>1 DEF Keeps
    <3> QED BY <3>2, <3>3, <3>6, <2>4
  <2> QED BY <2>5, <2>6, <1>4 DEF EndDrop
<1> QED BY <1>2, <1>3, <1>4

\* Over docker run whole lines may go; the stream shrinks all the same.
LEMMA DrainReads ==
  ASSUME PipeTypeOK, DropSound, UNCHANGED transport, Overrun \/ Drain
  PROVE  ReadTyped
<1> USE PipeAssumption
<1>1. buf \in Seq(Units) /\ pipe \in Seq(Units) /\ rd \in Reader /\ Len(buf) \in Nat
  BY DEF PipeTypeOK
<1>2. /\ UNCHANGED <<pipe, queue>> /\ rd.stage \in {"line", "drain"} /\ transport # "api"
  BY DEF Overrun, Drain, DropSound
<1>3. rd' \in Reader /\ rd'.stage \in {"line", "drain"}
  <2>1. rd' \in {At("drain"), At("line"), rd} BY DEF Overrun, Drain
  <2>2. /\ At("drain") \in Reader /\ At("drain").stage = "drain"
        /\ At("line") \in Reader /\ At("line").stage = "line"
    BY ReaderTyped DEF Stages, Kinds
  <2> QED BY <2>1, <2>2, <1>1, <1>2
<1>4. \E m \in 0 .. Len(buf) : buf' = SubSeq(buf, m + 1, Len(buf))
  <2>1. CASE Overrun
    <3>1. CASE HasLine /\ buf' = AfterLine
      <4>1. LineEnd \in 1 .. Len(buf) BY <1>1, <3>1, LineEndIs
      <4> QED BY <4>1, <3>1 DEF AfterLine
    <3>2. CASE buf' = <<>>
      <4>1. buf' = SubSeq(buf, Len(buf) + 1, Len(buf)) BY <3>2, <1>1
      <4> QED BY <4>1, <1>1
    <3> QED BY <3>1, <3>2, <2>1 DEF Overrun
  <2>2. CASE Drain
    <3>1. PICK n : n = IF Len(buf) < Limit THEN Len(buf) ELSE Limit OBVIOUS
    <3>2. buf' = SubSeq(buf, n + 1, Len(buf)) BY <2>2, <3>1 DEF Drain
    <3>3. n \in 0 .. Len(buf) BY <3>1, <1>1
    <3> QED BY <3>2, <3>3
  <2> QED BY <2>1, <2>2
<1>5. PICK m \in 0 .. Len(buf) : buf' = SubSeq(buf, m + 1, Len(buf)) BY <1>4
<1>6. buf' \in Seq(Units) /\ Shorten(Stream, Stream', m) BY <1>2, <1>5, CutStream
<1>7. Passes(m) BY <1>2, <1>3 DEF Passes
<1>8. PipeTyped' /\ DropSound' BY <1>2, <1>3, <1>6 DEF PipeTypeOK, PipeTyped, DropSound
<1> QED BY <1>6, <1>7, <1>8 DEF ReadTyped, Onward

LEMMA QueueGrows ==
  ASSUME PipeTypeOK, ~ Full, NEW k \in Kinds, NEW q, q = Append(queue, k)
  PROVE  q \in Seq(Kinds) /\ Len(q) <= QueueMax
BY PipeAssumption DEF PipeTypeOK, Full

LEMMA TakeReads ==
  ASSUME PipeTypeOK, DropSound, UNCHANGED transport, TakeLine
  PROVE  ReadTyped
<1> USE PipeAssumption
<1>1. /\ buf \in Seq(Units) /\ rd \in Reader /\ Len(buf) \in Nat /\ Len(pipe) \in Nat
      /\ queue \in Seq(Kinds) /\ Len(queue) <= QueueMax
  BY DEF PipeTypeOK
<1>2. /\ HasLine /\ buf' = AfterLine /\ pipe' = pipe /\ rd.stage = "line" /\ LineEnd <= Limit
  BY DEF TakeLine
<1>3. /\ LineEnd \in 1 .. Len(buf) /\ Stream[1] = buf[1]
      /\ buf' \in Seq(Units) /\ Stream' \in Seq(Units) /\ Shorten(Stream, Stream', LineEnd)
  BY <1>2, LineCut
<1>4. PICK u, m : u = buf[1] /\ m = LineEnd OBVIOUS
<1>5. u \in Units /\ m \in Nat /\ m > 0 /\ m <= Len(Stream)
  BY <1>1, <1>3, <1>4, StreamTyped
<1>6. ASSUME NEW k, ~ (u.first /\ u.kind = k) PROVE Keeps(m, k)
  BY <1>2, <1>3, <1>4, <1>6, LineCut DEF Keeps
<1>7. u.kind \in Kinds BY <1>5 DEF Units
<1>8. CASE Skipped(u) /\ UNCHANGED <<rd, queue>>
  <2>1. Keeps(m, "answer") /\ Keeps(m, "settled") BY <1>6, <1>8 DEF Skipped
  <2>2. Passes(m) BY <2>1, <1>2, <1>8 DEF Passes
  <2>3. PipeTyped' /\ DropSound' BY <1>1, <1>2, <1>3, <1>8 DEF PipeTypeOK, PipeTyped, DropSound
  <2> QED BY <2>2, <2>3, <1>3, <1>4, <1>5 DEF ReadTyped, Onward
<1>9. CASE u.kind = "delta" /\ ~ Full /\ queue' = Append(queue, "delta") /\ UNCHANGED rd
  <2>1. Keeps(m, "answer") /\ Keeps(m, "settled") BY <1>6, <1>9
  <2>2. Passes(m) BY <2>1, <1>2, <1>9 DEF Passes
  <2>3. queue' \in Seq(Kinds) /\ Len(queue') <= QueueMax
    <3>1. "delta" \in Kinds BY DEF Kinds
    <3> QED BY <3>1, <1>9, QueueGrows
  <2>4. PipeTyped' /\ DropSound'
    BY <2>3, <1>1, <1>2, <1>3, <1>9 DEF PipeTypeOK, PipeTyped, DropSound
  <2> QED BY <2>2, <2>4, <1>3, <1>4, <1>5 DEF ReadTyped, Onward
<1>10. CASE /\ u.first /\ queue' = queue
            /\ \/ u.kind \in {"tool", "answer"} /\ rd' = With("persist", u.kind)
               \/ u.kind = "settled" /\ rd' = With("put", "settled")
  <2>1. \A k \in {"answer", "settled"} \ {u.kind} : Keeps(m, k) BY <1>6
  <2>2. Takes(m) BY <2>1, <1>2, <1>3, <1>4, <1>5, <1>10 DEF Takes
  <2>3. rd' \in Reader /\ rd'.stage \in {"persist", "put"}
    BY <1>10, <1>7, ReaderTyped DEF Stages, Kinds
  <2>4. PipeTyped' /\ DropSound'
    BY <2>3, <1>1, <1>2, <1>3, <1>10 DEF PipeTypeOK, PipeTyped, DropSound
  <2> QED BY <2>2, <2>4, <1>3, <1>4, <1>5 DEF ReadTyped, Onward
<1> QED BY <1>4, <1>8, <1>9, <1>10 DEF TakeLine

LEMMA PutReads ==
  ASSUME PipeTypeOK, DropSound, UNCHANGED transport, Put
  PROVE  ReadTyped
<1>1. /\ rd.stage = "put" /\ ~ Full /\ queue' = Append(queue, rd.kind) /\ rd' = At("line")
      /\ UNCHANGED <<pipe, buf>>
  BY DEF Put
<1>2. rd.kind \in Kinds BY DEF PipeTypeOK, Reader
<1>3. queue' \in Seq(Kinds) /\ Len(queue') <= QueueMax BY <1>1, <1>2, QueueGrows
<1>4. rd' \in Reader /\ rd'.stage = "line" BY <1>1, ReaderTyped DEF Stages, Kinds
<1>5. Stream' = Stream BY <1>1 DEF Stream
<1>6. Stream \in Seq(Units) BY StreamTyped
<1>7. Shorten(Stream, Stream, 0) BY <1>6 DEF Shorten
<1>8. Keeps(0, "answer") /\ Keeps(0, "settled") BY <1>5, <1>6, <1>7, SameKeeps
<1>9. Hands(0) BY <1>1, <1>8 DEF Hands
<1>10. PipeTyped' /\ DropSound' BY <1>1, <1>3, <1>4 DEF PipeTypeOK, PipeTyped, DropSound
<1> QED BY <1>5, <1>7, <1>9, <1>10 DEF ReadTyped, Onward

LEMMA ReadingReads ==
  ASSUME PipeTypeOK, DropSound, UNCHANGED transport, Reading
  PROVE  ReadTyped
BY ReceiveReads, DropReads, DrainReads, TakeReads, PutReads DEF Reading

LEMMA AckReads ==
  ASSUME PipeTypeOK, DropSound, UNCHANGED <<transport, pipe, rd, queue>>, AckNext, buf' = AfterLine
  PROVE  ReadTyped
<1>1. /\ HasLine /\ rd.stage = "line" /\ buf[1].kind = "ack" BY DEF AckNext
<1>2. /\ LineEnd \in 1 .. Len(buf) /\ Stream[1] = buf[1]
      /\ buf' \in Seq(Units) /\ Stream' \in Seq(Units) /\ Shorten(Stream, Stream', LineEnd)
  BY <1>1, LineCut
<1>3. Keeps(LineEnd, "answer") /\ Keeps(LineEnd, "settled") BY <1>1, <1>2, LineCut DEF Keeps
<1>4. Passes(LineEnd) BY <1>1, <1>3 DEF Passes
<1>5. PipeTyped' /\ DropSound' BY <1>1, <1>2 DEF PipeTypeOK, PipeTyped, DropSound
<1> QED BY <1>2, <1>4, <1>5 DEF ReadTyped, Onward

--------------------------------------------------------------------------------
(* The pipe in every step *)

\* Steps that leave the pipe alone, and steps that empty it.
Quiet == \/ GrantMove \/ ProxyCall \/ Claim \/ Recheck \/ Resolve \/ PromptFails \/ EngineDied
         \/ Settle \/ SettleFails \/ GiveNoAnswer \/ ContainerDies \/ (Launch /\ box.up)
Empties == \/ Launch /\ ~ box.up /\ rd' = At("line")
           \/ Release /\ rd' = At("ended")
           \/ Crash /\ rd' = At("ended")
Speaks == Accept \/ Say \/ Answer \/ Finish

LEMMA StepKinds ==
  ASSUME Step
  PROVE  \/ Quiet \/ Empties \/ Speaks \/ Read \/ Acknowledge \/ Persist \/ Pump \/ ReadEof
         \/ LinkStop
<1>1. CASE Launch BY <1>1 DEF Quiet, Empties, Launch
<1>2. CASE Release \/ Crash BY <1>2 DEF Empties, Release, Crash
<1> QED BY <1>1, <1>2 DEF Step, Quiet, Speaks, GrantMove, ProxyCall

LEMMA QuietPipe ==
  ASSUME Quiet
  PROVE  UNCHANGED pipeVars
BY DEF Quiet, GrantMove, ProxyCall, Claim, Recheck, Resolve, PromptFails, EngineDied, Settle,
       SettleWith, SettleFails, GiveNoAnswer, ContainerDies, Launch, Create, LoseLease, ChangeKey,
       WriteKey, Switch, Return, LinkScan, LinkWrite, NoProcess, CallWithCached, GrantCheck,
       GrantIssue, GrantRefused

LEMMA EmptiesPipe ==
  ASSUME Empties
  PROVE  pipe' = <<>> /\ buf' = <<>> /\ queue' = <<>>
BY DEF Empties, Launch, Release, Crash

\* t is s with a line of kind k, of n units, after it.
Extended(s, t, k, n) ==
    /\ n \in Sizes /\ Len(t) = Len(s) + n /\ \A h \in 1 .. Len(s) : t[h] = s[h]
    /\ \A h \in 1 .. n : t[Len(s) + h] = [kind |-> k, first |-> h = 1, last |-> h = n]

LEMMA LineTyped ==
  ASSUME NEW k \in Kinds, NEW n \in Sizes, NEW x, x = Line(k, n)
  PROVE  /\ x \in Seq(Units) /\ Len(x) = n /\ n \in Nat /\ n > 0
         /\ \A h \in 1 .. n : x[h] = [kind |-> k, first |-> h = 1, last |-> h = n]
BY PipeAssumption DEF Line, Units

\* t is s with x after it.
Added(s, t, x) == /\ Len(t) = Len(s) + Len(x) /\ \A h \in 1 .. Len(s) : t[h] = s[h]
                  /\ \A h \in 1 .. Len(x) : t[Len(s) + h] = x[h]

LEMMA JoinedTwice ==
  ASSUME NEW b \in Seq(Units), NEW p \in Seq(Units), NEW x \in Seq(Units),
         NEW q, q = p \o x, NEW s, s = b \o p, NEW t, t = b \o q
  PROVE  q \in Seq(Units) /\ t \in Seq(Units) /\ Added(s, t, x)
<1>1. /\ Len(b) \in Nat /\ Len(p) \in Nat /\ s \in Seq(Units) /\ Len(s) = Len(b) + Len(p)
      /\ \A h \in 1 .. Len(b) : s[h] = b[h]
      /\ \A h \in 1 .. Len(p) : s[Len(b) + h] = p[h]
  BY Joined
<1>2. /\ Len(x) \in Nat /\ q \in Seq(Units) /\ Len(q) = Len(p) + Len(x)
      /\ \A h \in 1 .. Len(p) : q[h] = p[h]
      /\ \A h \in 1 .. Len(x) : q[Len(p) + h] = x[h]
  BY Joined
<1>3. /\ t \in Seq(Units) /\ Len(t) = Len(b) + Len(q)
      /\ \A h \in 1 .. Len(b) : t[h] = b[h]
      /\ \A h \in 1 .. Len(q) : t[Len(b) + h] = q[h]
  BY <1>2, Joined
<1>4. ASSUME NEW h \in 1 .. Len(s) PROVE t[h] = s[h]
  <2>1. CASE h <= Len(b) BY <2>1, <1>1, <1>3
  <2>2. CASE h > Len(b)
    <3>1. PICK v : v = h - Len(b) OBVIOUS
    <3>2. v \in 1 .. Len(p) /\ v \in 1 .. Len(q) /\ h = Len(b) + v BY <3>1, <2>2, <1>1, <1>2
    <3>3. t[h] = q[v] /\ q[v] = p[v] /\ s[h] = p[v] BY <3>2, <1>1, <1>2, <1>3
    <3> QED BY <3>3
  <2> QED BY <2>1, <2>2, <1>1
<1>5. ASSUME NEW h \in 1 .. Len(x) PROVE t[Len(s) + h] = x[h]
  <2>1. PICK v : v = Len(p) + h OBVIOUS
  <2>2. v \in 1 .. Len(q) /\ Len(s) + h = Len(b) + v BY <2>1, <1>1, <1>2
  <2>3. t[Len(b) + v] = q[v] /\ q[v] = x[h] BY <2>1, <2>2, <1>2, <1>3
  <2> QED BY <2>2, <2>3
<1>6. Len(t) = Len(s) + Len(x) BY <1>1, <1>2, <1>3
<1> QED BY <1>2, <1>3, <1>4, <1>5, <1>6 DEF Added

LEMMA WriteExtends ==
  ASSUME PipeTypeOK, NEW k \in Kinds, NEW n \in Sizes, Write(k, n), buf' = buf
  PROVE  /\ pipe' \in Seq(Units)
         /\ IF Attached THEN Stream' \in Seq(Units) /\ Extended(Stream, Stream', k, n)
                        ELSE Stream' = Stream
<1>1. buf \in Seq(Units) /\ pipe \in Seq(Units) BY DEF PipeTypeOK
<1>2. CASE ~ Attached BY <1>1, <1>2 DEF Write, Stream
<1>3. CASE Attached
  <2>1. PICK x : x = Line(k, n) OBVIOUS
  <2>2. /\ x \in Seq(Units) /\ Len(x) = n
        /\ \A h \in 1 .. n : x[h] = [kind |-> k, first |-> h = 1, last |-> h = n]
    BY <2>1, LineTyped
  <2>3. PICK q : q = pipe \o x OBVIOUS
  <2>4. PICK s : s = buf \o pipe OBVIOUS
  <2>9. PICK t : t = buf \o q OBVIOUS
  <2>10. x \in Seq(Units) BY <2>2
  <2>5. q \in Seq(Units) /\ t \in Seq(Units) /\ Added(s, t, x)
    BY <1>1, <2>3, <2>4, <2>9, <2>10, JoinedTwice
  <2>6. pipe' = q BY <1>3, <2>1, <2>3 DEF Write
  <2>7. Stream = s /\ Stream' = t BY <2>4, <2>6, <2>9 DEF Stream
  <2>8. Extended(s, t, k, n) BY <2>2, <2>5 DEF Extended, Added
  <2> QED BY <1>3, <2>5, <2>6, <2>7, <2>8
<1> QED BY <1>2, <1>3

\* What the agent says: its kind, size, and how far it gets.
LEMMA Spoken ==
  ASSUME TypeOK, Speaks
  PROVE  \E k \in Kinds, n \in Sizes :
           /\ Write(k, n) /\ box.up
           /\ UNCHANGED <<buf, rd, queue, taskVars, grantVars, procVars, answers, box, proxyVars,
                          disturbances>>
           /\ \/ /\ k \in {"ack", "delta", "tool"} /\ agent.pc \in {"prompted", "working"}
                 /\ agent'.pc = "working" /\ agent'.answer = agent.answer
              \/ /\ k = "answer" /\ agent.pc = "working" /\ agent'.pc = "answered"
                 /\ agent'.answer = IF n <= Limit THEN "whole" ELSE "lost"
              \/ /\ k = "settled" /\ n = 1 /\ agent.pc = "answered" /\ agent'.pc = "settled"
                 /\ agent'.answer = agent.answer
           /\ agent' \in [pc : {"prompted", "working", "answered", "settled"},
                          left : 0 .. MaxFrames, answer : {"none", "whole", "lost"}]
<1> USE PipeAssumption, AgentAssumption
<1> PICK A : A = [pc : {"prompted", "working", "answered", "settled"},
                  left : 0 .. MaxFrames, answer : {"none", "whole", "lost"}]
  OBVIOUS
<1>1. agent \in A BY DEF TypeOK
<1>2. CASE Accept BY <1>1, <1>2 DEF Accept, AgentStep, Kinds
<1>3. CASE Say
  <2>1. PICK next : next = [agent EXCEPT !.left = @ - 1] OBVIOUS
  <2>2. agent.left \in 0 .. MaxFrames /\ agent.left > 0 BY <1>1, <1>3 DEF Say
  <2>3. next \in A /\ next.pc = agent.pc /\ next.answer = agent.answer BY <1>1, <2>1, <2>2
  <2>4. agent.pc = "working" BY <1>3 DEF Say
  <2>5. AgentStep("delta", 1, next) \/ \E n \in Sizes : AgentStep("tool", n, next)
    BY <1>3, <2>1 DEF Say
  <2> QED BY <2>3, <2>4, <2>5 DEF AgentStep, Kinds
<1>4. CASE Answer
  <2>1. PICK n \in Sizes :
           AgentStep("answer", n, [pc |-> "answered", left |-> 0,
                                   answer |-> IF n <= Limit THEN "whole" ELSE "lost"])
    BY <1>4 DEF Answer
  <2>2. agent' \in A /\ agent'.pc = "answered"
        /\ agent'.answer = IF n <= Limit THEN "whole" ELSE "lost"
    BY <2>1 DEF AgentStep
  <2> QED BY <1>4, <2>1, <2>2 DEF Answer, AgentStep, Kinds
<1>5. CASE Finish BY <1>1, <1>5 DEF Finish, AgentStep, Kinds
<1> QED BY <1>2, <1>3, <1>4, <1>5 DEF Speaks

LEMMA EndedTyped ==
  At("ended") \in Reader /\ At("ended").stage = "ended" /\ At("line") \in Reader
  /\ At("line").stage = "line"
BY ReaderTyped DEF Stages, Kinds

\* The end of the reader, and a fact that was written.
LEMMA EofFacts ==
  ASSUME ReadEof
  PROVE  /\ rd.stage \in {"line", "drop", "drain"} /\ rd' = At("ended") /\ buf' = <<>>
         /\ pipe' = <<>> /\ queue' = queue
         /\ UNCHANGED <<taskVars, grantVars, procVars, answers, boxVars, proxyVars, disturbances>>
BY DEF ReadEof, Eof, Undecodable, Hungry

LEMMA PersistFacts ==
  ASSUME Persist
  PROVE  /\ rd.stage = "persist" /\ rd' = With("put", rd.kind)
         /\ UNCHANGED <<pipe, buf, queue, taskVars, grantVars, notified, boxVars, proxyVars,
                        disturbances>>
BY DEF Persist

\* The history: a step of the reader may cut a line or end the reader, and it begins again
\* with the pipe.
TornKept ==
    /\ torn' \in [cut : BOOLEAN, fatal : BOOLEAN]
    /\ \/ torn' = torn
       \/ torn' = Intact /\ Stream' = <<>>
       \/ torn'.cut /\ rd.stage = "drop"
       \/ Undecodable /\ torn'.cut = torn.cut

LEMMA TornMoves ==
  ASSUME PipeTypeOK, Next
  PROVE  TornKept
<1>1. torn \in [cut : BOOLEAN, fatal : BOOLEAN] /\ Step BY DEF PipeTypeOK, Next
<1>2. CASE torn' = torn BY <1>1, <1>2 DEF TornKept
<1>3. CASE EndDrop
  <2>1. torn' \in {torn, [torn EXCEPT !.cut = TRUE]} /\ rd.stage = "drop"
    BY <1>3 DEF EndDrop
  <2> QED BY <1>1, <2>1 DEF TornKept
<1>4. CASE Undecodable
  <2>1. torn' = [torn EXCEPT !.fatal = TRUE] BY <1>4 DEF Undecodable
  <2> QED BY <1>1, <1>4, <2>1 DEF TornKept
<1>5. CASE torn' = Intact /\ Stream' = <<>> BY <1>5 DEF TornKept, Intact
<1>6. CASE Quiet BY <1>2, <1>6, QuietPipe DEF pipeVars
<1>7. CASE Empties
  <2>1. torn' = Intact /\ pipe' = <<>> /\ buf' = <<>>
    BY <1>7 DEF Empties, Launch, Release, Crash
  <2> QED BY <1>5, <2>1 DEF Stream
<1>8. CASE Speaks \/ Persist \/ Pump \/ LinkStop \/ Acknowledge
  BY <1>2, <1>8 DEF Speaks, Accept, Say, Answer, Finish, AgentStep, Persist, Pump, LinkStop,
     Acknowledge
<1>9. CASE Read
  BY <1>2, <1>3, <1>9 DEF Read, Reading, Receive, SkipWhole, StartDrop, Overrun, Drain, TakeLine,
     Put
<1>10. CASE ReadEof BY <1>2, <1>4, <1>10 DEF ReadEof, Eof
<1> QED BY <1>1, <1>6, <1>7, <1>8, <1>9, <1>10, StepKinds

LEMMA NextPipe ==
  ASSUME TypeOK, DropSound, Next
  PROVE  PipeTypeOK' /\ DropSound'
<1> USE PipeAssumption
<1>0. torn' \in [cut : BOOLEAN, fatal : BOOLEAN] BY TornMoves DEF TornKept, TypeOK
<1>1. /\ PipeTypeOK /\ transport' = transport /\ Step
      /\ pipe \in Seq(Units) /\ buf \in Seq(Units) /\ rd \in Reader /\ queue \in Seq(Kinds)
      /\ Len(queue) <= QueueMax /\ transport \in Transports
  BY DEF TypeOK, PipeTypeOK, Next
<1>2. CASE Quiet BY <1>1, <1>2, QuietPipe DEF pipeVars, PipeTypeOK, DropSound
<1>3. CASE Empties
  <2>1. rd' \in {At("line"), At("ended")} BY <1>3 DEF Empties
  <2>2. pipe' = <<>> /\ buf' = <<>> /\ queue' = <<>> BY <1>3, EmptiesPipe
  <2>3. rd' \in Reader /\ rd'.stage \in {"line", "ended"} BY <2>1, EndedTyped
  <2> QED BY <1>0, <1>1, <2>2, <2>3 DEF PipeTypeOK, DropSound
<1>4. CASE Speaks
  <2>1. PICK k \in Kinds, n \in Sizes : Write(k, n) /\ UNCHANGED <<buf, rd, queue>>
    BY <1>4, Spoken
  <2>2. pipe' \in Seq(Units) BY <1>1, <2>1, WriteExtends
  <2> QED BY <1>0, <1>1, <2>1, <2>2 DEF PipeTypeOK, DropSound
<1>5. CASE Read BY <1>0, <1>1, <1>5, ReadingReads DEF Read, ReadTyped, PipeTyped, PipeTypeOK
<1>6. CASE Acknowledge BY <1>0, <1>1, <1>6, AckReads
  DEF Acknowledge, ReadTyped, PipeTyped, PipeTypeOK
<1>7. CASE Persist
  <2>1. rd'.stage = "put" /\ rd' \in Reader
    BY <1>1, <1>7, PersistFacts, ReaderTyped DEF Reader, Stages
  <2> QED BY <1>0, <1>1, <1>7, <2>1, PersistFacts DEF PipeTypeOK, DropSound
<1>8. CASE Pump
  <2>1. queue' = Tail(queue) /\ queue # <<>> /\ UNCHANGED <<pipe, buf, rd>> BY <1>8 DEF Pump
  <2>2. queue' \in Seq(Kinds) /\ Len(queue') <= QueueMax BY <1>1, <2>1
  <2> QED BY <1>0, <1>1, <2>1, <2>2 DEF PipeTypeOK, DropSound
<1>9. CASE ReadEof
  <2>1. rd' \in Reader /\ rd'.stage = "ended" BY <1>9, EofFacts, EndedTyped
  <2> QED BY <1>0, <1>1, <1>9, <2>1, EofFacts DEF PipeTypeOK, DropSound
<1>10. CASE LinkStop
  <2>1. UNCHANGED <<pipe, buf, queue>> /\ rd' \in {rd, At("ended")} BY <1>10 DEF LinkStop
  <2> QED BY <1>0, <1>1, <2>1, EndedTyped DEF PipeTypeOK, DropSound
<1> QED BY <1>1, <1>2, <1>3, <1>4, <1>5, <1>6, <1>7, <1>8, <1>9, <1>10, StepKinds

\* Lines begin where they begin in what is left behind a line, and with a line more.
LEMMA BeginsCut ==
  ASSUME NEW s \in Seq(Units), NEW t \in Seq(Units), NEW m \in Nat, Shorten(s, t, m), Begins(s),
         m > 0 => s[m].last
  PROVE  Begins(t)
<1>1. /\ Len(s) \in Nat /\ Len(t) \in Nat /\ m <= Len(s) /\ Len(t) = Len(s) - m
      /\ \A h \in 1 .. Len(t) : t[h] = s[h + m]
  BY DEF Shorten
<1>2. ASSUME Len(t) > 0 PROVE t[1].first
  <2>1. t[1] = s[1 + m] BY <1>1, <1>2
  <2>2. CASE m = 0 BY <1>1, <1>2, <2>1, <2>2 DEF Begins
  <2>3. CASE m > 0
    <3>1. 1 + m \in 2 .. Len(s) /\ (1 + m) - 1 = m BY <1>1, <1>2, <2>3
    <3> QED BY <2>1, <2>3, <3>1 DEF Begins
  <2> QED BY <2>2, <2>3
<1>3. ASSUME NEW k \in 2 .. Len(t), t[k - 1].last PROVE t[k].first
  <2>1. k + m \in 2 .. Len(s) /\ k - 1 \in 1 .. Len(t) /\ k \in 1 .. Len(t)
        /\ (k - 1) + m = (k + m) - 1
    BY <1>1
  <2>2. t[k] = s[k + m] /\ t[k - 1] = s[(k + m) - 1] BY <1>1, <2>1
  <2> QED BY <1>3, <2>1, <2>2 DEF Begins
<1> QED BY <1>2, <1>3 DEF Begins

LEMMA BeginsMore ==
  ASSUME NEW s \in Seq(Units), NEW t \in Seq(Units), NEW k \in Kinds, NEW n \in Sizes,
         Extended(s, t, k, n), Begins(s)
  PROVE  Begins(t)
<1> USE PipeAssumption
<1>1. /\ n \in Nat /\ n > 0 /\ Len(s) \in Nat /\ Len(t) = Len(s) + n
      /\ \A h \in 1 .. Len(s) : t[h] = s[h]
      /\ \A h \in 1 .. n : (t[Len(s) + h].first <=> h = 1) /\ (t[Len(s) + h].last <=> h = n)
  <2>1. /\ Len(t) = Len(s) + n /\ \A h \in 1 .. Len(s) : t[h] = s[h]
        /\ \A h \in 1 .. n : t[Len(s) + h] = [kind |-> k, first |-> h = 1, last |-> h = n]
    BY DEF Extended
  <2>2. n \in Nat /\ n > 0 /\ Len(s) \in Nat OBVIOUS
  <2>3. ASSUME NEW h \in 1 .. n
        PROVE  (t[Len(s) + h].first <=> h = 1) /\ (t[Len(s) + h].last <=> h = n)
    <3>1. t[Len(s) + h] = [kind |-> k, first |-> h = 1, last |-> h = n] BY <2>1
    <3>2. t[Len(s) + h].first <=> h = 1
      <4>1. t[Len(s) + h].first = (h = 1) BY <3>1
      <4> QED BY <4>1, Zenon
    <3>3. t[Len(s) + h].last <=> h = n
      <4>1. t[Len(s) + h].last = (h = n) BY <3>1
      <4> QED BY <4>1, Zenon
    <3> QED BY <3>2, <3>3
  <2> QED BY <2>1, <2>2, <2>3
<1>2. t[Len(s) + 1].first
  <2>1. 1 \in 1 .. n BY <1>1
  <2> QED BY <2>1, <1>1
<1>3. t[1].first
  <2>1. CASE Len(s) = 0 BY <1>1, <1>2, <2>1
  <2>2. CASE Len(s) > 0 BY <1>1, <2>2 DEF Begins
  <2> QED BY <1>1, <2>1, <2>2
<1>4. ASSUME NEW h \in 2 .. Len(t), t[h - 1].last PROVE t[h].first
  <2>1. CASE h <= Len(s)
    <3>1. h \in 2 .. Len(s) /\ h - 1 \in 1 .. Len(s) /\ h \in 1 .. Len(s) BY <1>1, <2>1
    <3> QED BY <1>1, <1>4, <3>1 DEF Begins
  <2>2. CASE h = Len(s) + 1 BY <1>2, <2>2
  <2>3. CASE h > Len(s) + 1
    <3>1. PICK g : g = h - 1 - Len(s) OBVIOUS
    <3>2. g \in 1 .. n /\ Len(s) + g = h - 1 /\ g # n BY <1>1, <2>3, <3>1
    <3>3. ~ t[h - 1].last BY <1>1, <3>2
    <3> QED BY <1>4, <3>3
  <2> QED BY <1>1, <2>1, <2>2, <2>3
<1> QED BY <1>3, <1>4 DEF Begins

LEMMA LineBegins ==
  ASSUME PipeTypeOK, Begins(Stream), HasLine, buf' = AfterLine, pipe' = pipe
  PROVE  Begins(Stream')
<1>1. /\ LineEnd \in 1 .. Len(buf) /\ Stream' \in Seq(Units)
      /\ Shorten(Stream, Stream', LineEnd)
  BY LineCut
<1>2. buf[LineEnd].last BY LineEndIs DEF PipeTypeOK
<1>3. Stream \in Seq(Units) /\ Len(buf) \in Nat /\ \A h \in 1 .. Len(buf) : Stream[h] = buf[h]
  BY StreamTyped
<1>4. Stream[LineEnd].last /\ LineEnd \in Nat BY <1>1, <1>2, <1>3
<1> QED BY <1>1, <1>3, <1>4, BeginsCut

LEMMA ReceivedBegins ==
  ASSUME PipeTypeOK, DropSound, UNCHANGED transport, Receive, Begins(Stream)
  PROVE  Begins(Stream')
<1>1. PICK n \in 1 .. Len(pipe) :
         buf' = buf \o SubSeq(pipe, 1, n) /\ pipe' = SubSeq(pipe, n + 1, Len(pipe))
  BY DEF Receive
<1>2. PipeTyped' /\ Onward BY ReceiveReads DEF ReadTyped
<1>3. PICK m \in Nat : Shorten(Stream, Stream', m) BY <1>2 DEF Onward
<1>4. buf \in Seq(Units) /\ pipe \in Seq(Units) BY DEF PipeTypeOK
<1>5. PICK c, q : c = buf' /\ q = pipe' OBVIOUS
<1>6. c \in Seq(Units) /\ q \in Seq(Units) BY <1>2, <1>5 DEF PipeTyped
<1>7. Len(c) = Len(buf) + n
  <2>1. c = buf \o SubSeq(pipe, 1, n) BY <1>1, <1>5
  <2> QED BY <2>1, <1>4, Moving
<1>8. Len(q) = Len(pipe) - n
  <2>1. q = SubSeq(pipe, n + 1, Len(pipe)) /\ n \in 0 .. Len(pipe) BY <1>1, <1>5
  <2> QED BY <2>1, <1>4, Cutting
<1>9. PICK t : t = c \o q OBVIOUS
<1>10. t \in Seq(Units) /\ Len(t) = Len(c) + Len(q) /\ Stream' = t
  BY <1>5, <1>6, <1>9, Joined DEF Stream
<1>11. Stream \in Seq(Units) /\ Len(Stream) = Len(buf) + Len(pipe) /\ Len(buf) \in Nat
       /\ Len(pipe) \in Nat
  BY StreamTyped
<1>12. m = 0
  <2>1. Shorten(Stream, t, m) BY <1>3, <1>10
  <2> QED BY <2>1, <1>7, <1>8, <1>10, <1>11 DEF Shorten
<1> QED BY <1>3, <1>10, <1>11, <1>12, BeginsCut

LEMMA UnbrokenKept ==
  ASSUME TypeOK, DropSound, Unbroken, Next
  PROVE  Unbroken'
<1> SUFFICES ASSUME transport' = "api", ~ torn'.cut
             PROVE  ~ torn'.fatal /\ Begins(Stream')
  BY DEF Unbroken
<1>1. /\ PipeTypeOK /\ transport' = transport /\ transport = "api" /\ Step
      /\ torn \in [cut : BOOLEAN, fatal : BOOLEAN]
  BY DEF TypeOK, PipeTypeOK, Next
<1>2. TornKept BY <1>1, TornMoves
<1>3. CASE torn' = Intact /\ Stream' = <<>> BY <1>3 DEF Intact, Begins
<1>4. CASE Undecodable /\ torn'.cut = torn.cut
  <2>1. Begins(Stream) BY <1>1, <1>4 DEF Unbroken
  <2>2. HasLine /\ ~ buf[1].first BY <1>4 DEF Undecodable
  <2>3. LineEnd \in 1 .. Len(buf) BY <1>1, <2>2, LineEndIs DEF PipeTypeOK
  <2>4. Len(Stream) > 0 /\ Stream[1] = buf[1] BY <1>1, <2>3, StreamTyped
  <2> QED BY <2>1, <2>2, <2>4 DEF Begins
<1>5. CASE torn' = torn
  <2>1. ~ torn'.fatal /\ Begins(Stream) BY <1>1, <1>5 DEF Unbroken
  <2>2. CASE Stream' = Stream BY <2>1, <2>2
  <2>3. CASE Stream' = <<>> BY <2>1, <2>3 DEF Begins
  <2>4. CASE HasLine /\ buf' = AfterLine /\ pipe' = pipe BY <1>1, <2>1, <2>4, LineBegins
  <2>5. CASE Quiet \/ LinkStop \/ Persist \/ Pump
    <3>1. UNCHANGED <<pipe, buf>> BY <2>5, QuietPipe DEF pipeVars, LinkStop, Persist, Pump
    <3> QED BY <2>2, <3>1 DEF Stream
  <2>6. CASE Empties \/ ReadEof
    <3>1. pipe' = <<>> /\ buf' = <<>> BY <2>6, EmptiesPipe, EofFacts
    <3> QED BY <2>3, <3>1 DEF Stream
  <2>7. CASE Speaks
    <3>1. PICK k \in Kinds, n \in Sizes : Write(k, n) /\ buf' = buf BY <2>7, Spoken
    <3>2. Stream' = Stream \/ (Stream' \in Seq(Units) /\ Extended(Stream, Stream', k, n))
      BY <1>1, <3>1, WriteExtends
    <3>3. Stream \in Seq(Units) BY <1>1, StreamTyped
    <3> QED BY <2>1, <2>2, <3>2, <3>3, BeginsMore
  <2>8. CASE Acknowledge
    <3>1. HasLine /\ buf' = AfterLine /\ pipe' = pipe BY <2>8 DEF Acknowledge, AckNext
    <3> QED BY <2>4, <3>1
  <2>9. CASE Read
    <3>1. CASE Receive BY <1>1, <2>1, <3>1, ReceivedBegins
    <3>2. CASE StartDrop \/ Put
      <4>1. UNCHANGED <<pipe, buf>> BY <3>2 DEF StartDrop, Put
      <4> QED BY <2>2, <4>1 DEF Stream
    <3>3. CASE SkipWhole \/ TakeLine BY <2>4, <3>3 DEF SkipWhole, TakeLine
    <3>4. CASE EndDrop
      <4>1. HasLine /\ buf' = AfterLine /\ pipe' = pipe
        <5>1. torn' = [torn EXCEPT !.cut = TRUE] => torn'.cut BY <1>1
        <5> QED BY <5>1, <3>4 DEF EndDrop
      <4> QED BY <2>4, <4>1
    <3>5. ~ (Overrun \/ Drain) BY <1>1 DEF Overrun, Drain, DropSound
    <3> QED BY <2>9, <3>1, <3>2, <3>3, <3>4, <3>5 DEF Read, Reading
  <2> QED BY <1>1, <2>5, <2>6, <2>7, <2>8, <2>9, StepKinds
<1>6. CASE torn'.cut /\ rd.stage = "drop" BY <1>6
<1> QED BY <1>2, <1>3, <1>4, <1>5, <1>6 DEF TornKept

--------------------------------------------------------------------------------
(* The books *)

\* Steps that change neither the task nor its round, nor what was granted; an attempt only
\* goes on.
Inside == \/ Resolve \/ Launch \/ Acknowledge \/ PromptFails \/ Read \/ ReadEof \/ Persist \/ Pump
          \/ EngineDied \/ SettleFails \/ Release \/ Speaks \/ GiveNoAnswer \/ ContainerDies

LEMMA InsideFacts ==
  ASSUME TypeOK, Inside
  PROVE  /\ UNCHANGED <<taskVars, grantVars, notified, proxyVars>>
         /\ \/ att' = Idle /\ att.stage = "releasing"
            \/ /\ att'.epoch = att.epoch /\ (att.stage = "idle" <=> att'.stage = "idle")
               /\ att.stage \in {"idle", "releasing"} => att'.stage = att.stage
               /\ att'.exposes = att.exposes \/ Resolve
         /\ att' \in ContextRow
         /\ disturbances' \in Nat
<1> USE AgentAssumption
<1>1. att \in ContextRow /\ disturbances \in Nat /\ mount \in BOOLEAN
  BY DEF TypeOK, GrantTypeOK, ContextRow
<1>2. Idle \in ContextRow BY GrantAssumption DEF Idle, ContextRow, Phases
<1>3. ASSUME NEW st \in Phases \ {"idle"}, To(st), att.stage \notin {"idle", "releasing"}
      PROVE  /\ att' \in ContextRow /\ att'.epoch = att.epoch /\ att'.stage # "idle"
             /\ att'.exposes = att.exposes /\ att.stage # "idle" /\ att.stage # "releasing"
  BY <1>1, <1>3 DEF To, ContextRow
<1>4. CASE Resolve
  <2>1. PICK b \in BOOLEAN, st \in {"launching", "releasing"} :
           att' = [att EXCEPT !.stage = st, !.exposes = b] \/ att' = [att EXCEPT !.stage = st]
    BY <1>1, <1>4 DEF Resolve
  <2>2. att' \in ContextRow /\ att'.epoch = att.epoch /\ att'.stage # "idle"
    BY <1>1, <2>1 DEF ContextRow, Phases
  <2>3. att.stage = "assembling"
        /\ UNCHANGED <<taskVars, grantVars, notified, proxyVars, disturbances>>
    BY <1>4 DEF Resolve
  <2> QED BY <1>1, <1>4, <2>2, <2>3
<1>5. CASE Launch
  <2>1. \E st \in {"releasing", "prompting"} : To(st) BY <1>5 DEF Launch
  <2>2. att.stage = "launching"
        /\ UNCHANGED <<taskVars, grantVars, notified, proxyVars, disturbances>>
    BY <1>5 DEF Launch
  <2> QED BY <1>1, <1>3, <2>1, <2>2 DEF Phases
<1>6. CASE Acknowledge
  <2>1. To("pumping") /\ att.stage = "prompting"
        /\ UNCHANGED <<taskVars, grantVars, notified, proxyVars, disturbances>>
    BY <1>6 DEF Acknowledge
  <2> QED BY <1>1, <1>3, <2>1 DEF Phases
<1>7. CASE PromptFails \/ EngineDied \/ SettleFails
  <2>1. To("releasing") /\ att.stage \in {"prompting", "pumping", "settling"}
        /\ UNCHANGED <<taskVars, grantVars, notified, proxyVars, disturbances>>
    BY <1>7 DEF PromptFails, EngineDied, SettleFails
  <2> QED BY <1>1, <1>3, <2>1 DEF Phases
<1>8. CASE Pump
  <2>1. To("settling") \/ att' = att BY <1>8 DEF Pump
  <2>2. att.stage = "pumping"
        /\ UNCHANGED <<taskVars, grantVars, notified, proxyVars, disturbances>>
    BY <1>8 DEF Pump
  <2> QED BY <1>1, <1>3, <2>1, <2>2 DEF Phases
<1>9. CASE Persist
  <2>1. att' = att \/ att' = [att EXCEPT !.pending = @ \/ rd.kind = "answer"]
    BY <1>9 DEF Persist
  <2>2. /\ att' \in ContextRow /\ att'.epoch = att.epoch /\ att'.stage = att.stage
        /\ att'.exposes = att.exposes
    BY <1>1, <2>1 DEF ContextRow
  <2> QED BY <1>1, <1>9, <2>2, PersistFacts
<1>10. CASE Release BY <1>1, <1>2, <1>10 DEF Release
<1>11. CASE Speaks
  <2>1. UNCHANGED <<taskVars, grantVars, procVars, proxyVars, disturbances>> BY <1>11, Spoken
  <2> QED BY <1>1, <2>1 DEF procVars
<1>12. CASE Read \/ ReadEof \/ GiveNoAnswer
  BY <1>1, <1>12 DEF Read, ReadEof, GiveNoAnswer, procVars
<1>13. CASE ContainerDies BY <1>1, <1>13 DEF ContainerDies, procVars, Disturb
<1> QED BY <1>4, <1>5, <1>6, <1>7, <1>8, <1>9, <1>10, <1>11, <1>12, <1>13 DEF Inside

LEMMA StepParts ==
  ASSUME Step
  PROVE  Inside \/ GrantMove \/ ProxyCall \/ Claim \/ Recheck \/ Settle \/ LinkStop \/ Crash
BY DEF Step, Inside, GrantMove, ProxyCall, Speaks

\* What a grant action does to the status of the task and the state of its round.
GrantEffect ==
    \/ status' = status /\ round' = round
    \/ status = "none" /\ status' = "uploading" /\ round' = round /\ snap # 0
    \/ /\ status = "uploading" /\ status' = "queued" /\ round'.state = "pending"
       /\ round'.epoch = round.epoch /\ round'.mine = round.mine
    \/ /\ status = "running" /\ round.state = "running"
       /\ ~ round'.mine /\ round'.epoch = round.epoch
       /\ \/ status' = "failed" /\ round'.state = "failed"
          \/ status' = "queued" /\ round'.state = "pending" /\ round.epoch < MaxAttempts
    \/ /\ status \in Unstarted /\ status' = "failed" /\ round.state # "pending" /\ round' = round
    \/ /\ status = "queued" /\ status' = "failed" /\ round'.state = "cancelled"
       /\ round'.epoch = round.epoch /\ round'.mine = round.mine
    \/ /\ status \in Live /\ status' = "aborted" /\ round'.state = "cancelled"
       /\ round'.epoch = round.epoch /\ round'.mine = round.mine

LEMMA FailUnstartedEffect ==
  ASSUME TaskTyped, Books, FailUnstarted
  PROVE  GrantEffect /\ snap' = snap /\ mount' = mount
<1>1. PICK q : q = [round EXCEPT !.state = "cancelled"] OBVIOUS
<1>2. q \in RoundRow /\ q.state = "cancelled" /\ q.epoch = round.epoch /\ q.mine = round.mine
  BY <1>1, RoundSet DEF TaskTyped, RoundRow
<1>3. round' = IF status \in Unstarted /\ round.state = "pending" THEN q ELSE round
  BY <1>1 DEF FailUnstarted
<1>4. round.state = "pending" => status = "queued" BY DEF Books
<1> QED BY <1>2, <1>3, <1>4 DEF FailUnstarted, GrantEffect

LEMMA GrantEffects ==
  ASSUME TypeOK, Books, GrantMove
  PROVE  /\ GrantEffect
         /\ \/ snap' = snap /\ mount' = mount
            \/ /\ ReadSources /\ status = "none" /\ snap = 0 /\ snap' = provider.version
               /\ mount' = Mountable /\ UNCHANGED <<status, round, grantVars>>
         /\ \A c \in Callers : rotating'[c] < MaxVersion
         /\ ~ (\E c \in Callers : ReadForRotation(c) \/ Rotate(c)) => rotating' = rotating
<1>1. TaskTyped /\ LentTyped BY GrantParts DEF TypeOK
<1>2. \A c \in Callers : rotating[c] < MaxVersion BY DEF Books
<1>3. CASE ReadSources BY <1>2, <1>3 DEF ReadSources, grantVars, GrantEffect
<1>4. CASE InsertTask BY <1>2, <1>4 DEF InsertTask, grantVars, GrantEffect
<1>5. CASE CommitInput
  <2>1. PICK q : q = [round EXCEPT !.state = "pending"] OBVIOUS
  <2>2. q \in RoundRow /\ q.state = "pending" /\ q.epoch = round.epoch /\ q.mine = round.mine
    BY <2>1, <1>1, RoundSet DEF TaskTyped
  <2> QED BY <1>2, <1>5, <2>1, <2>2 DEF CommitInput, grantVars, GrantEffect
<1>6. CASE Expire
  <2>1. PICK s \in {"failed", "pending"} :
           /\ round' = [round EXCEPT !.state = s, !.mine = FALSE]
           /\ s = "failed" => status' = "failed"
           /\ s = "pending" => status' = "queued" /\ ~ (round.epoch >= MaxAttempts)
    BY <1>6 DEF Expire
  <2>2. PICK q : q = [round EXCEPT !.state = s, !.mine = FALSE] OBVIOUS
  <2>3. q \in RoundRow /\ q.state = s /\ q.epoch = round.epoch /\ q.mine = FALSE
    BY <2>2, <1>1 DEF TaskTyped, RoundRow
  <2>4. round' = q BY <2>1, <2>2
  <2>5. round.state = "running" /\ status = "running" BY <1>6 DEF Expire, Books
  <2>6. s = "pending" => round.epoch < MaxAttempts
    BY <2>1, <1>1, GrantAssumption DEF TaskTyped, RoundRow
  <2>7. GrantEffect BY <2>1, <2>3, <2>4, <2>5, <2>6 DEF GrantEffect
  <2> QED BY <1>2, <1>6, <2>7 DEF Expire, grantVars
<1>7. CASE \E c \in Callers : ReadForRotation(c)
  <2>1. PICK c \in Callers : ReadForRotation(c) BY <1>7
  <2> QED BY <2>1, <1>1, <1>2 DEF ReadForRotation, taskVars, GrantEffect, LentTyped
<1>8. CASE \E c \in Callers : Rotate(c)
  <2>1. PICK c \in Callers : Rotate(c) BY <1>8
  <2>2. \A d \in Callers : rotating'[d] < MaxVersion
    BY <2>1, <1>1, <1>2, GrantAssumption DEF Rotate, LentTyped
  <2> QED BY <1>8, <2>1, <2>2, <1>1, FailUnstartedEffect DEF Rotate
<1>9. CASE Revoke BY <1>1, <1>2, <1>9, FailUnstartedEffect DEF Revoke
<1>10. CASE SwitchOff \/ SwitchOn \/ Scan(Executing) \/ LinkFails
  BY <1>2, <1>10 DEF SwitchOff, SwitchOn, Scan, LinkFails, taskVars, GrantEffect
<1>11. CASE WriteEnd
  <2>1. PICK q : q = [round EXCEPT !.state = "cancelled"] OBVIOUS
  <2>2. q \in RoundRow /\ q.state = "cancelled" /\ q.epoch = round.epoch /\ q.mine = round.mine
    BY <2>1, <1>1, RoundSet DEF TaskTyped
  <2> QED BY <1>2, <1>11, <2>1, <2>2 DEF WriteEnd, GrantEffect
<1> QED BY <1>3, <1>4, <1>5, <1>6, <1>7, <1>8, <1>9, <1>10, <1>11
        DEF GrantMove, Create, LoseLease, ChangeKey, WriteKey, Switch, Return, LinkScan, LinkWrite

\* What the other steps do to the books.
LEMMA ClaimFacts ==
  ASSUME TypeOK, Claim
  PROVE  /\ round.state = "pending" /\ status = "queued" /\ status' = "running" /\ notified'
         /\ round'.state = "running" /\ round'.epoch = round.epoch + 1 /\ round'.mine
         /\ UNCHANGED <<pipeVars, snap, mount, grantVars, att, answers, boxVars, proxyVars,
                        disturbances>>
BY DEF Claim, TypeOK

LEMMA RecheckFacts ==
  ASSUME TypeOK, Recheck
  PROVE  /\ att.stage = "idle" /\ notified /\ ~ notified'
         /\ \/ att' = Idle
            \/ /\ round.state = "running" /\ round.mine /\ att'.stage = "assembling"
               /\ att'.epoch = round.epoch /\ ~ att'.exposes /\ ~ att'.pending
         /\ att' \in ContextRow
         /\ UNCHANGED <<pipeVars, taskVars, grantVars, answers, boxVars, proxyVars, disturbances>>
<1>1. round \in RoundRow BY DEF TypeOK, GrantTypeOK, RoundRow
<1>2. Idle \in ContextRow BY GrantAssumption DEF Idle, ContextRow, Phases
<1>3. PICK a : a = [Idle EXCEPT !.stage = "assembling", !.epoch = round.epoch] OBVIOUS
<1>4. a \in ContextRow /\ a.stage = "assembling" /\ a.epoch = round.epoch /\ ~ a.exposes
      /\ ~ a.pending
  BY <1>1, <1>3 DEF Idle, ContextRow, Phases, RoundRow
<1> QED BY <1>2, <1>3, <1>4 DEF Recheck

LEMMA SettleFacts ==
  ASSUME TypeOK, Books, Settle
  PROVE  /\ att.stage = "settling" /\ att'.stage = "releasing" /\ att' \in ContextRow
         /\ att'.epoch = att.epoch /\ att'.exposes = att.exposes /\ att'.pending = att.pending
         /\ UNCHANGED <<pipeVars, snap, mount, grantVars, notified, boxVars, proxyVars,
                         disturbances>>
         /\ IF Fenced
            THEN /\ round' \in RoundRow /\ round'.state = "settled"
                 /\ round'.epoch = round.epoch /\ round'.mine = round.mine
                 /\ status = "running" /\ status' = IF KeyReplaced THEN "aborted" ELSE "ready"
                 /\ IF att.pending THEN Stored(1) ELSE UNCHANGED answers
            ELSE UNCHANGED <<round, status, answers>>
<1>1. att \in ContextRow /\ round \in RoundRow
  BY DEF TypeOK, ContextRow, GrantTypeOK, RoundRow
<1>2. To("releasing") /\ att.stage = "settling" BY DEF Settle, SettleWith
<1>3. /\ att'.stage = "releasing" /\ att' \in ContextRow /\ att'.epoch = att.epoch
      /\ att'.exposes = att.exposes /\ att'.pending = att.pending
  BY <1>1, <1>2 DEF To, ContextRow, Phases
<1>4. PICK q : q = [round EXCEPT !.state = "settled"] OBVIOUS
<1>5. q \in RoundRow /\ q.state = "settled" /\ q.epoch = round.epoch /\ q.mine = round.mine
  BY <1>1, <1>4, RoundSet DEF RoundRow
<1>6. Fenced => status = "running" BY DEF Fenced, Books
<1>7. IF Fenced
      THEN /\ round' = q
           /\ status' = IF status # "running" THEN status
                        ELSE IF KeyReplaced THEN "aborted" ELSE "ready"
           /\ IF att.pending THEN Stored(1) ELSE UNCHANGED answers
      ELSE UNCHANGED <<round, status, answers>>
  BY <1>4 DEF Settle, SettleWith
<1>8. UNCHANGED <<pipeVars, snap, mount, grantVars, notified, boxVars, proxyVars, disturbances>>
  BY DEF Settle, SettleWith
<1> QED BY <1>2, <1>3, <1>5, <1>6, <1>7, <1>8

LEMMA CrashFacts ==
  ASSUME TypeOK, Crash
  PROVE  /\ att' = Idle /\ ~ notified' /\ round' \in RoundRow /\ ~ round'.mine
         /\ round'.state = round.state /\ round'.epoch = round.epoch
         /\ grant' = 0 /\ rotating' = [c \in Callers |-> 0]
         /\ (link = "none" <=> link' = "none") /\ link' \in Links
         /\ box'.epoch = box.epoch /\ box' \in [up : BOOLEAN, epoch : 0 .. MaxAttempts]
         /\ disturbances' \in Nat
         /\ rd' = At("ended")
         /\ UNCHANGED <<status, snap, mount, provider, overwritten, server, answers, agent, cache,
                        used>>
<1>1. round \in RoundRow /\ box \in [up : BOOLEAN, epoch : 0 .. MaxAttempts] /\ link \in Links
  BY DEF TypeOK, GrantTypeOK, RoundRow
<1>2. PICK q : q = [round EXCEPT !.mine = FALSE] OBVIOUS
<1>3. q \in RoundRow /\ q.state = round.state /\ q.epoch = round.epoch /\ ~ q.mine
  BY <1>1, <1>2 DEF RoundRow
<1>4. box'.epoch = box.epoch /\ box' \in [up : BOOLEAN, epoch : 0 .. MaxAttempts]
  <2>1. (box.up /\ transport = "api") \in BOOLEAN OBVIOUS
  <2> QED BY <1>1, <2>1 DEF Crash
<1>5. disturbances' \in Nat
  BY AgentAssumption DEF Crash, Disturb, TypeOK
<1> QED BY <1>1, <1>2, <1>3, <1>4, <1>5 DEF Crash, Links

LEMMA ProxyFacts ==
  ASSUME TypeOK, Books, ProxyCall
  PROVE  /\ UNCHANGED <<pipeVars, taskVars, grantVars, procVars, answers, boxVars, disturbances>>
         /\ grant' \in 0 .. MaxVersion /\ cache' \in 0 .. MaxVersion
         /\ used' \subseteq 1 .. MaxVersion
         /\ round.state # "none"
<1>1. /\ grant \in 0 .. MaxVersion /\ cache \in 0 .. MaxVersion /\ used \subseteq 1 .. MaxVersion
      /\ provider.version \in 1 .. MaxVersion
  BY DEF TypeOK, GrantTypeOK
<1>2. UNCHANGED <<pipeVars, taskVars, grantVars, procVars, answers, boxVars, disturbances>>
  BY DEF ProxyCall, CallWithCached, GrantCheck, GrantIssue, GrantRefused
<1>3. round.state # "none"
  BY DEF ProxyCall, CallWithCached, GrantCheck, GrantIssue, GrantRefused, Books
<1>4. grant' \in 0 .. MaxVersion /\ cache' \in 0 .. MaxVersion
  BY <1>1, GrantAssumption DEF ProxyCall, CallWithCached, GrantCheck, GrantIssue, GrantRefused
<1>5. used' \subseteq 1 .. MaxVersion
  <2>1. \/ used' = used
        \/ cache # 0 /\ used' = used \cup {cache}
        \/ grant # 0 /\ used' = used \cup {grant}
    BY DEF ProxyCall, CallWithCached, GrantCheck, GrantIssue, GrantRefused
  <2>2. cache # 0 => cache \in 1 .. MaxVersion BY <1>1, GrantAssumption
  <2>3. grant # 0 => grant \in 1 .. MaxVersion BY <1>1, GrantAssumption
  <2>4. used \subseteq 1 .. MaxVersion BY <1>1
  <2>5. CASE used' = used BY <2>4, <2>5
  <2>6. CASE cache # 0 /\ used' = used \cup {cache}
    <3>1. PICK S : S = 1 .. MaxVersion OBVIOUS
    <3>2. cache \in S /\ used \subseteq S BY <2>2, <2>4, <2>6, <3>1
    <3> QED BY <2>6, <3>1, <3>2, Zenon
  <2>7. CASE grant # 0 /\ used' = used \cup {grant}
    <3>1. PICK S : S = 1 .. MaxVersion OBVIOUS
    <3>2. grant \in S /\ used \subseteq S BY <2>3, <2>4, <2>7, <3>1
    <3> QED BY <2>7, <3>1, <3>2, Zenon
  <2> QED BY <2>1, <2>5, <2>6, <2>7
<1> QED BY <1>2, <1>3, <1>4, <1>5

LEMMA BooksKept ==
  ASSUME TypeOK, Books, ReaderSound, Step
  PROVE  Books'
<1>1. /\ TaskTyped /\ LentTyped /\ att \in ContextRow
      /\ round.epoch \in Nat /\ att.epoch \in Nat /\ MaxAttempts \in Nat
      /\ status \in Statuses
  BY GrantParts, GrantAssumption DEF TypeOK, ContextRow, TaskTyped, RoundRow
<1>2. CASE Inside
  <2>1. /\ UNCHANGED <<taskVars, grantVars, notified, proxyVars>> /\ att' \in ContextRow
        /\ \/ att' = Idle /\ att.stage = "releasing"
           \/ /\ att'.epoch = att.epoch /\ (att.stage = "idle" <=> att'.stage = "idle")
              /\ att.stage \in {"idle", "releasing"} => att'.stage = att.stage
    BY <1>2, InsideFacts
  <2>3. status \in {"none", "uploading"} => att' = Idle
    <3>1. SUFFICES ASSUME att = Idle PROVE att' = att BY DEF Books
    <3>2. att.stage = "idle" BY <3>1 DEF Idle
    <3>3. rd.stage = "ended" BY <3>2 DEF ReaderSound, Reads, Before
    <3>4. ~ (Resolve \/ Launch \/ Acknowledge \/ PromptFails \/ Persist \/ Pump \/ EngineDied
             \/ SettleFails \/ Release)
      BY <3>2, <3>3 DEF Resolve, Launch, Acknowledge, PromptFails, Persist, Pump, EngineDied,
         SettleFails, Release
    <3>5. CASE Speaks BY <3>5, Spoken DEF procVars
    <3>6. CASE Read \/ ReadEof \/ GiveNoAnswer \/ ContainerDies
      BY <3>6 DEF Read, ReadEof, GiveNoAnswer, ContainerDies, procVars
    <3> QED BY <1>2, <3>4, <3>5, <3>6 DEF Inside
  <2> QED BY <2>1, <2>3, <1>1 DEF Books, taskVars, grantVars, proxyVars, Idle
<1>3. CASE GrantMove
  <2>1. UNCHANGED <<procVars, proxyVars>> BY <1>3, GrantMoveTyped
  <2>2. GrantEffect /\ \A c \in Callers : rotating'[c] < MaxVersion BY <1>3, GrantEffects
  <2>3. status' # "none" => snap' # 0
    <3>1. CASE UNCHANGED snap BY <2>2, <3>1 DEF GrantEffect, Books, Unstarted, Live
    <3>2. CASE ReadSources BY <3>2 DEF ReadSources
    <3> QED BY <1>3, <3>1, <3>2, GrantEffects
  <2> QED BY <2>1, <2>2, <2>3, <1>1, GrantAssumption
          DEF GrantEffect, Books, procVars, proxyVars, Unstarted, Live
<1>4. CASE ProxyCall
  BY <1>4, ProxyFacts DEF Books, taskVars, grantVars, procVars
<1>5. CASE Claim
  <2>1. round.epoch < MaxAttempts /\ snap # 0 BY <1>5, ClaimFacts DEF Books
  <2> QED BY <1>1, <1>5, <2>1, ClaimFacts DEF Books, grantVars, proxyVars
<1>6. CASE Recheck
  <2>1. round.state = "running" => round.epoch > 0 BY DEF Books
  <2> QED BY <1>1, <1>6, <2>1, RecheckFacts DEF Books, taskVars, grantVars, proxyVars, Idle
<1>7. CASE Settle
  BY <1>1, <1>7, SettleFacts DEF Books, grantVars, proxyVars, Idle, Fenced
<1>8. CASE LinkStop BY <1>8 DEF LinkStop, Books, taskVars, procVars, proxyVars
<1>9. CASE Crash
  <2>1. \A c \in Callers : rotating'[c] < MaxVersion BY <1>9, CrashFacts, GrantAssumption
  <2>2. /\ att' = Idle /\ ~ notified' /\ round'.state = round.state /\ round'.epoch = round.epoch
        /\ grant' = 0 /\ UNCHANGED <<status, snap, cache, used>>
    BY <1>9, CrashFacts
  <2>3. att'.epoch = 0 /\ att'.stage = "idle" BY <2>2 DEF Idle
  <2> QED BY <1>1, <2>1, <2>2, <2>3 DEF Books
<1> QED BY <1>2, <1>3, <1>4, <1>5, <1>6, <1>7, <1>8, <1>9, StepParts

\* The status comes to life from uploading alone, and a switch under way ends with no task.
LEMMA GrantLinks ==
  ASSUME TypeOK, Books, GrantMove
  PROVE  server' # "on" /\ link' = "none" =>
           \/ server # "on" /\ link = "none" /\ (status' \in Live => status \in Live \/ att = Idle)
           \/ ~ mount' \/ status' \notin Live
<1>1. CASE CommitInput BY <1>1 DEF CommitInput, grantVars, Books
<1>2. CASE ReadSources \/ InsertTask \/ Expire \/ (\E c \in Callers : ReadForRotation(c))
  BY <1>2 DEF ReadSources, InsertTask, Expire, ReadForRotation, grantVars, taskVars, Live, Books
<1>3. CASE Revoke \/ \E c \in Callers : Rotate(c)
  BY <1>3 DEF Revoke, Rotate, FailUnstarted, Live
<1>4. CASE SwitchOff \/ SwitchOn \/ LinkFails
  BY <1>4 DEF SwitchOff, SwitchOn, LinkFails, taskVars
<1>5. CASE Scan(Executing) BY <1>5 DEF Scan, taskVars
<1>6. CASE WriteEnd BY <1>6 DEF WriteEnd, Live
<1> QED BY <1>1, <1>2, <1>3, <1>4, <1>5, <1>6
        DEF GrantMove, Create, LoseLease, ChangeKey, WriteKey, Switch, Return, LinkScan, LinkWrite

LEMMA MountedKept ==
  ASSUME TypeOK, Books, Mounted, Step
  PROVE  Mounted'
<1>1. att \in ContextRow /\ mount \in BOOLEAN BY DEF TypeOK, GrantTypeOK, ContextRow
<1>2. CASE Inside
  <2>1. UNCHANGED <<status, mount, server, link>> BY <1>2, InsideFacts DEF taskVars, grantVars
  <2>2. CASE att' = Idle BY <2>1, <2>2 DEF Mounted, Idle
  <2>3. CASE Resolve
    <3>1. att'.exposes => att.exposes \/ (mount /\ server = "on")
      BY <1>1, <2>3 DEF Resolve, ContextRow
    <3> QED BY <2>1, <3>1 DEF Mounted
  <2>4. CASE att'.exposes = att.exposes BY <2>1, <2>4 DEF Mounted
  <2> QED BY <1>2, <2>2, <2>3, <2>4, InsideFacts
<1>3. CASE GrantMove
  <2>1. att' = att BY <1>3, GrantMoveTyped DEF procVars
  <2>2. att.exposes => mount'
    <3>1. ReadSources => ~ att.exposes BY DEF ReadSources, Books, Idle
    <3> QED BY <1>3, <3>1, GrantEffects DEF Mounted
  <2>3. att = Idle => ~ att.exposes BY DEF Idle
  <2> QED BY <1>1, <1>3, <2>1, <2>2, <2>3, GrantLinks DEF Mounted
<1>4. CASE ProxyCall BY <1>4, ProxyFacts DEF Mounted, taskVars, grantVars, procVars
<1>5. CASE Claim BY <1>5, ClaimFacts DEF Mounted, grantVars, Live
<1>6. CASE Recheck BY <1>6, RecheckFacts DEF Mounted, taskVars, grantVars, Idle
<1>7. CASE Settle BY <1>7, SettleFacts DEF Mounted, grantVars, Live
<1>8. CASE LinkStop BY <1>8 DEF LinkStop, Mounted, taskVars, procVars
<1>9. CASE Crash BY <1>9, CrashFacts DEF Mounted, Idle
<1> QED BY <1>2, <1>3, <1>4, <1>5, <1>6, <1>7, <1>8, <1>9, StepParts

\* A new container, or one that stays what it is: nothing but a launch gives an attempt a
\* reader, and it keeps its epoch while it is served.
Starts == Launch /\ ~ box.up
Lasts == /\ box'.epoch = box.epoch /\ (box'.up => box.up)
         /\ rd'.stage # "ended" => rd.stage # "ended"
         /\ Serving' => Serving
         /\ \/ att'.epoch = att.epoch /\ (att.stage \notin Before => att'.stage \notin Before)
            \/ rd'.stage = "ended" /\ ~ Serving'

LEMMA Onwards ==
  ASSUME TypeOK, ReaderSound, Step
  PROVE  Starts \/ Lasts
<1>1. att \in ContextRow BY DEF TypeOK, ContextRow
<1>2. CASE Launch /\ box.up
  <2>1. att'.stage = "releasing" /\ att'.epoch = att.epoch /\ rd' = rd /\ box' = box
    BY <1>1, <1>2 DEF Launch, To, pipeVars, boxVars, ContextRow
  <2> QED BY <2>1 DEF Lasts, Serving, Before
<1>3. CASE Release \/ Crash
  <2>1. att' = Idle /\ rd' = At("ended") BY <1>3 DEF Release, Crash
  <2>2. box'.epoch = box.epoch /\ (box'.up => box.up)
    <3>1. CASE Release BY <3>1 DEF Release, TypeOK
    <3>2. CASE Crash
      <4>1. (box.up /\ transport = "api") \in BOOLEAN OBVIOUS
      <4> QED BY <3>2, <4>1 DEF Crash, TypeOK
    <3> QED BY <1>3, <3>1, <3>2
  <2> QED BY <2>1, <2>2, EndedTyped DEF Lasts, Serving, Idle
<1>4. CASE Recheck
  <2>1. /\ att.stage = "idle" /\ rd' = rd /\ box' = box /\ att'.stage \in {"idle", "assembling"}
    BY <1>4, RecheckFacts DEF Idle, pipeVars, boxVars
  <2> QED BY <2>1 DEF ReaderSound, Reads, Serving, Lasts, Before
<1>5. CASE Resolve
  <2>1. /\ att.stage = "assembling" /\ UNCHANGED <<rd, box>> /\ att'.epoch = att.epoch
        /\ att'.stage \in {"launching", "releasing"}
    BY <1>1, <1>5 DEF Resolve, ContextRow, pipeVars, boxVars
  <2> QED BY <2>1 DEF Lasts, Serving, Before
<1>6. ASSUME box'.epoch = box.epoch, box'.up => box.up, att'.epoch = att.epoch,
             rd'.stage # "ended" => rd.stage # "ended",
             \/ att'.stage = att.stage
             \/ Serving /\ att'.stage \in {"pumping", "settling", "releasing"}
      PROVE  Lasts
  BY <1>6 DEF Lasts, Serving, Before
<1>7. CASE Acknowledge \/ PromptFails \/ Pump \/ EngineDied \/ SettleFails \/ Settle
  <2>1. UNCHANGED <<rd, box>> BY <1>7 DEF Acknowledge, PromptFails, Pump, EngineDied, SettleFails,
        Settle, SettleWith, pipeVars, boxVars
  <2>2. \/ att' = att
        \/ /\ att.stage \in {"prompting", "pumping", "settling"}
           /\ \E st \in {"pumping", "settling", "releasing"} : To(st)
    BY <1>7 DEF Acknowledge, PromptFails, Pump, EngineDied, SettleFails, Settle, SettleWith
  <2>3. \A st \in {"pumping", "settling", "releasing"} :
           To(st) => att'.stage = st /\ att'.epoch = att.epoch
    BY <1>1 DEF To, ContextRow
  <2> QED BY <1>6, <2>1, <2>2, <2>3 DEF Serving
<1>8. CASE GrantMove \/ ProxyCall \/ Claim \/ GiveNoAnswer
  <2>1. UNCHANGED <<att, rd, box>>
    BY <1>8 DEF GrantMove, ProxyCall, Claim, GiveNoAnswer, Create, LoseLease, ChangeKey, WriteKey,
       Switch, Return, LinkScan, LinkWrite, NoProcess, CallWithCached, GrantCheck, GrantIssue,
       GrantRefused, pipeVars, procVars, boxVars
  <2> QED BY <1>6, <2>1
<1>9. CASE ContainerDies
  <2>1. UNCHANGED <<att, rd>> /\ box' = [box EXCEPT !.up = FALSE]
    BY <1>9 DEF ContainerDies, procVars, pipeVars
  <2>2. box'.epoch = box.epoch /\ ~ box'.up BY <2>1 DEF TypeOK
  <2> QED BY <1>6, <2>1, <2>2
<1>10. CASE Speaks BY <1>6, <1>10, Spoken DEF procVars
<1>11. CASE Read
  <2>1. UNCHANGED <<att, box>> BY <1>11 DEF Read, procVars, boxVars
  <2>2. rd.stage # "ended"
    BY <1>11 DEF Read, Reading, Receive, Hungry, SkipWhole, StartDrop, EndDrop, Overrun, Drain,
       TakeLine, Put
  <2> QED BY <1>6, <2>1, <2>2
<1>12. CASE ReadEof
  <2>1. rd'.stage = "ended" BY <1>12, EofFacts, EndedTyped
  <2> QED BY <1>6, <1>12, <2>1, EofFacts DEF procVars, boxVars
<1>13. CASE Persist
  <2>1. att' = att \/ att' = [att EXCEPT !.pending = @ \/ rd.kind = "answer"]
    BY <1>13 DEF Persist
  <2>2. att'.epoch = att.epoch /\ att'.stage = att.stage BY <1>1, <2>1 DEF ContextRow
  <2>3. box' = box /\ rd.stage # "ended" BY <1>13, PersistFacts DEF boxVars
  <2> QED BY <1>6, <2>2, <2>3
<1>14. CASE LinkStop
  <2>1. UNCHANGED <<att, box>> /\ rd' \in {rd, At("ended")} BY <1>14 DEF LinkStop, procVars, boxVars
  <2>2. rd'.stage # "ended" => rd.stage # "ended" BY <2>1, EndedTyped
  <2> QED BY <1>6, <2>1, <2>2
<1> QED BY <1>2, <1>3, <1>4, <1>5, <1>7, <1>8, <1>9, <1>10, <1>11, <1>12, <1>13, <1>14
        DEF Step, Starts, GrantMove, ProxyCall, Speaks

LEMMA StartFacts ==
  ASSUME TypeOK, Starts
  PROVE  /\ att.stage = "launching" /\ att'.stage = "prompting" /\ att'.epoch = att.epoch
         /\ att'.exposes = att.exposes /\ att'.pending = att.pending /\ att' \in ContextRow
         /\ box' = [up |-> TRUE, epoch |-> att.epoch] /\ agent' = FreshAgent
         /\ Stream' = <<>> /\ queue' = <<>> /\ rd' = At("line") /\ rd'.stage = "line"
         /\ UNCHANGED <<taskVars, grantVars, notified, answers, proxyVars, disturbances>>
<1>1. att \in ContextRow BY DEF TypeOK, ContextRow
<1>2. /\ att.stage = "launching" /\ To("prompting")
      /\ box' = [up |-> TRUE, epoch |-> att.epoch] /\ agent' = FreshAgent
      /\ pipe' = <<>> /\ buf' = <<>> /\ queue' = <<>> /\ rd' = At("line")
      /\ UNCHANGED <<taskVars, grantVars, notified, answers, proxyVars, disturbances>>
  BY DEF Starts, Launch
<1>3. /\ att'.stage = "prompting" /\ att'.epoch = att.epoch
      /\ att'.exposes = att.exposes /\ att'.pending = att.pending /\ att' \in ContextRow
  BY <1>1, <1>2 DEF To, ContextRow, Phases
<1>4. Stream' = <<>> BY <1>2 DEF Stream
<1> QED BY <1>2, <1>3, <1>4, EndedTyped

LEMMA ReaderKept ==
  ASSUME TypeOK, ReaderSound, Step
  PROVE  ReaderSound'
<1>1. CASE Starts BY <1>1, StartFacts DEF ReaderSound, Before
<1>2. CASE Lasts BY <1>2 DEF Lasts, ReaderSound, Reads, Before, Serving
<1> QED BY <1>1, <1>2, Onwards

--------------------------------------------------------------------------------
(* Nothing appears on the way that the agent did not write *)

\* An attempt that is served stays where it is, or goes on by the four steps named.
LEMMA ServingSteps ==
  ASSUME TypeOK, Step, Serving'
  PROVE  /\ att'.epoch = att.epoch /\ (att.pending => att'.pending)
         /\ \/ Starts
            \/ Acknowledge /\ att.stage = "prompting" /\ att'.stage = "pumping"
            \/ /\ Pump /\ att.stage = "pumping"
               /\ att'.stage = IF Head(queue) = "settled" THEN "settling" ELSE "pumping"
            \/ att'.stage = att.stage /\ (att' = att \/ Persist)
<1>1. att \in ContextRow BY DEF TypeOK, ContextRow
<1>2. \A st : To(st) => att'.stage = st /\ att'.epoch = att.epoch /\ att'.pending = att.pending
  BY <1>1 DEF To, ContextRow
<1>3. CASE att' = att BY <1>3
<1>4. CASE To("releasing") BY <1>2, <1>4 DEF Serving
<1>5. CASE att' = Idle BY <1>5 DEF Idle, Serving
<1>6. CASE Resolve
  <2>1. att'.stage \in {"launching", "releasing"} BY <1>1, <1>6 DEF Resolve, ContextRow
  <2> QED BY <2>1 DEF Serving
<1>7. CASE Recheck BY <1>7, RecheckFacts DEF Idle, Serving
<1>8. CASE Launch BY <1>4, <1>8, StartFacts DEF Launch, Starts
<1>9. CASE Acknowledge BY <1>2, <1>9 DEF Acknowledge
<1>10. CASE Pump BY <1>2, <1>10 DEF Pump
<1>11. CASE Persist
  <2>1. att' = att \/ att' = [att EXCEPT !.pending = @ \/ rd.kind = "answer"]
    BY <1>11 DEF Persist
  <2>2. att'.stage = att.stage /\ att'.epoch = att.epoch /\ (att.pending => att'.pending)
    BY <1>1, <2>1 DEF ContextRow
  <2> QED BY <1>11, <2>2
<1>12. CASE PromptFails \/ EngineDied \/ SettleFails \/ Settle
  BY <1>4, <1>12 DEF PromptFails, EngineDied, SettleFails, Settle, SettleWith
<1>13. CASE Release \/ Crash BY <1>5, <1>13 DEF Release, Crash
<1>14. CASE GrantMove \/ ProxyCall \/ Claim \/ GiveNoAnswer \/ ContainerDies \/ Read \/ ReadEof
            \/ LinkStop
  BY <1>3, <1>14 DEF GrantMove, ProxyCall, Claim, GiveNoAnswer, ContainerDies, Read, ReadEof,
     LinkStop, Create, LoseLease, ChangeKey, WriteKey, Switch, Return, LinkScan, LinkWrite,
     NoProcess, CallWithCached, GrantCheck, GrantIssue, GrantRefused, procVars
<1>15. CASE Speaks BY <1>3, <1>15, Spoken DEF procVars
<1> QED BY <1>6, <1>7, <1>8, <1>9, <1>10, <1>11, <1>12, <1>13, <1>14, <1>15
        DEF Step, GrantMove, ProxyCall, Speaks

LEMMA SettlingStarts ==
  ASSUME TypeOK, Step, att'.stage = "settling"
  PROVE  att.stage = "settling" \/ (Pump /\ Head(queue) = "settled")
<1>1. Serving' BY DEF Serving
<1> QED BY <1>1, ServingSteps, StartFacts

\* Nothing new is under way.
NoneAppears == /\ Coming' => Coming
               /\ Answering' => Answering
               /\ Len(Stream') > 0 => Stream'[Len(Stream')].last
               /\ rd'.stage = "persist" => rd'.kind # "settled"

LEMMA OnwardUnits ==
  ASSUME PipeTypeOK, Stream' \in Seq(Units), NEW m, Shorten(Stream, Stream', m)
  PROVE  /\ \A h \in DOMAIN Stream' : h + m \in DOMAIN Stream /\ Stream'[h] = Stream[h + m]
         /\ Len(Stream') > 0 =>
              Len(Stream) > 0 /\ Stream'[Len(Stream')] = Stream[Len(Stream)]
<1>1. Stream \in Seq(Units) BY StreamTyped
<1>2. /\ m \in Nat /\ m <= Len(Stream) /\ Len(Stream') = Len(Stream) - m
      /\ \A h \in 1 .. Len(Stream') : Stream'[h] = Stream[h + m]
  BY DEF Shorten
<1>3. Len(Stream) \in Nat /\ Len(Stream') \in Nat BY <1>1
<1>4. ASSUME NEW h \in DOMAIN Stream' PROVE h + m \in DOMAIN Stream /\ Stream'[h] = Stream[h + m]
  <2>1. h \in 1 .. Len(Stream') OBVIOUS
  <2> QED BY <1>1, <1>2, <1>3, <2>1
<1>5. Len(Stream') > 0 => Len(Stream') \in DOMAIN Stream' BY <1>3
<1> QED BY <1>2, <1>3, <1>4, <1>5

LEMMA QueueAppended ==
  ASSUME queue \in Seq(Kinds), NEW k \in Kinds, queue' = Append(queue, k)
  PROVE  /\ (InQueue => InQueue') /\ (InQueue' => InQueue \/ k = "settled")
         /\ (k = "settled" => InQueue')
<1>1. Len(queue) \in Nat /\ Len(queue') = Len(queue) + 1 /\ queue'[Len(queue) + 1] = k
      /\ \A h \in 1 .. Len(queue) : queue'[h] = queue[h]
      /\ DOMAIN queue = 1 .. Len(queue) /\ DOMAIN queue' = 1 .. Len(queue) + 1
  OBVIOUS
<1> QED BY <1>1 DEF InQueue

LEMMA OnwardComing ==
  ASSUME PipeTypeOK, Stream' \in Seq(Units), Onward, Said,
         att'.stage = "settling" => att.stage = "settling"
  PROVE  NoneAppears
<1>1. PICK m \in Nat : Shorten(Stream, Stream', m) /\ (Passes(m) \/ Takes(m) \/ Hands(m))
  BY DEF Onward
<1>2. /\ \A h \in DOMAIN Stream' : h + m \in DOMAIN Stream /\ Stream'[h] = Stream[h + m]
      /\ Len(Stream') > 0 => Len(Stream) > 0 /\ Stream'[Len(Stream')] = Stream[Len(Stream)]
  BY <1>1, OnwardUnits
<1>3. queue \in Seq(Kinds) /\ "delta" \in Kinds /\ rd.kind \in Kinds
  BY DEF PipeTypeOK, Reader, Kinds
<1>4. /\ At("line").stage = "line"
      /\ \A st \in Stages, k \in Kinds : With(st, k).stage = st /\ With(st, k).kind = k
  BY ReaderTyped DEF Stages, Kinds
<1>5. CASE Passes(m)
  <2>1. InQueue' => InQueue
    <3>1. CASE queue' = queue BY <3>1 DEF InQueue
    <3>2. CASE queue' = Append(queue, "delta") BY <3>2, <1>3, QueueAppended
    <3> QED BY <3>1, <3>2, <1>5 DEF Passes
  <2>2. rd'.stage \notin {"persist", "put"} BY <1>5 DEF Passes
  <2>3. (Coming' => Coming) /\ (Answering' => Answering)
    BY <1>2, <2>1, <2>2 DEF Coming, Ending, Answering, Persisting
  <2> QED BY <1>2, <2>2, <2>3 DEF NoneAppears, Said
<1>6. CASE Takes(m)
  <2>1. PICK u : u = Stream[1] OBVIOUS
  <2>2. /\ u.first /\ queue' = queue
        /\ \/ u.kind \in {"tool", "answer"} /\ rd' = With("persist", u.kind)
           \/ u.kind = "settled" /\ rd' = With("put", "settled")
    BY <1>6, <2>1 DEF Takes
  <2>3. 1 \in DOMAIN Stream
    <3>1. m > 0 /\ m <= Len(Stream) BY <1>6 DEF Takes
    <3>2. Stream \in Seq(Units) BY StreamTyped
    <3> QED BY <3>1, <3>2
  <2>4. \/ u.kind = "tool" /\ rd'.stage = "persist" /\ rd'.kind = "tool"
        \/ u.kind = "answer" /\ rd'.stage = "persist" /\ rd'.kind = "answer"
        \/ u.kind = "settled" /\ rd'.stage = "put" /\ rd'.kind = "settled"
    BY <1>4, <2>2 DEF Stages, Kinds
  <2>5. InQueue' => InQueue BY <2>2 DEF InQueue
  <2>6. (Coming' => Coming) /\ (Answering' => Answering)
    BY <1>2, <2>1, <2>2, <2>3, <2>4, <2>5 DEF Coming, Ending, Answering, Persisting, IsAnswer
  <2> QED BY <1>2, <2>4, <2>6 DEF NoneAppears, Said
<1>7. CASE Hands(m)
  <2>1. rd.stage = "put" /\ rd'.stage = "line" /\ queue' = Append(queue, rd.kind)
    BY <1>4, <1>7 DEF Hands
  <2>2. InQueue' => InQueue \/ rd.kind = "settled" BY <2>1, <1>3, QueueAppended
  <2>3. (Coming' => Coming) /\ (Answering' => Answering)
    BY <1>2, <2>1, <2>2 DEF Coming, Ending, Answering, Persisting
  <2> QED BY <1>2, <2>1, <2>3 DEF NoneAppears, Said
<1> QED BY <1>1, <1>5, <1>6, <1>7

LEMMA PumpQueue ==
  ASSUME PipeTypeOK, Pump
  PROVE  /\ queue' = Tail(queue) /\ UNCHANGED <<pipe, buf, rd>>
         /\ InQueue' => InQueue
         /\ InQueue => InQueue' \/ Head(queue) = "settled"
         /\ Head(queue) = "settled" => InQueue
<1>1. queue \in Seq(Kinds) /\ queue # <<>> BY DEF PipeTypeOK, Pump
<1>2. queue' = Tail(queue) /\ UNCHANGED <<pipe, buf, rd>> BY DEF Pump
<1>3. PICK q : q = Tail(queue) OBVIOUS
<1>4. /\ Len(queue) \in Nat /\ Len(queue) > 0 /\ q \in Seq(Kinds) /\ Len(q) = Len(queue) - 1
      /\ \A h \in 1 .. Len(q) : q[h] = queue[h + 1]
      /\ Head(queue) = queue[1] /\ DOMAIN queue = 1 .. Len(queue) /\ DOMAIN q = 1 .. Len(q)
  BY <1>1, <1>3
<1>5. InQueue' => InQueue
  <2>1. ASSUME NEW h \in DOMAIN q, q[h] = "settled" PROVE InQueue
    <3>1. h + 1 \in DOMAIN queue BY <1>4
    <3> QED BY <3>1, <2>1, <1>4 DEF InQueue
  <2> QED BY <2>1, <1>2, <1>3 DEF InQueue
<1>6. InQueue => InQueue' \/ Head(queue) = "settled"
  <2>1. ASSUME NEW h \in DOMAIN queue, queue[h] = "settled", h # 1 PROVE InQueue'
    <3>1. PICK g : g = h - 1 OBVIOUS
    <3>2. g \in DOMAIN q /\ h = g + 1 BY <3>1, <2>1, <1>4
    <3>3. q[g] = "settled" BY <3>2, <2>1, <1>4
    <3> QED BY <3>2, <3>3, <1>2, <1>3 DEF InQueue
  <2> QED BY <2>1, <1>4 DEF InQueue
<1>7. Head(queue) = "settled" => InQueue
  <2>1. 1 \in DOMAIN queue BY <1>4
  <2> QED BY <2>1, <1>4 DEF InQueue
<1> QED BY <1>2, <1>5, <1>6, <1>7

LEMMA NoneAppear ==
  ASSUME TypeOK, DropSound, Said, Next, ~ Speaks
  PROVE  NoneAppears
<1>1. /\ Step /\ PipeTypeOK /\ PipeTypeOK' /\ UNCHANGED transport
  BY NextPipe DEF Next, TypeOK
<1>2. Stream' \in Seq(Units) BY <1>1, Joined DEF PipeTypeOK, Stream
<1>3. att'.stage = "settling" => att.stage = "settling" \/ (Pump /\ Head(queue) = "settled")
  BY <1>1, SettlingStarts
<1>4. ASSUME UNCHANGED <<pipe, buf>>, ~ Pump, (InQueue' => InQueue),
             \/ rd' = rd
             \/ rd'.stage \notin {"persist", "put"}
             \/ rd.stage = "persist" /\ rd'.stage = "put" /\ rd'.kind = rd.kind
      PROVE  NoneAppears
  <2>1. Stream' = Stream BY <1>4 DEF Stream
  <2>2. Ending' => Ending
    BY <1>3, <1>4 DEF Ending, Said
  <2>3. (Coming' => Coming) /\ (Answering' => Answering)
    BY <1>4, <2>1, <2>2 DEF Coming, Answering, Persisting
  <2> QED BY <1>4, <2>1, <2>3 DEF NoneAppears, Said
<1>5. CASE Quiet
  <2>1. UNCHANGED <<pipe, buf, rd, queue>> BY <1>5, QuietPipe DEF pipeVars
  <2>2. InQueue' => InQueue BY <2>1 DEF InQueue
  <2>3. CASE Pump
    <3>1. queue' = Tail(queue) /\ queue # <<>> /\ queue \in Seq(Kinds)
      BY <1>1, <2>3 DEF Pump, PipeTypeOK
    <3>2. Len(Tail(queue)) # Len(queue) BY <3>1
    <3> QED BY <2>1, <3>1, <3>2
  <2> QED BY <1>4, <2>1, <2>2, <2>3
<1>6. CASE Empties
  <2>1. pipe' = <<>> /\ buf' = <<>> /\ queue' = <<>> BY <1>6, EmptiesPipe
  <2>2. Stream' = <<>> /\ Len(Stream') = 0 /\ DOMAIN Stream' = {} BY <2>1 DEF Stream
  <2>3. rd'.stage \in {"line", "ended"} BY <1>6, EndedTyped DEF Empties
  <2>4. att'.stage # "settling"
    <3>1. CASE Launch /\ ~ box.up BY <3>1, StartFacts DEF Starts
    <3>2. CASE Release \/ Crash BY <3>2 DEF Release, Crash, Idle
    <3> QED BY <1>6, <3>1, <3>2 DEF Empties
  <2>5. ~ InQueue' BY <2>1 DEF InQueue
  <2> QED BY <2>2, <2>3, <2>4, <2>5 DEF NoneAppears, Coming, Ending, Answering, Persisting
<1>7. CASE Read
  <2>1. ReadTyped /\ att' = att BY <1>1, <1>7, ReadingReads DEF Read, procVars
  <2> QED BY <1>1, <1>2, <2>1, OnwardComing DEF ReadTyped
<1>8. CASE Acknowledge
  <2>1. ReadTyped BY <1>1, <1>8, AckReads DEF Acknowledge
  <2>2. att'.stage # "settling" BY <1>8 DEF Acknowledge, To, TypeOK
  <2> QED BY <1>1, <1>2, <2>1, <2>2, OnwardComing DEF ReadTyped
<1>9. CASE Persist
  <2>1. rd.kind \in Kinds /\ "put" \in Stages BY <1>1 DEF PipeTypeOK, Reader, Stages
  <2>2. rd.stage = "persist" /\ rd'.stage = "put" /\ rd'.kind = rd.kind
        /\ UNCHANGED <<pipe, buf, queue>>
    BY <1>9, <2>1, PersistFacts, ReaderTyped
  <2>3. ~ Pump
    <3>1. Pump => queue' = Tail(queue) /\ queue # <<>> /\ queue \in Seq(Kinds)
      BY <1>1 DEF Pump, PipeTypeOK
    <3>2. Pump => Len(Tail(queue)) # Len(queue) BY <3>1
    <3> QED BY <2>2, <3>1, <3>2
  <2>4. InQueue' => InQueue BY <2>2 DEF InQueue
  <2> QED BY <1>4, <2>2, <2>3, <2>4
<1>10. CASE Pump
  <2>1. /\ UNCHANGED <<pipe, buf, rd>> /\ (InQueue' => InQueue)
        /\ (Head(queue) = "settled" => InQueue)
    BY <1>1, <1>10, PumpQueue
  <2>2. Stream' = Stream BY <2>1 DEF Stream
  <2>3. Ending' => Ending BY <1>3, <2>1 DEF Ending
  <2> QED BY <2>1, <2>2, <2>3 DEF NoneAppears, Coming, Answering, Persisting, Said
<1>11. CASE ReadEof
  <2>1. rd'.stage = "ended" /\ pipe' = <<>> /\ buf' = <<>> /\ queue' = queue /\ att' = att
    BY <1>11, EofFacts, EndedTyped DEF procVars
  <2>2. Stream' = <<>> /\ Len(Stream') = 0 /\ DOMAIN Stream' = {} BY <2>1 DEF Stream
  <2> QED BY <2>1, <2>2 DEF NoneAppears, Coming, Ending, InQueue, Answering, Persisting
<1>12. CASE LinkStop
  <2>1. UNCHANGED <<pipe, buf, queue, att>> /\ rd' \in {rd, At("ended")}
    BY <1>12 DEF LinkStop, procVars
  <2>2. ~ Pump
    <3>1. Pump => queue' = Tail(queue) /\ queue # <<>> /\ queue \in Seq(Kinds)
      BY <1>1 DEF Pump, PipeTypeOK
    <3>2. Pump => Len(Tail(queue)) # Len(queue) BY <3>1
    <3> QED BY <2>1, <3>1, <3>2
  <2>3. InQueue' => InQueue BY <2>1 DEF InQueue
  <2> QED BY <1>4, <2>1, <2>2, <2>3, EndedTyped
<1> QED BY <1>1, <1>5, <1>6, <1>7, <1>8, <1>9, <1>10, <1>11, <1>12, StepKinds

LEMMA AgentSteps ==
  ASSUME Step
  PROVE  agent' = agent \/ Speaks \/ (GiveNoAnswer /\ pipeVars' = pipeVars) \/ Starts
BY DEF Step, Recheck, Claim, Resolve, Launch, Acknowledge, PromptFails, Read, ReadEof, Persist,
       Pump, EngineDied, Settle, SettleWith, SettleFails, Release, Speaks, GiveNoAnswer,
       ContainerDies, Create, LoseLease, ChangeKey, WriteKey, Switch, Return, LinkScan, LinkStop,
       LinkWrite, Crash, NoProcess, CallWithCached, GrantCheck, GrantIssue, GrantRefused, boxVars,
       Starts

\* What becomes of a settled round, and how a round comes to be settled.
LEMMA SettledRound ==
  ASSUME TypeOK, Books, Step
  PROVE  \/ round'.state = "settled" <=> round.state = "settled"
         \/ Settle /\ Fenced
BY InsideFacts, GrantMoveTyped, ProxyFacts, ClaimFacts, RecheckFacts, SettleFacts, CrashFacts,
   StepParts DEF taskVars, Loses, LinkStop

\* What the agent writes comes after what it wrote.
LEMMA NewUnits ==
  ASSUME NEW s \in Seq(Units), NEW t \in Seq(Units), NEW k, NEW n, Extended(s, t, k, n)
  PROVE  /\ n \in Nat /\ n > 0 /\ Len(s) \in Nat /\ Len(t) = Len(s) + n
         /\ \A h \in DOMAIN s : h \in 1 .. Len(s) /\ h \in DOMAIN t /\ t[h] = s[h]
         /\ \A v \in 1 .. n : /\ Len(s) + v \in DOMAIN t
                              /\ t[Len(s) + v].kind = k /\ (t[Len(s) + v].first <=> v = 1)
                              /\ (t[Len(s) + v].last <=> v = n)
         /\ \A h \in DOMAIN t :
               \/ h \in DOMAIN s
               \/ /\ h \in Nat /\ h > Len(s) /\ t[h].kind = k
                  /\ (t[h].first <=> h = Len(s) + 1)
<1>1. /\ n \in Nat /\ n > 0 /\ Len(s) \in Nat /\ Len(t) = Len(s) + n
      /\ DOMAIN s = 1 .. Len(s) /\ DOMAIN t = 1 .. Len(t)
  BY PipeAssumption DEF Extended
<1>2. \A h \in DOMAIN s : h \in 1 .. Len(s) /\ h \in DOMAIN t /\ t[h] = s[h] BY <1>1 DEF Extended
<1>3. ASSUME NEW v \in 1 .. n
      PROVE  /\ Len(s) + v \in DOMAIN t
             /\ t[Len(s) + v].kind = k /\ (t[Len(s) + v].first <=> v = 1)
             /\ (t[Len(s) + v].last <=> v = n)
  <2>1. PICK u : u = t[Len(s) + v] OBVIOUS
  <2>2. u = [kind |-> k, first |-> v = 1, last |-> v = n] BY <2>1 DEF Extended
  <2>3. u.kind = k /\ (u.first <=> v = 1) /\ (u.last <=> v = n) BY <2>2
  <2> QED BY <1>1, <2>1, <2>3
<1>4. ASSUME NEW h \in DOMAIN t, h \notin DOMAIN s
      PROVE  h \in Nat /\ h > Len(s) /\ t[h].kind = k /\ (t[h].first <=> h = Len(s) + 1)
  <2>1. PICK v : v = h - Len(s) OBVIOUS
  <2>2. v \in 1 .. n /\ h = Len(s) + v /\ h \in Nat /\ h > Len(s) BY <1>1, <1>4, <2>1
  <2>3. t[h].kind = k /\ (t[h].first <=> v = 1) BY <1>3, <2>2
  <2> QED BY <1>1, <2>2, <2>3
<1> QED BY <1>1, <1>2, <1>3, <1>4

LEMMA NewUnit ==
  ASSUME NEW s \in Seq(Units), NEW t \in Seq(Units), NEW k, NEW n, Extended(s, t, k, n),
         NEW h \in DOMAIN t
  PROVE  \/ h \in DOMAIN s /\ t[h] = s[h]
         \/ /\ h \in Nat /\ h > Len(s) /\ t[h].kind = k /\ (t[h].first <=> h = Len(s) + 1)
BY NewUnits

LEMMA WholeStays ==
  ASSUME NEW s \in Seq(Units), NEW t \in Seq(Units), NEW k, NEW n, Extended(s, t, k, n),
         NEW q, NEW i \in DOMAIN s, NEW j \in DOMAIN s, Whole(s, q, i, j)
  PROVE  i \in DOMAIN t /\ j \in DOMAIN t /\ Whole(t, q, i, j)
<1>1. /\ n \in Nat /\ n > 0 /\ Len(s) \in Nat /\ Len(t) = Len(s) + n
      /\ \A h \in DOMAIN s : h \in 1 .. Len(s) /\ h \in DOMAIN t /\ t[h] = s[h]
      /\ DOMAIN s = 1 .. Len(s)
  BY NewUnits
<1>2. /\ 1 <= i /\ i <= j /\ j <= Len(s) /\ j < i + Limit
      /\ s[i].first /\ s[i].kind = q /\ s[j].last /\ \A h \in i .. j - 1 : ~ s[h].last
      /\ i = 1 \/ s[i - 1].last
  BY DEF Whole
<1>3. \A h \in i .. j - 1 : h \in DOMAIN s BY <1>1, <1>2
<1>4. i = 1 \/ i - 1 \in DOMAIN s BY <1>1, <1>2
<1>5. j <= Len(t) BY <1>1, <1>2
<1> QED BY <1>1, <1>2, <1>3, <1>4, <1>5 DEF Whole

LEMMA NewLine ==
  ASSUME NEW s \in Seq(Units), NEW t \in Seq(Units), NEW k, NEW n, Extended(s, t, k, n),
         n <= Limit, Len(s) > 0 => s[Len(s)].last
  PROVE  Len(s) + 1 \in DOMAIN t /\ Len(s) + n \in DOMAIN t
         /\ Whole(t, k, Len(s) + 1, Len(s) + n)
<1> USE PipeAssumption
<1>1. /\ n \in Nat /\ n > 0 /\ Len(s) \in Nat /\ Len(t) = Len(s) + n
      /\ \A h \in DOMAIN s : h \in 1 .. Len(s) /\ h \in DOMAIN t /\ t[h] = s[h]
      /\ DOMAIN s = 1 .. Len(s)
      /\ \A v \in 1 .. n : /\ Len(s) + v \in DOMAIN t
                           /\ t[Len(s) + v].kind = k /\ (t[Len(s) + v].first <=> v = 1)
                           /\ (t[Len(s) + v].last <=> v = n)
  BY NewUnits
<1>2. PICK i, j : i = Len(s) + 1 /\ j = Len(s) + n OBVIOUS
<1>3. 1 \in 1 .. n /\ n \in 1 .. n BY <1>1
<1>4. i \in DOMAIN t /\ j \in DOMAIN t /\ t[i].first /\ t[i].kind = k /\ t[j].last
  BY <1>1, <1>2, <1>3
<1>5. ASSUME NEW h \in i .. j - 1 PROVE ~ t[h].last
  <2>1. PICK v : v = h - Len(s) OBVIOUS
  <2>2. v \in 1 .. n /\ v # n /\ h = Len(s) + v BY <1>1, <1>2, <2>1
  <2> QED BY <1>1, <2>2
<1>6. i = 1 \/ t[i - 1].last
  <2>1. CASE Len(s) > 0
    <3>1. Len(s) \in DOMAIN s /\ i - 1 = Len(s) BY <1>1, <1>2, <2>1
    <3> QED BY <1>1, <2>1, <3>1
  <2> QED BY <1>1, <1>2, <2>1
<1>7. 1 <= i /\ i <= j /\ j <= Len(t) /\ j < i + Limit BY <1>1, <1>2
<1> QED BY <1>2, <1>4, <1>5, <1>6, <1>7 DEF Whole

LEMMA SaidKept ==
  ASSUME TypeOK, DropSound, Books, Said, Next
  PROVE  Said'
<1>1. Step /\ PipeTypeOK /\ PipeTypeOK' BY NextPipe DEF Next, TypeOK
<1>2. CASE Speaks
  <2>1. PICK k \in Kinds, n \in Sizes :
           /\ Write(k, n) /\ box.up
           /\ UNCHANGED <<buf, rd, queue, taskVars, procVars>>
           /\ \/ /\ k \in {"ack", "delta", "tool"} /\ agent.pc \in {"prompted", "working"}
                 /\ agent'.pc = "working" /\ agent'.answer = agent.answer
              \/ /\ k = "answer" /\ agent.pc = "working" /\ agent'.pc = "answered"
                 /\ agent'.answer = IF n <= Limit THEN "whole" ELSE "lost"
              \/ /\ k = "settled" /\ n = 1 /\ agent.pc = "answered" /\ agent'.pc = "settled"
                 /\ agent'.answer = agent.answer
    BY <1>2, Spoken
  <2>2. round' = round /\ att' = att BY <2>1 DEF taskVars, procVars
  <2>3. \/ Stream' = Stream
        \/ Stream' \in Seq(Units) /\ Extended(Stream, Stream', k, n)
    BY <1>1, <2>1, WriteExtends
  <2>4. Stream \in Seq(Units) /\ Stream' \in Seq(Units)
    BY <1>1, Joined DEF PipeTypeOK, Stream
  <2>5. ASSUME NEW h \in DOMAIN Stream'
        PROVE  \/ h \in DOMAIN Stream /\ Stream'[h] = Stream[h]
               \/ Stream'[h].kind = k
    <3>1. CASE Stream' = Stream BY <2>5, <3>1
    <3>2. CASE Extended(Stream, Stream', k, n) BY <2>4, <3>2, NewUnits
    <3> QED BY <2>3, <3>1, <3>2
  <2>6. Len(Stream') > 0 => Stream'[Len(Stream')].last
    <3>1. CASE Stream' = Stream BY <3>1 DEF Said
    <3>2. CASE Extended(Stream, Stream', k, n)
      <4>1. n \in 1 .. n /\ Len(Stream') = Len(Stream) + n BY <2>4, <3>2, NewUnits
      <4> QED BY <2>4, <3>2, <4>1, NewUnits
    <3> QED BY <2>3, <3>1, <3>2
  <2>7. Coming' => Coming \/ k = "settled"
    <3>1. Ending' => Ending BY <2>1, <2>2 DEF Ending, InQueue
    <3> QED BY <2>5, <3>1 DEF Coming
  <2>8. Answering' => Answering \/ k = "answer"
    <3>1. Persisting' => Persisting BY <2>1 DEF Persisting
    <3> QED BY <2>5, <3>1 DEF Answering, IsAnswer
  <2> QED BY <2>1, <2>2, <2>6, <2>7, <2>8 DEF Said
<1>3. CASE ~ Speaks
  <2>1. NoneAppears BY <1>3, NoneAppear
  <2>2. CASE Starts
    <3>1. /\ Stream' = <<>> /\ queue' = <<>> /\ rd'.stage = "line" /\ att'.stage = "prompting"
          /\ agent' = FreshAgent /\ round' = round /\ att.stage = "launching"
      BY <2>2, StartFacts DEF taskVars
    <3>2. ~ Coming' /\ ~ Answering'
      BY <3>1 DEF Coming, Answering, Ending, InQueue, Persisting
    <3> QED BY <2>1, <3>1, <3>2 DEF Said, NoneAppears, Books, FreshAgent
  <2>3. CASE ~ Starts
    <3>1. \/ agent' = agent
          \/ /\ agent.pc = "working" /\ agent'.pc = "answered" /\ agent'.answer = agent.answer
      <4>1. GiveNoAnswer =>
              agent.pc = "working" /\ agent'.pc = "answered" /\ agent'.answer = agent.answer
        BY DEF GiveNoAnswer, TypeOK
      <4> QED BY <1>1, <1>3, <2>3, <4>1, AgentSteps
    <3>2. round'.state = "settled" => agent.pc = "settled"
      <4>1. Settle => Ending BY DEF Settle, SettleWith, Ending
      <4> QED BY <1>1, <4>1, SettledRound DEF Said, Coming
    <3> QED BY <2>1, <3>1, <3>2 DEF Said, NoneAppears
  <2> QED BY <2>2, <2>3
<1> QED BY <1>2, <1>3

--------------------------------------------------------------------------------
(* The end of the round *)

LEMMA OnwardEnd ==
  ASSUME PipeTypeOK, Onward, transport = "api", att.stage = "settling" => att'.stage = "settling",
         Ending \/ \E i, j \in DOMAIN Stream : Whole(Stream, "settled", i, j)
  PROVE  Ending' \/ \E i, j \in DOMAIN Stream' : Whole(Stream', "settled", i, j)
<1>1. PICK m \in Nat : Shorten(Stream, Stream', m) /\ (Passes(m) \/ Takes(m) \/ Hands(m))
  BY DEF Onward
<1>2. queue \in Seq(Kinds) /\ "delta" \in Kinds /\ rd.kind \in Kinds
  BY DEF PipeTypeOK, Reader, Kinds
<1>3. InQueue => InQueue'
  <2>1. CASE queue' = queue BY <2>1 DEF InQueue
  <2>2. CASE \E k \in Kinds : queue' = Append(queue, k) BY <2>2, <1>2, QueueAppended
  <2> QED BY <1>1, <1>2, <2>1, <2>2 DEF Passes, Takes, Hands
<1>4. CASE Keeps(m, "settled") /\ \E i, j \in DOMAIN Stream : Whole(Stream, "settled", i, j)
  BY <1>4 DEF Keeps
<1>5. CASE InQueue \/ att.stage = "settling" BY <1>3, <1>5 DEF Ending
<1>6. CASE Passes(m) BY <1>4, <1>5, <1>6 DEF Passes, Ending
<1>7. CASE Takes(m)
  <2>1. PICK u : u = Stream[1] OBVIOUS
  <2>2. CASE u.kind = "settled"
    <3>1. rd' = With("put", "settled") BY <1>7, <2>1, <2>2 DEF Takes
    <3>2. rd'.stage = "put" /\ rd'.kind = "settled" BY <3>1, ReaderTyped DEF Stages, Kinds
    <3> QED BY <3>2 DEF Ending
  <2>3. CASE u.kind # "settled"
    <3>1. Keeps(m, "settled") /\ rd.stage = "line" BY <1>7, <2>1, <2>3 DEF Takes
    <3> QED BY <1>4, <1>5, <3>1 DEF Ending
  <2> QED BY <2>2, <2>3
<1>8. CASE Hands(m)
  <2>1. rd.stage = "put" /\ queue' = Append(queue, rd.kind) /\ Keeps(m, "settled")
    BY <1>8 DEF Hands
  <2>2. rd.kind = "settled" => InQueue' BY <1>2, <2>1, QueueAppended
  <2> QED BY <1>4, <1>5, <2>1, <2>2 DEF Ending
<1> QED BY <1>1, <1>6, <1>7, <1>8

LEMMA EndAheadKept ==
  ASSUME TypeOK, DropSound, ReaderSound, Said, EndAhead, Next
  PROVE  EndAhead'
<1> USE PipeAssumption
<1>1. Step /\ PipeTypeOK /\ UNCHANGED transport BY DEF Next, TypeOK
<1>2. SUFFICES ASSUME transport = "api", Attached', agent'.pc = "settled"
               PROVE  Ending' \/ \E i, j \in DOMAIN Stream' : Whole(Stream', "settled", i, j)
  BY <1>1 DEF EndAhead
<1>3. Serving' /\ rd'.stage # "ended" BY <1>2 DEF Attached, Serving
<1>4. ~ Starts BY <1>2, StartFacts DEF FreshAgent
<1>5. Lasts BY <1>1, <1>4, Onwards
<1>6. Attached BY <1>2, <1>3, <1>5 DEF Lasts, Attached, Serving
<1>7. CASE Speaks
  <2>1. PICK k \in Kinds, n \in Sizes :
           Write(k, n) /\ UNCHANGED <<buf, rd, queue>> /\ k = "settled" /\ n = 1
    BY <1>2, <1>7, Spoken
  <2>2. Stream' \in Seq(Units) /\ Extended(Stream, Stream', k, n)
    BY <1>1, <1>6, <2>1, WriteExtends
  <2>3. Stream \in Seq(Units) /\ (Len(Stream) > 0 => Stream[Len(Stream)].last)
    BY <1>1, StreamTyped DEF Said
  <2>4. n <= Limit BY <2>1
  <2> QED BY <2>1, <2>2, <2>3, <2>4, NewLine
<1>8. CASE ~ Speaks
  <2>1. agent.pc = "settled"
    <3>1. GiveNoAnswer => agent'.pc = "answered" BY DEF GiveNoAnswer, TypeOK
    <3> QED BY <1>1, <1>2, <1>4, <1>8, <3>1, AgentSteps
  <2>2. Ending \/ \E i, j \in DOMAIN Stream : Whole(Stream, "settled", i, j)
    BY <1>2, <1>6, <2>1 DEF EndAhead
  <2>3. CASE Acknowledge
    <3>1. ReadTyped /\ att.stage # "settling" BY <1>1, <2>3, AckReads DEF Acknowledge
    <3> QED BY <1>1, <1>2, <2>2, <3>1, OnwardEnd DEF ReadTyped
  <2>4. CASE Pump
    <3>1. /\ UNCHANGED <<pipe, buf, rd>> /\ (InQueue => InQueue' \/ Head(queue) = "settled")
      BY <1>1, <2>4, PumpQueue
    <3>2. Stream' = Stream BY <3>1 DEF Stream
    <3>3. Head(queue) = "settled" => att'.stage = "settling" BY <2>4 DEF Pump, To, TypeOK
    <3>4. att.stage # "settling" BY <2>4 DEF Pump
    <3> QED BY <2>2, <3>1, <3>2, <3>3, <3>4 DEF Ending
  <2>5. CASE att'.stage = att.stage
    <3>1. CASE Quiet \/ LinkStop
      <4>1. UNCHANGED <<pipe, buf, queue>> /\ rd' \in {rd, At("ended")}
        BY <3>1, QuietPipe DEF pipeVars, LinkStop
      <4>2. Stream' = Stream /\ rd' = rd BY <1>3, <4>1, EndedTyped DEF Stream
      <4> QED BY <2>2, <2>5, <4>1, <4>2 DEF Ending, InQueue
    <3>2. CASE Empties
      <4>1. rd' = At("ended") BY <1>4, <3>2 DEF Empties, Starts
      <4> QED BY <1>3, <4>1, EndedTyped
    <3>3. CASE Read
      <4>1. ReadTyped BY <1>1, <3>3, ReadingReads DEF Read
      <4> QED BY <1>1, <1>2, <2>2, <2>5, <4>1, OnwardEnd DEF ReadTyped
    <3>4. CASE Persist
      <4>1. rd.stage = "persist" /\ UNCHANGED <<pipe, buf, queue>> BY <3>4, PersistFacts
      <4>2. Stream' = Stream BY <4>1 DEF Stream
      <4> QED BY <2>2, <2>5, <4>1, <4>2 DEF Ending, InQueue
    <3>5. CASE ReadEof BY <1>3, <3>5, EofFacts, EndedTyped
    <3> QED BY <1>1, <1>8, <2>3, <2>4, <3>1, <3>2, <3>3, <3>4, <3>5, StepKinds
  <2> QED BY <1>1, <1>3, <1>4, <2>3, <2>4, <2>5, ServingSteps
<1> QED BY <1>7, <1>8

--------------------------------------------------------------------------------
(* The answer *)

\* A fact is written once, by the reader that holds it, or made up by settle.
LEMMA AnswersGrow ==
  ASSUME TypeOK, Books, Step
  PROVE  \/ answers' = answers
         \/ /\ Fenced /\ answers' = [answers EXCEPT ![att.epoch] = @ + 1]
            /\ \/ Persist /\ Persisting
               \/ Settle /\ att.pending
<1>1. CASE Persist BY <1>1 DEF Persist, Persisting, Stored
<1>2. CASE Settle BY <1>2, SettleFacts DEF Stored
<1>3. CASE Speaks BY <1>3, Spoken
<1>4. CASE ~ (Persist \/ Settle \/ Speaks)
  BY <1>4 DEF Step, Recheck, Claim, Resolve, Launch, Acknowledge, PromptFails, Read, ReadEof,
       Pump, EngineDied, SettleFails, Release, Speaks, GiveNoAnswer,
       ContainerDies, Create, LoseLease, ChangeKey, WriteKey, Switch, Return, LinkScan, LinkStop,
       LinkWrite, Crash, NoProcess, CallWithCached, GrantCheck, GrantIssue, GrantRefused
<1> QED BY <1>1, <1>2, <1>3, <1>4

\* A lease that an attempt has lost does not come back to it.
LEMMA FenceLost ==
  ASSUME TypeOK, Books, Step, att'.epoch = att.epoch, Fenced'
  PROVE  Fenced
<1>1. CASE Inside BY <1>1, InsideFacts DEF taskVars, Fenced
<1>2. CASE GrantMove BY <1>2, GrantMoveTyped DEF Loses, Fenced
<1>3. CASE ProxyCall BY <1>3, ProxyFacts DEF taskVars, Fenced
<1>4. CASE Claim
  <2>1. att.epoch <= round.epoch /\ round.epoch \in Nat /\ att.epoch \in Nat
        /\ round'.epoch = round.epoch + 1
    BY <1>4, ClaimFacts DEF TypeOK, GrantTypeOK, Books
  <2> QED BY <2>1 DEF Fenced
<1>5. CASE Recheck BY <1>5, RecheckFacts DEF taskVars, Fenced
<1>6. CASE Settle BY <1>6, SettleFacts DEF Fenced
<1>7. CASE LinkStop BY <1>7 DEF LinkStop, taskVars, Fenced
<1>8. CASE Crash BY <1>8, CrashFacts DEF Fenced
<1> QED BY <1>1, <1>2, <1>3, <1>4, <1>5, <1>6, <1>7, <1>8, StepParts

LEMMA ServingEpoch ==
  ASSUME TypeOK, Books, att.stage # "idle"
  PROVE  att.epoch \in Attempts
BY GrantAssumption DEF TypeOK, Books, Attempts

LEMMA SafeStays ==
  ASSUME TypeOK, Books, Step, Serving', AnswerSafe
  PROVE  AnswerSafe'
<1>1. att'.epoch = att.epoch /\ (att.pending => att'.pending) /\ att.stage # "idle"
  BY ServingSteps, StartFacts DEF Serving
<1>2. att.epoch \in Attempts BY <1>1, ServingEpoch
<1>3. answers[att.epoch] \in Nat /\ answers \in [Attempts -> 0 .. 2] BY <1>2 DEF TypeOK
<1>4. answers[att.epoch] > 0 => answers'[att.epoch] > 0
  <2>1. CASE answers' = [answers EXCEPT ![att.epoch] = @ + 1]
    <3>1. answers'[att.epoch] = answers[att.epoch] + 1 BY <2>1, <1>2, <1>3
    <3> QED BY <3>1, <1>3
  <2> QED BY <2>1, AnswersGrow
<1>5. Fenced' => Fenced BY <1>1, FenceLost
<1> QED BY <1>1, <1>4, <1>5 DEF AnswerSafe

LEMMA OnwardAhead ==
  ASSUME PipeTypeOK, Stream' \in Seq(Units), Onward, Said, transport = "api",
         att'.stage # "settling", Ahead
  PROVE  Ahead'
<1>1. PICK m \in Nat : Shorten(Stream, Stream', m) /\ (Passes(m) \/ Takes(m) \/ Hands(m))
  BY DEF Onward
<1>2. \A h \in DOMAIN Stream' : h + m \in DOMAIN Stream /\ Stream'[h] = Stream[h + m]
  BY <1>1, OnwardUnits
<1>3. queue \in Seq(Kinds) /\ "delta" \in Kinds /\ rd.kind \in Kinds
  BY DEF PipeTypeOK, Reader, Kinds
<1>4. /\ At("line").stage = "line"
      /\ \A st \in Stages, k \in Kinds : With(st, k).stage = st /\ With(st, k).kind = k
  BY ReaderTyped DEF Stages, Kinds
<1>5. ~ InQueue /\ ~ (rd.stage = "put" /\ rd.kind = "settled") BY DEF Ahead, Ending
<1>6. Stream \in Seq(Units) BY StreamTyped
<1>7. ASSUME Keeps(m, "answer"),
             \E i, j \in DOMAIN Stream :
                  /\ Whole(Stream, "answer", i, j)
                  /\ \A h \in DOMAIN Stream : Stream[h].kind = "settled" => i < h
      PROVE  \E i, j \in DOMAIN Stream' :
                  /\ Whole(Stream', "answer", i, j)
                  /\ \A h \in DOMAIN Stream' : Stream'[h].kind = "settled" => i < h
  <2>1. PICK i \in DOMAIN Stream, j \in DOMAIN Stream :
                  /\ Whole(Stream, "answer", i, j)
                  /\ \A h \in DOMAIN Stream : Stream[h].kind = "settled" => i < h
    BY <1>7
  <2>2. /\ m < i /\ i - m \in DOMAIN Stream' /\ j - m \in DOMAIN Stream'
        /\ Whole(Stream', "answer", i - m, j - m)
    BY <1>7, <2>1 DEF Keeps
  <2>3. ASSUME NEW h \in DOMAIN Stream', Stream'[h].kind = "settled" PROVE i - m < h
    <3>1. i < h + m BY <1>2, <2>1, <2>3
    <3>2. i \in Int /\ h \in Int BY <1>6, <2>3
    <3> QED BY <3>1, <3>2
  <2> QED BY <2>2, <2>3
<1>8. CASE Passes(m)
  <2>1. ~ InQueue'
    <3>1. CASE queue' = queue BY <1>5, <3>1 DEF InQueue
    <3>2. CASE queue' = Append(queue, "delta") BY <1>3, <1>5, <3>2, QueueAppended
    <3> QED BY <3>1, <3>2, <1>8 DEF Passes
  <2>2. Keeps(m, "answer") /\ rd.stage \notin {"persist", "ended"} /\ rd'.stage # "put"
    BY <1>8 DEF Passes
  <2> QED BY <1>7, <2>1, <2>2 DEF Ahead, Ending, Persisting
<1>9. CASE Takes(m)
  <2>1. PICK u : u = Stream[1] OBVIOUS
  <2>2. /\ u.first /\ queue' = queue /\ rd.stage = "line" /\ m > 0 /\ m <= Len(Stream)
        /\ \/ u.kind \in {"tool", "answer"} /\ rd' = With("persist", u.kind)
           \/ u.kind = "settled" /\ rd' = With("put", "settled")
        /\ u.kind # "answer" => Keeps(m, "answer")
    BY <1>9, <2>1 DEF Takes
  <2>3. \E i, j \in DOMAIN Stream :
           /\ Whole(Stream, "answer", i, j)
           /\ \A h \in DOMAIN Stream : Stream[h].kind = "settled" => i < h
    BY <2>2 DEF Ahead, Persisting
  <2>4. u.kind # "settled"
    <3>1. 1 \in DOMAIN Stream BY <1>6, <2>2
    <3>2. \A i \in DOMAIN Stream : ~ i < 1 BY <1>6
    <3> QED BY <2>1, <2>3, <3>1, <3>2
  <2>5. rd'.stage = "persist" /\ rd'.kind = u.kind BY <1>4, <2>2, <2>4 DEF Stages, Kinds
  <2>6. ~ InQueue' BY <1>5, <2>2 DEF InQueue
  <2> QED BY <1>7, <2>2, <2>3, <2>5, <2>6 DEF Ahead, Ending, Persisting
<1>10. CASE Hands(m)
  <2>1. rd.stage = "put" /\ rd'.stage = "line" /\ queue' = Append(queue, rd.kind)
        /\ Keeps(m, "answer")
    BY <1>4, <1>10 DEF Hands
  <2>2. ~ InQueue' BY <1>3, <1>5, <2>1, QueueAppended
  <2> QED BY <1>7, <2>1, <2>2 DEF Ahead, Ending, Persisting
<1> QED BY <1>1, <1>8, <1>9, <1>10

LEMMA AnswerAheadKept ==
  ASSUME TypeOK, DropSound, Books, ReaderSound, Said, AnswerAhead, Next
  PROVE  AnswerAhead'
<1> USE PipeAssumption
<1>1. Step /\ PipeTypeOK /\ UNCHANGED transport BY DEF Next, TypeOK
<1>2. SUFFICES ASSUME transport = "api", Serving', agent'.answer = "whole", ~ AnswerSafe'
               PROVE  Ahead'
  BY <1>1 DEF AnswerAhead
<1>3. ~ Starts BY <1>2, StartFacts DEF FreshAgent
<1>4. Lasts /\ Serving /\ ~ AnswerSafe BY <1>1, <1>2, <1>3, Onwards, SafeStays DEF Lasts
<1>5. Stream \in Seq(Units) BY <1>1, StreamTyped
<1>6. Stream' \in Seq(Units)
  <2>1. PipeTypeOK' BY NextPipe
  <2> QED BY <2>1, Joined DEF PipeTypeOK, Stream
<1>7. CASE Speaks
  <2>1. PICK k \in Kinds, n \in Sizes :
           /\ Write(k, n) /\ box.up /\ UNCHANGED <<buf, rd, queue, procVars>>
           /\ \/ /\ k \in {"ack", "delta", "tool"} /\ agent.pc \in {"prompted", "working"}
                 /\ agent'.pc = "working" /\ agent'.answer = agent.answer
              \/ /\ k = "answer" /\ agent.pc = "working" /\ agent'.pc = "answered"
                 /\ agent'.answer = IF n <= Limit THEN "whole" ELSE "lost"
              \/ /\ k = "settled" /\ n = 1 /\ agent.pc = "answered" /\ agent'.pc = "settled"
                 /\ agent'.answer = agent.answer
    BY <1>7, Spoken
  <2>2. (Ending' <=> Ending) /\ rd' = rd /\ (Persisting' <=> Persisting)
    BY <2>1 DEF Ending, InQueue, procVars, Persisting
  <2>3. ~ Ending
    BY <1>2, <2>1 DEF Said, Coming
  <2>4. CASE ~ Attached
    <3>1. rd.stage = "ended"
      BY <1>4, <2>1, <2>4 DEF Attached, Serving, ReaderSound, Reads
    <3> QED BY <2>2, <2>3, <3>1 DEF Ahead
  <2>5. CASE Attached
    <3>1. Extended(Stream, Stream', k, n) BY <1>1, <2>1, <2>5, WriteExtends
    <3>2. /\ Len(Stream) \in Nat
          /\ \A h \in DOMAIN Stream : h \in 1 .. Len(Stream) /\ Stream'[h] = Stream[h]
          /\ \A h \in DOMAIN Stream' :
                h \in DOMAIN Stream \/ (h \in Nat /\ h > Len(Stream) /\ Stream'[h].kind = k)
      <4>1. Len(Stream) \in Nat BY <1>5, <1>6, <3>1, NewUnits
      <4>2. \A h \in DOMAIN Stream : h \in 1 .. Len(Stream) /\ Stream'[h] = Stream[h]
        BY <1>5, <1>6, <3>1, NewUnits
      <4>3. ASSUME NEW h \in DOMAIN Stream', h \notin DOMAIN Stream
            PROVE  h \in Nat /\ h > Len(Stream) /\ Stream'[h].kind = k
        BY <1>5, <1>6, <3>1, <4>3, NewUnit
      <4> QED BY <4>1, <4>2, <4>3
    <3>3. CASE k = "answer"
      <4>1. n <= Limit BY <1>2, <2>1, <3>3
      <4>2. Len(Stream) > 0 => Stream[Len(Stream)].last BY DEF Said
      <4>3. /\ Len(Stream) + 1 \in DOMAIN Stream' /\ Len(Stream) + n \in DOMAIN Stream'
            /\ Whole(Stream', "answer", Len(Stream) + 1, Len(Stream) + n)
        BY <1>5, <1>6, <3>1, <3>3, <4>1, <4>2, NewLine
      <4>4. \A h \in DOMAIN Stream' : Stream'[h].kind # "settled"
        <5>1. \A h \in DOMAIN Stream : Stream[h].kind # "settled"
          BY <2>1, <3>3 DEF Said, Coming
        <5> QED BY <3>2, <3>3, <5>1
      <4> QED BY <2>2, <2>3, <4>3, <4>4 DEF Ahead
    <3>4. CASE k # "answer"
      <4>1. agent.answer = "whole" /\ k = "settled"
        BY <1>2, <2>1, <3>4 DEF Said
      <4>2. Ahead BY <1>1, <1>2, <1>4, <4>1 DEF AnswerAhead
      <4>3. CASE rd.stage = "ended" \/ Persisting BY <2>2, <2>3, <4>3 DEF Ahead
      <4>4. CASE \E i, j \in DOMAIN Stream :
                    /\ Whole(Stream, "answer", i, j)
                    /\ \A h \in DOMAIN Stream : Stream[h].kind = "settled" => i < h
        <5>1. PICK i \in DOMAIN Stream, j \in DOMAIN Stream :
                    /\ Whole(Stream, "answer", i, j)
                    /\ \A h \in DOMAIN Stream : Stream[h].kind = "settled" => i < h
          BY <4>4
        <5>2. i \in DOMAIN Stream' /\ j \in DOMAIN Stream' /\ Whole(Stream', "answer", i, j)
          BY <1>5, <1>6, <3>1, <5>1, WholeStays
        <5>3. ASSUME NEW h \in DOMAIN Stream', Stream'[h].kind = "settled" PROVE i < h
          <6>1. CASE h \in DOMAIN Stream BY <3>2, <5>1, <5>3, <6>1
          <6>2. CASE h \in Nat /\ h > Len(Stream)
            <7>1. i \in 1 .. Len(Stream) BY <3>2
            <7> QED BY <6>2, <7>1, <3>2
          <6> QED BY <3>2, <6>1, <6>2
        <5> QED BY <2>2, <2>3, <5>2, <5>3 DEF Ahead
      <4> QED BY <4>2, <4>3, <4>4 DEF Ahead
    <3> QED BY <3>3, <3>4
  <2> QED BY <2>4, <2>5
<1>8. CASE ~ Speaks
  <2>1. agent.answer = "whole"
    <3>1. GiveNoAnswer => agent'.answer = agent.answer BY DEF GiveNoAnswer, TypeOK
    <3> QED BY <1>1, <1>2, <1>3, <1>8, <3>1, AgentSteps
  <2>2. Ahead BY <1>2, <1>4, <2>1 DEF AnswerAhead
  <2>3. CASE Acknowledge
    <3>1. ReadTyped BY <1>1, <2>3, AckReads DEF Acknowledge
    <3>2. att'.stage # "settling" BY <2>3 DEF Acknowledge, To, TypeOK
    <3> QED BY <1>1, <1>2, <1>6, <2>2, <3>1, <3>2, OnwardAhead DEF ReadTyped
  <2>4. CASE Pump
    <3>1. /\ UNCHANGED <<pipe, buf, rd>> /\ (InQueue' => InQueue)
          /\ (Head(queue) = "settled" => InQueue)
      BY <1>1, <2>4, PumpQueue
    <3>2. Stream' = Stream BY <3>1 DEF Stream
    <3>3. ~ InQueue BY <2>2 DEF Ahead, Ending
    <3>4. att' = att BY <2>4, <3>1, <3>3 DEF Pump
    <3> QED BY <2>2, <3>1, <3>2, <3>4 DEF Ahead, Ending, Persisting
  <2>5. CASE att'.stage = att.stage /\ (att' = att \/ Persist)
    <3>1. CASE Quiet \/ LinkStop
      <4>1. UNCHANGED <<pipe, buf, queue>> /\ rd' \in {rd, At("ended")}
        BY <3>1, QuietPipe DEF pipeVars, LinkStop
      <4>2. Stream' = Stream /\ (InQueue' <=> InQueue) BY <4>1 DEF Stream, InQueue
      <4>3. CASE rd' = rd BY <2>2, <2>5, <4>2, <4>3 DEF Ahead, Ending, Persisting
      <4>4. CASE rd' = At("ended")
        BY <2>2, <2>5, <4>2, <4>4, EndedTyped DEF Ahead, Ending
      <4> QED BY <4>1, <4>3, <4>4
    <3>2. CASE Empties
      <4>1. Release \/ Crash BY <1>3, <3>2 DEF Empties, Starts
      <4> QED BY <1>2, <4>1 DEF Release, Crash, Idle, Serving
    <3>3. CASE Read
      <4>1. ReadTyped BY <1>1, <3>3, ReadingReads DEF Read
      <4>2. att'.stage # "settling" BY <2>2, <2>5 DEF Ahead, Ending
      <4> QED BY <1>1, <1>2, <1>6, <2>2, <4>1, <4>2, OnwardAhead DEF ReadTyped
    <3>4. CASE Persist
      <4>1. /\ rd.stage = "persist" /\ rd' = With("put", rd.kind) /\ UNCHANGED <<pipe, buf, queue>>
            /\ UNCHANGED taskVars
        BY <3>4, PersistFacts
      <4>2. rd'.stage = "put" /\ rd'.kind = rd.kind
        BY <1>1, <4>1, ReaderTyped DEF PipeTypeOK, Reader, Stages
      <4>3. Stream' = Stream /\ (InQueue' <=> InQueue) BY <4>1 DEF Stream, InQueue
      <4>4. rd.kind # "answer"
        <5>1. SUFFICES ASSUME rd.kind = "answer" PROVE AnswerSafe' BY <1>2
        <5>2. Fenced /\ att \in ContextRow /\ att.epoch \in Attempts
              /\ answers \in [Attempts -> 0 .. 2]
          BY <1>4, ServingEpoch DEF AnswerSafe, TypeOK, ContextRow, Serving
        <5>3. CASE Stored(1) /\ UNCHANGED att
          <6>1. answers'[att.epoch] = answers[att.epoch] + 1 /\ answers[att.epoch] \in Nat
            BY <5>2, <5>3 DEF Stored
          <6> QED BY <5>3, <6>1 DEF AnswerSafe
        <5>4. CASE att' = [att EXCEPT !.pending = @ \/ rd.kind = "answer"]
          <6>1. att'.pending BY <5>1, <5>2, <5>4 DEF ContextRow
          <6> QED BY <6>1 DEF AnswerSafe
        <5> QED BY <3>4, <5>1, <5>2, <5>3, <5>4 DEF Persist
      <4>5. rd.kind # "settled" BY <4>1 DEF Said
      <4> QED BY <2>2, <2>5, <4>1, <4>2, <4>3, <4>4, <4>5 DEF Ahead, Ending, Persisting
    <3>5. CASE ReadEof
      <4>1. rd'.stage = "ended" /\ queue' = queue /\ att' = att
        BY <3>5, EofFacts, EndedTyped DEF procVars
      <4> QED BY <2>2, <4>1 DEF Ahead, Ending, InQueue
    <3> QED BY <1>1, <1>8, <2>3, <2>4, <3>1, <3>2, <3>3, <3>4, <3>5, StepKinds
  <2> QED BY <1>1, <1>2, <1>3, <2>3, <2>4, <2>5, ServingSteps
<1> QED BY <1>7, <1>8

\* What becomes of the attempt: the epoch changes with it alone.
AttStays == /\ att'.epoch = att.epoch
            /\ att.stage \notin Before => att'.stage \notin Before
            /\ att'.stage \in {"assembling", "launching"}
               => att.stage \in {"assembling", "launching"}
            /\ att'.stage # "idle" => att.stage # "idle"
            /\ att'.pending => att.pending \/ (Persist /\ Persisting)
            /\ ~ Starts

LEMMA AttSteps ==
  ASSUME TypeOK, Step
  PROVE  \/ Starts \/ Recheck \/ AttStays
         \/ att' = Idle /\ Stream' = <<>> /\ rd'.stage = "ended"
<1>1. att \in ContextRow BY DEF TypeOK, ContextRow
<1>2. \A st : To(st) => att'.stage = st /\ att'.epoch = att.epoch /\ att'.pending = att.pending
  BY <1>1 DEF To, ContextRow
<1>3. ASSUME att' = att PROVE AttStays \/ Starts BY <1>3 DEF AttStays
<1>4. ASSUME NEW st \in {"pumping", "settling", "releasing"}, To(st),
             att.stage \in {"launching", "prompting", "pumping", "settling"}
      PROVE  AttStays \/ Starts
  BY <1>2, <1>4 DEF AttStays, Before
<1>5. CASE Resolve
  <2>1. att.stage = "assembling" /\ att'.stage \in {"launching", "releasing"}
        /\ att'.epoch = att.epoch /\ att'.pending = att.pending
    BY <1>1, <1>5 DEF Resolve, ContextRow
  <2>2. ~ Starts BY <2>1, StartFacts
  <2> QED BY <2>1, <2>2 DEF AttStays, Before
<1>6. CASE Launch
  <2>1. ~ Starts => To("releasing") /\ att.stage = "launching" BY <1>6 DEF Launch, Starts
  <2> QED BY <2>1, <1>4
<1>7. CASE Acknowledge \/ PromptFails \/ Pump \/ EngineDied \/ SettleFails \/ Settle
  <2>1. \/ att' = att
        \/ /\ att.stage \in {"prompting", "pumping", "settling"}
           /\ \E st \in {"pumping", "settling", "releasing"} : To(st)
    BY <1>7 DEF Acknowledge, PromptFails, Pump, EngineDied, SettleFails, Settle, SettleWith
  <2> QED BY <2>1, <1>3, <1>4
<1>8. CASE Persist
  <2>1. att' = att \/ att' = [att EXCEPT !.pending = @ \/ rd.kind = "answer"]
    BY <1>8 DEF Persist
  <2>2. att'.stage = att.stage /\ att'.epoch = att.epoch
        /\ (att'.pending => att.pending \/ rd.kind = "answer")
    BY <1>1, <2>1 DEF ContextRow
  <2>3. rd.stage = "persist" BY <1>8, PersistFacts
  <2>4. Starts \/ ~ Starts OBVIOUS
  <2> QED BY <1>8, <2>2, <2>3, <2>4 DEF AttStays, Persisting
<1>9. CASE Release \/ Crash
  <2>1. att' = Idle /\ pipe' = <<>> /\ buf' = <<>> /\ rd' = At("ended")
    BY <1>9 DEF Release, Crash
  <2> QED BY <2>1, EndedTyped DEF Stream
<1>10. CASE GrantMove \/ ProxyCall \/ Claim \/ GiveNoAnswer \/ ContainerDies \/ Read \/ ReadEof
            \/ LinkStop
  BY <1>3, <1>10 DEF GrantMove, ProxyCall, Claim, GiveNoAnswer, ContainerDies, Read, ReadEof,
     LinkStop, Create, LoseLease, ChangeKey, WriteKey, Switch, Return, LinkScan, LinkWrite,
     NoProcess, CallWithCached, GrantCheck, GrantIssue, GrantRefused, procVars
<1>11. CASE Speaks BY <1>3, <1>11, Spoken DEF procVars
<1> QED BY <1>5, <1>6, <1>7, <1>8, <1>9, <1>10, <1>11
        DEF Step, GrantMove, ProxyCall, Speaks

\* What becomes of the round: a claim alone begins another attempt.
LEMMA RoundSteps ==
  ASSUME TypeOK, Books, Step
  PROVE  \/ /\ Claim /\ round'.epoch = round.epoch + 1 /\ round.state = "pending"
            /\ round.epoch < MaxAttempts
         \/ round'.epoch = round.epoch /\ (notified' /\ round'.mine => notified /\ round.mine)
<1>1. CASE Inside BY <1>1, InsideFacts DEF taskVars
<1>2. CASE GrantMove BY <1>2, GrantMoveTyped DEF Loses, procVars
<1>3. CASE ProxyCall BY <1>3, ProxyFacts DEF taskVars, procVars
<1>4. CASE Claim BY <1>4, ClaimFacts DEF Books
<1>5. CASE Recheck BY <1>5, RecheckFacts DEF taskVars
<1>6. CASE Settle BY <1>6, SettleFacts DEF taskVars
<1>7. CASE LinkStop BY <1>7 DEF LinkStop, taskVars, procVars
<1>8. CASE Crash BY <1>8, CrashFacts
<1> QED BY <1>1, <1>2, <1>3, <1>4, <1>5, <1>6, <1>7, <1>8, StepParts

\* Where nothing is written, the stream is what is left of it.
Shifts(m) == /\ m \in Nat
             /\ \A h \in DOMAIN Stream' : h + m \in DOMAIN Stream /\ Stream'[h] = Stream[h + m]
             /\ Persisting' => \/ Persisting /\ m = 0
                               \/ m > 0 /\ 1 \in DOMAIN Stream /\ IsAnswer(Stream[1])

LEMMA Shifting ==
  ASSUME TypeOK, DropSound, Next, ~ Speaks
  PROVE  \E m : Shifts(m)
<1>1. /\ Step /\ PipeTypeOK /\ PipeTypeOK' /\ UNCHANGED transport
  BY NextPipe DEF Next, TypeOK
<1>2. Stream \in Seq(Units) /\ Stream' \in Seq(Units) BY <1>1, Joined DEF PipeTypeOK, Stream
<1>3. ASSUME Stream' = Stream, rd' = rd \/ rd'.stage # "persist" PROVE Shifts(0)
  <2>1. \A h \in DOMAIN Stream : h + 0 = h BY <1>2
  <2> QED BY <1>3, <2>1 DEF Shifts, Persisting
<1>4. ASSUME Stream' = <<>>, rd'.stage # "persist" PROVE Shifts(0)
  BY <1>4 DEF Shifts, Persisting
<1>5. ASSUME Onward PROVE \E m : Shifts(m)
  <2>1. PICK m \in Nat : Shorten(Stream, Stream', m) /\ (Passes(m) \/ Takes(m) \/ Hands(m))
    BY <1>5 DEF Onward
  <2>2. \A h \in DOMAIN Stream' : h + m \in DOMAIN Stream /\ Stream'[h] = Stream[h + m]
    BY <1>1, <1>2, <2>1, OnwardUnits
  <2>3. Persisting' => m > 0 /\ 1 \in DOMAIN Stream /\ IsAnswer(Stream[1])
    <3>1. Passes(m) => ~ Persisting' BY DEF Passes, Persisting
    <3>2. Hands(m) => ~ Persisting' BY EndedTyped DEF Hands, Persisting
    <3>3. ASSUME Takes(m), Persisting' PROVE m > 0 /\ 1 \in DOMAIN Stream /\ IsAnswer(Stream[1])
      <4>1. PICK u : u = Stream[1] OBVIOUS
      <4>2. /\ u.first /\ m > 0 /\ m <= Len(Stream)
            /\ \/ u.kind \in {"tool", "answer"} /\ rd' = With("persist", u.kind)
               \/ u.kind = "settled" /\ rd' = With("put", "settled")
        BY <3>3, <4>1 DEF Takes
      <4>3. /\ u.kind \in {"tool", "answer"} => With("persist", u.kind).kind = u.kind
            /\ With("put", "settled").stage = "put"
        BY DEF With
      <4>4. u.kind = "answer" BY <3>3, <4>2, <4>3 DEF Persisting
      <4>5. 1 \in DOMAIN Stream BY <1>2, <4>2
      <4> QED BY <4>1, <4>2, <4>4, <4>5 DEF IsAnswer
    <3> QED BY <2>1, <3>1, <3>2, <3>3
  <2> QED BY <2>2, <2>3 DEF Shifts
<1>6. CASE Quiet
  BY <1>3, <1>6, QuietPipe DEF pipeVars, Stream
<1>7. CASE Empties
  <2>1. Stream' = <<>> BY <1>7, EmptiesPipe DEF Stream
  <2>2. rd'.stage # "persist" BY <1>7, EndedTyped DEF Empties
  <2> QED BY <1>4, <2>1, <2>2
<1>8. CASE Read BY <1>1, <1>5, <1>8, ReadingReads DEF Read, ReadTyped
<1>9. CASE Acknowledge BY <1>1, <1>5, <1>9, AckReads DEF Acknowledge, ReadTyped
<1>10. CASE Persist
  <2>1. rd'.stage = "put" BY <1>1, <1>10, PersistFacts, ReaderTyped DEF PipeTypeOK, Reader, Stages
  <2> QED BY <1>3, <1>10, <2>1, PersistFacts DEF Stream
<1>11. CASE Pump BY <1>3, <1>11 DEF Pump, Stream
<1>12. CASE ReadEof
  <2>1. Stream' = <<>> /\ rd'.stage = "ended" BY <1>12, EofFacts, EndedTyped DEF Stream
  <2> QED BY <1>4, <2>1
<1>13. CASE LinkStop
  <2>1. Stream' = Stream /\ rd' \in {rd, At("ended")} BY <1>13 DEF LinkStop, Stream
  <2> QED BY <1>3, <2>1, EndedTyped
<1> QED BY <1>1, <1>6, <1>7, <1>8, <1>9, <1>10, <1>11, <1>12, <1>13, StepKinds

LEMMA OnceKept ==
  ASSUME TypeOK, DropSound, Books, ReaderSound, Said, Once, Next
  PROVE  Once'
<1>1. Step /\ PipeTypeOK /\ PipeTypeOK' BY NextPipe DEF Next, TypeOK
<1>2. Stream \in Seq(Units) /\ Stream' \in Seq(Units) BY <1>1, Joined DEF PipeTypeOK, Stream
<1>3. /\ answers \in [Attempts -> 0 .. 2] /\ round.epoch \in Nat /\ att.epoch \in Nat
      /\ att.epoch <= round.epoch /\ MaxAttempts \in Nat
  BY GrantAssumption DEF TypeOK, GrantTypeOK, Books
<1>4. \/ answers' = answers
      \/ /\ Fenced /\ answers' = [answers EXCEPT ![att.epoch] = @ + 1] /\ att.epoch \in Attempts
         /\ \A e \in Attempts : e # att.epoch => answers'[e] = answers[e]
         /\ answers'[att.epoch] = answers[att.epoch] + 1
         /\ att.stage # "idle"
         /\ (Persist /\ Persisting) \/ (Settle /\ att.pending)
  <2>1. SUFFICES ASSUME answers' # answers
        PROVE  /\ Fenced /\ answers' = [answers EXCEPT ![att.epoch] = @ + 1]
               /\ att.epoch \in Attempts
               /\ \A e \in Attempts : e # att.epoch => answers'[e] = answers[e]
               /\ answers'[att.epoch] = answers[att.epoch] + 1
               /\ att.stage # "idle"
               /\ (Persist /\ Persisting) \/ (Settle /\ att.pending)
    OBVIOUS
  <2>2. /\ Fenced /\ answers' = [answers EXCEPT ![att.epoch] = @ + 1]
        /\ (Persist /\ Persisting) \/ (Settle /\ att.pending)
    BY <1>1, <2>1, AnswersGrow
  <2>3. att.stage # "idle"
    BY <2>2 DEF Persisting, ReaderSound, Reads, Before, Settle, SettleWith
  <2>4. att.epoch \in Attempts BY <2>3, ServingEpoch
  <2> QED BY <1>3, <2>2, <2>3, <2>4
<1>5. Settle => Ending BY DEF Settle, SettleWith, Ending
\* A step that writes the answer is taken with the end, or the answer, in hand.
<1>6. answers' # answers => Coming \/ Answering
  BY <1>4, <1>5 DEF Coming, Answering
<1>7. \A e \in Attempts : e > round'.epoch => answers'[e] = 0
  <2>1. round'.epoch \in {round.epoch, round.epoch + 1} BY <1>1, RoundSteps
  <2>2. ASSUME NEW e \in Attempts, e > round'.epoch PROVE answers'[e] = 0
    <3>1. e \in Nat BY <1>3 DEF Attempts
    <3>2. e > round.epoch /\ e # att.epoch BY <1>3, <2>1, <2>2, <3>1
    <3>3. answers[e] = 0 BY <3>2 DEF Once
    <3> QED BY <1>4, <3>2, <3>3
  <2> QED BY <2>2
<1>8. notified' /\ round'.mine => answers'[round'.epoch] = 0
  <2>1. SUFFICES ASSUME notified', round'.mine PROVE answers'[round'.epoch] = 0 OBVIOUS
  <2>2. CASE Claim
    <3>1. round'.epoch = round.epoch + 1 /\ round.state = "pending" /\ answers' = answers
      BY <2>2, ClaimFacts
    <3>2. round'.epoch \in Attempts BY <1>3, <3>1 DEF Books, Attempts
    <3> QED BY <1>3, <3>1, <3>2 DEF Once
  <2>3. CASE notified /\ round.mine /\ round'.epoch = round.epoch
    <3>1. att.epoch < round.epoch /\ answers[round.epoch] = 0 BY <2>3 DEF Books, Once
    <3>2. round.epoch \in Attempts
      <4>1. round.epoch \in 0 .. MaxAttempts BY DEF TypeOK, GrantTypeOK
      <4> QED BY <1>3, <3>1, <4>1 DEF Attempts
    <3>3. round.epoch # att.epoch BY <1>3, <3>1
    <3> QED BY <1>4, <2>3, <3>1, <3>2, <3>3
  <2> QED BY <1>1, <2>1, <2>2, <2>3, RoundSteps
<1>9. CASE Starts
  <2>1. /\ att.stage = "launching" /\ att'.stage = "prompting" /\ att'.epoch = att.epoch
        /\ att'.pending = att.pending /\ Stream' = <<>> /\ rd'.stage = "line" /\ answers' = answers
    BY <1>9, StartFacts
  <2>2. Unanswered' BY <2>1 DEF Once, Unanswered
  <2>3. ~ Persisting' /\ DOMAIN Stream' = {} BY <2>1 DEF Persisting
  <2> QED BY <1>7, <1>8, <2>1, <2>2, <2>3 DEF Once, Unanswered, Answering
<1>10. CASE Recheck
  <2>1. /\ att.stage = "idle" /\ notified /\ UNCHANGED <<pipeVars, round, answers>>
        /\ \/ att' = Idle
           \/ /\ round.mine /\ att'.stage = "assembling" /\ att'.epoch = round.epoch
              /\ ~ att'.pending
    BY <1>10, RecheckFacts DEF taskVars
  <2>2. rd'.stage = "ended" /\ Stream' = Stream
    BY <2>1 DEF ReaderSound, Reads, Before, pipeVars, Stream
  <2>3. ~ Answering' BY <2>1, <2>2 DEF Once, Before, Answering, Persisting
  <2>4. att' = Idle => att'.stage = "idle" BY DEF Idle
  <2>5. ~ Reads' BY <2>1, <2>2, <2>4 DEF Reads, Serving
  <2>6. att'.stage = "assembling" => Unanswered'
    BY <2>1, <2>4 DEF Once, Unanswered
  <2> QED BY <1>3, <1>7, <1>8, <2>1, <2>2, <2>3, <2>4, <2>5, <2>6
          DEF Once, Unanswered, Answering
<1>11. CASE att' = Idle /\ Stream' = <<>> /\ rd'.stage = "ended"
  <2>1. att'.stage = "idle" /\ ~ Reads' /\ ~ Persisting'
    BY <1>11 DEF Idle, Reads, Serving, Persisting
  <2>2. ~ Answering' BY <1>11, <2>1 DEF Answering
  <2>3. DOMAIN Stream' = {} BY <1>11
  <2> QED BY <1>7, <1>8, <2>1, <2>2, <2>3 DEF Once
<1>12. CASE AttStays
  <2>1. /\ att'.epoch = att.epoch /\ (att.stage \notin Before => att'.stage \notin Before)
        /\ att'.stage \in {"assembling", "launching"} => att.stage \in {"assembling", "launching"}
        /\ att'.stage # "idle" => att.stage # "idle"
        /\ att'.pending => att.pending \/ (Persist /\ Persisting)
        /\ ~ Starts
    BY <1>12 DEF AttStays
  \* Unanswered lasts while no answer is in hand.
  <2>2. ASSUME Unanswered, ~ Persisting PROVE Unanswered'
    BY <1>4, <2>1, <2>2 DEF Unanswered
  <2>3. att'.stage \in {"assembling", "launching"} => Unanswered'
    <3>1. SUFFICES ASSUME att.stage \in {"assembling", "launching"} PROVE Unanswered' BY <2>1
    <3>2. ~ Persisting BY <3>1 DEF Persisting, ReaderSound, Reads, Before
    <3> QED BY <2>2, <3>1, <3>2 DEF Once
  <2>4. Reads' /\ agent'.pc \in {"prompted", "working"} => Unanswered'
    <3>1. SUFFICES ASSUME Reads', agent'.pc \in {"prompted", "working"} PROVE Unanswered'
      OBVIOUS
    <3>2. Lasts BY <1>1, <2>1, Onwards
    <3>3. Reads BY <3>1, <3>2 DEF Lasts, Reads
    <3>4. agent.pc \in {"prompted", "working"}
      <4>1. Speaks /\ agent'.pc \in {"prompted", "working"} =>
              agent.pc \in {"prompted", "working"}
        BY Spoken
      <4>2. GiveNoAnswer => agent.pc \in {"prompted", "working"} BY DEF GiveNoAnswer
      <4> QED BY <1>1, <2>1, <3>1, <4>1, <4>2, AgentSteps
    <3>5. ~ Persisting BY <3>4 DEF Said, Answering
    <3> QED BY <2>2, <3>3, <3>4, <3>5 DEF Once
  <2>5. Fenced' /\ att'.stage # "idle" => answers'[att'.epoch] <= 1
    <3>1. SUFFICES ASSUME Fenced', att.stage # "idle" PROVE answers'[att.epoch] <= 1 BY <2>1
    <3>2. Fenced /\ att.epoch \in Attempts BY <1>1, <2>1, <3>1, FenceLost, ServingEpoch
    <3>3. answers[att.epoch] <= 1 /\ answers[att.epoch] \in Nat BY <1>3, <3>1, <3>2 DEF Once
    <3>4. CASE Persist /\ Persisting
      <4>1. answers[att.epoch] = 0 BY <3>4 DEF Once, Answering, Unanswered
      <4> QED BY <1>4, <3>3, <4>1
    <3>5. CASE Settle
      <4>1. ~ Fenced' BY <3>2, <3>5, SettleFacts DEF Fenced
      <4> QED BY <3>1, <4>1
    <3> QED BY <1>4, <3>3, <3>4, <3>5
  <2>6. CASE Speaks
    <3>1. PICK k \in Kinds, n \in Sizes :
             /\ Write(k, n) /\ box.up /\ UNCHANGED <<buf, rd, queue, att>>
             /\ k = "answer" => agent.pc = "working"
      BY <2>6, Spoken DEF procVars
    <3>2. (Persisting' <=> Persisting) /\ answers' = answers
      BY <2>6, <3>1, Spoken DEF Persisting
    <3>3. Unanswered' <=> Unanswered BY <3>1, <3>2 DEF Unanswered
    <3>4. CASE Stream' = Stream
      BY <1>7, <1>8, <2>3, <2>4, <2>5, <3>1, <3>2, <3>3, <3>4 DEF Once, Answering
    <3>5. CASE Attached /\ Extended(Stream, Stream', k, n)
      <4>1. ASSUME NEW h \in DOMAIN Stream', IsAnswer(Stream'[h])
            PROVE  \/ h \in DOMAIN Stream /\ IsAnswer(Stream[h])
                   \/ k = "answer" /\ h = Len(Stream) + 1
        BY <1>2, <3>5, <4>1, NewUnit DEF IsAnswer
      <4>2. CASE k # "answer"
        <5>1. ASSUME NEW h \in DOMAIN Stream', IsAnswer(Stream'[h])
              PROVE  h \in DOMAIN Stream /\ IsAnswer(Stream[h])
          BY <4>1, <4>2, <5>1
        <5>2. Answering' => Answering BY <3>2, <5>1 DEF Answering
        <5> QED BY <1>7, <1>8, <2>3, <2>4, <2>5, <3>1, <3>2, <3>3, <5>1, <5>2 DEF Once
      <4>3. CASE k = "answer"
        <5>1. ~ Answering BY <3>1, <4>3 DEF Said
        <5>2. Unanswered /\ att.stage \notin Before
          BY <3>1, <3>5, <4>3 DEF Once, Attached, Reads, Before
        <5>3. ASSUME NEW h \in DOMAIN Stream', IsAnswer(Stream'[h]) PROVE h = Len(Stream) + 1
          BY <4>1, <5>1, <5>3 DEF Answering
        <5>4. ~ Persisting' BY <3>2, <5>1 DEF Answering
        <5> QED BY <1>7, <1>8, <2>3, <2>4, <2>5, <3>1, <3>3, <5>2, <5>3, <5>4 DEF Once
      <4> QED BY <4>2, <4>3
    <3>6. Stream' = Stream \/ (Attached /\ Extended(Stream, Stream', k, n))
      BY <1>1, <3>1, WriteExtends
    <3> QED BY <3>4, <3>5, <3>6
  <2>7. CASE ~ Speaks
    <3>1. PICK m : Shifts(m) BY <2>7, Shifting
    <3>2. /\ m \in Nat
          /\ \A h \in DOMAIN Stream' : h + m \in DOMAIN Stream /\ Stream'[h] = Stream[h + m]
          /\ Persisting' => \/ Persisting /\ m = 0
                            \/ m > 0 /\ 1 \in DOMAIN Stream /\ IsAnswer(Stream[1])
      BY <3>1 DEF Shifts
    <3>3. \A h \in DOMAIN Stream' : h \in Nat /\ h > 0 BY <1>2
    <3>4. ASSUME NEW g \in DOMAIN Stream', NEW h \in DOMAIN Stream',
                 IsAnswer(Stream'[g]), IsAnswer(Stream'[h])
          PROVE  g = h
      <4>1. g + m = h + m BY <3>2, <3>4 DEF Once
      <4> QED BY <3>2, <3>3, <4>1
    <3>5. ASSUME Persisting', NEW h \in DOMAIN Stream' PROVE ~ IsAnswer(Stream'[h])
      <4>1. CASE Persisting /\ m = 0 BY <3>2, <3>5, <4>1 DEF Once
      <4>2. CASE m > 0 /\ 1 \in DOMAIN Stream /\ IsAnswer(Stream[1])
        <5>1. h + m # 1 BY <3>2, <3>3, <4>2
        <5> QED BY <3>2, <4>2, <5>1 DEF Once
      <4> QED BY <3>2, <3>5, <4>1, <4>2
    <3>6. Answering' => att'.stage \notin Before /\ Unanswered'
      <4>1. SUFFICES ASSUME Answering' PROVE att'.stage \notin Before /\ Unanswered' OBVIOUS
      <4>2. Answering BY <2>7, <4>1, NoneAppear DEF NoneAppears
      <4>3. CASE ~ Persisting BY <2>1, <2>2, <4>2, <4>3 DEF Once
      <4>4. CASE Persisting
        <5>1. ~ IsAnswer(Stream[1]) \/ 1 \notin DOMAIN Stream BY <4>4 DEF Once
        <5>2. \A h \in DOMAIN Stream' : ~ IsAnswer(Stream'[h]) BY <3>2, <4>4 DEF Once
        <5>3. Persisting' BY <4>1, <5>2 DEF Answering
        <5>4. ~ Persist
          <6>1. rd.kind \in Kinds BY <1>1 DEF PipeTypeOK, Reader
          <6>2. Persist => rd'.stage = "put"
            BY <6>1, PersistFacts, ReaderTyped DEF Stages
          <6> QED BY <5>3, <6>2 DEF Persisting
        <5>5. ~ att.pending /\ answers[att.epoch] = 0 BY <4>2 DEF Once, Unanswered
        <5>6. answers' = answers BY <1>4, <5>4, <5>5
        <5> QED BY <2>1, <4>2, <5>4, <5>5, <5>6 DEF Once, Unanswered
      <4> QED BY <4>3, <4>4
    <3> QED BY <1>7, <1>8, <2>3, <2>4, <2>5, <3>4, <3>5, <3>6 DEF Once
  <2> QED BY <2>6, <2>7
<1> QED BY <1>1, <1>9, <1>10, <1>11, <1>12, AttSteps

LEMMA AnswerKeptKept ==
  ASSUME TypeOK, Books, ReaderSound, Said, AnswerAhead, AnswerKept, Next
  PROVE  AnswerKept'
<1>1. Step /\ UNCHANGED transport BY DEF Next
<1>2. SUFFICES ASSUME transport = "api", round'.state = "settled", agent'.answer = "whole"
               PROVE  answers'[round'.epoch] > 0
  BY <1>1 DEF AnswerKept
<1>3. CASE round.state = "settled"
  <2>1. agent.pc = "settled" /\ att.stage \in {"idle", "releasing"} /\ ~ Fenced
    BY <1>3 DEF Said, Books, Fenced
  <2>2. agent' = agent
    <3>1. ~ Speaks BY <2>1, Spoken
    <3>2. ~ GiveNoAnswer BY <2>1 DEF GiveNoAnswer
    <3>3. ~ Starts BY <2>1, StartFacts
    <3> QED BY <1>1, <3>1, <3>2, <3>3, AgentSteps
  <2>3. answers' = answers BY <1>1, <2>1, AnswersGrow
  <2>4. round'.epoch = round.epoch BY <1>1, <1>3, RoundSteps
  <2> QED BY <1>2, <1>3, <2>2, <2>3, <2>4 DEF AnswerKept
<1>4. CASE Settle /\ Fenced
  <2>1. /\ att.stage = "settling" /\ UNCHANGED boxVars /\ round'.epoch = round.epoch
        /\ IF att.pending THEN Stored(1) ELSE UNCHANGED answers
    BY <1>4, SettleFacts
  <2>2. agent' = agent BY <2>1 DEF boxVars
  <2>3. Ending /\ Serving /\ att.stage # "idle" BY <2>1 DEF Ending, Serving
  <2>4. AnswerSafe BY <1>2, <2>2, <2>3 DEF AnswerAhead, Ahead
  <2>5. answers[att.epoch] > 0 \/ att.pending BY <1>4, <2>4 DEF AnswerSafe
  <2>6. att.epoch \in Attempts /\ round.epoch = att.epoch BY <1>4, <2>3, ServingEpoch DEF Fenced
  <2>7. answers \in [Attempts -> 0 .. 2] /\ answers[att.epoch] \in Nat BY <2>6 DEF TypeOK
  <2>8. CASE att.pending
    <3>1. answers'[att.epoch] = answers[att.epoch] + 1 BY <2>1, <2>6, <2>7, <2>8 DEF Stored
    <3> QED BY <2>1, <2>6, <2>7, <3>1
  <2> QED BY <2>1, <2>5, <2>6, <2>8
<1> QED BY <1>1, <1>2, <1>3, <1>4, SettledRound

--------------------------------------------------------------------------------
(* The invariant holds *)

BoxRow == [up : BOOLEAN, epoch : 0 .. MaxAttempts]
AgentRow == [pc : {"prompted", "working", "answered", "settled"}, left : 0 .. MaxFrames,
             answer : {"none", "whole", "lost"}]

LEMMA BoxKept ==
  ASSUME TypeOK, Step
  PROVE  box' \in BoxRow /\ agent' \in AgentRow
<1> USE AgentAssumption
<1>1. box \in BoxRow /\ agent \in AgentRow /\ att.epoch \in 0 .. MaxAttempts
  BY DEF TypeOK, BoxRow, AgentRow
<1>2. CASE Starts
  <2>1. box' = [up |-> TRUE, epoch |-> att.epoch] /\ agent' = FreshAgent BY <1>2, StartFacts
  <2>2. agent' = [pc |-> "prompted", left |-> MaxFrames, answer |-> "none"]
    BY <2>1 DEF FreshAgent
  <2>3. MaxFrames \in 0 .. MaxFrames OBVIOUS
  <2>4. agent' \in AgentRow BY <2>2, <2>3 DEF AgentRow
  <2>5. box' \in BoxRow BY <1>1, <2>1 DEF BoxRow
  <2> QED BY <2>4, <2>5
<1>3. CASE ~ Starts
  <2>1. agent' \in AgentRow
    <3>1. Speaks => agent' \in AgentRow BY Spoken DEF AgentRow
    <3>2. ASSUME GiveNoAnswer PROVE agent' \in AgentRow
      <4>1. agent' = [agent EXCEPT !.pc = "answered", !.left = 0] BY <3>2 DEF GiveNoAnswer
      <4>2. 0 \in 0 .. MaxFrames OBVIOUS
      <4> QED BY <1>1, <4>1, <4>2 DEF AgentRow
    <3> QED BY <1>1, <1>3, <3>1, <3>2, AgentSteps
  <2>2. box' \in BoxRow
    <3>1. CASE Release \/ ContainerDies BY <1>1, <3>1 DEF Release, ContainerDies, BoxRow
    <3>2. CASE Crash BY <3>2, CrashFacts DEF BoxRow
    <3>3. CASE Speaks BY <1>1, <3>3, Spoken
    <3>4. CASE ~ (Release \/ ContainerDies \/ Crash \/ Speaks)
      <4>1. box' = box
        BY <1>3, <3>4 DEF Step, Starts, Recheck, Claim, Resolve, Launch, Acknowledge, PromptFails,
           Read, ReadEof, Persist, Pump, EngineDied, Settle, SettleWith, SettleFails, Speaks,
           GiveNoAnswer, Create, LoseLease, ChangeKey, WriteKey, Switch, Return, LinkScan, LinkStop,
           LinkWrite, NoProcess, CallWithCached, GrantCheck, GrantIssue, GrantRefused, boxVars
      <4> QED BY <1>1, <4>1
    <3> QED BY <3>1, <3>2, <3>3, <3>4
  <2> QED BY <2>1, <2>2
<1> QED BY <1>2, <1>3

LEMMA AnswersKept ==
  ASSUME TypeOK, Books, ReaderSound, Once, Step
  PROVE  answers' \in [Attempts -> 0 .. 2]
<1>1. answers \in [Attempts -> 0 .. 2] BY DEF TypeOK
<1>2. SUFFICES ASSUME Fenced, answers' = [answers EXCEPT ![att.epoch] = @ + 1],
                      (Persist /\ Persisting) \/ (Settle /\ att.pending)
               PROVE  answers' \in [Attempts -> 0 .. 2]
  BY <1>1, AnswersGrow
<1>3. att.stage # "idle"
  BY <1>2 DEF Persisting, ReaderSound, Reads, Before, Settle, SettleWith
<1>4. att.epoch \in Attempts /\ answers[att.epoch] <= 1 BY <1>2, <1>3, ServingEpoch DEF Once
<1>5. answers[att.epoch] + 1 \in 0 .. 2 BY <1>1, <1>4
<1> QED BY <1>1, <1>2, <1>5

LEMMA TypeKept ==
  ASSUME TypeOK, Books, ReaderSound, DropSound, Once, Next
  PROVE  TypeOK'
<1> USE AgentAssumption, GrantAssumption
<1>1. Step BY DEF Next
<1>2. /\ TaskTyped /\ LentTyped /\ att \in ContextRow /\ notified \in BOOLEAN
      /\ grant \in 0 .. MaxVersion /\ cache \in 0 .. MaxVersion /\ used \subseteq 1 .. MaxVersion
      /\ disturbances \in Nat
  BY GrantParts DEF TypeOK, ContextRow
<1>3. PipeTypeOK' /\ box' \in BoxRow /\ agent' \in AgentRow /\ answers' \in [Attempts -> 0 .. 2]
  BY <1>1, NextPipe, BoxKept, AnswersKept
<1>4. SUFFICES /\ TaskTyped' /\ LentTyped' /\ att' \in ContextRow /\ notified' \in BOOLEAN
               /\ grant' \in 0 .. MaxVersion /\ cache' \in 0 .. MaxVersion
               /\ used' \subseteq 1 .. MaxVersion /\ disturbances' \in Nat
  BY <1>3 DEF TypeOK, GrantTypeOK, TaskTyped, LentTyped, ContextRow, RoundRow, BoxRow, AgentRow
<1>5. CASE Inside
  BY <1>2, <1>5, InsideFacts DEF taskVars, grantVars, proxyVars, TaskTyped, LentTyped
<1>6. CASE GrantMove
  <2>1. TaskTyped' /\ LentTyped'
    BY <1>6, GrantMoveTyped DEF GrantTypeOK, TaskTyped, LentTyped, RoundRow
  <2> QED BY <1>2, <1>6, <2>1, GrantMoveTyped DEF procVars, proxyVars
<1>7. CASE ProxyCall
  BY <1>2, <1>7, ProxyFacts DEF taskVars, grantVars, procVars, TaskTyped, LentTyped
<1>8. CASE Claim
  <2>1. /\ round' = [state |-> "running", epoch |-> round.epoch + 1, mine |-> TRUE]
        /\ status' = "running" /\ notified' = TRUE
        /\ UNCHANGED <<snap, mount, grantVars, att, proxyVars, disturbances>>
        /\ round.epoch < MaxAttempts /\ round.epoch \in Nat
    BY <1>2, <1>8 DEF Claim, Books, TaskTyped, RoundRow
  <2>2. round' \in RoundRow BY <2>1 DEF RoundRow
  <2> QED BY <1>2, <2>1, <2>2 DEF grantVars, proxyVars, TaskTyped, LentTyped, Statuses
<1>9. CASE Recheck
  <2>1. notified' = FALSE BY <1>9 DEF Recheck
  <2> QED BY <1>2, <1>9, <2>1, RecheckFacts DEF taskVars, grantVars, proxyVars, TaskTyped, LentTyped
<1>10. CASE Settle
  <2>1. status' \in Statuses /\ round' \in RoundRow
    BY <1>2, <1>10, SettleFacts DEF TaskTyped, Statuses
  <2> QED BY <1>2, <1>10, <2>1, SettleFacts DEF grantVars, proxyVars, TaskTyped, LentTyped
<1>11. CASE LinkStop
  BY <1>2, <1>11 DEF LinkStop, taskVars, procVars, proxyVars, TaskTyped, LentTyped, Links
<1>12. CASE Crash
  <2>1. notified' = FALSE BY <1>12 DEF Crash
  <2>2. Idle \in ContextRow BY DEF Idle, ContextRow, Phases
  <2>3. TaskTyped' BY <1>2, <1>12, CrashFacts DEF TaskTyped
  <2>4. LentTyped'
    <3>1. 0 \in 0 .. MaxVersion OBVIOUS
    <3>2. [c \in Callers |-> 0] \in [Callers -> 0 .. MaxVersion] BY <3>1
    <3> QED BY <1>2, <1>12, <3>2, CrashFacts DEF LentTyped
  <2>5. 0 \in 0 .. MaxVersion OBVIOUS
  <2>6. /\ att' = Idle /\ grant' = 0 /\ disturbances' \in Nat
        /\ UNCHANGED <<cache, used>>
    BY <1>12, CrashFacts
  <2> QED BY <1>2, <2>1, <2>2, <2>3, <2>4, <2>5, <2>6
<1> QED BY <1>1, <1>5, <1>6, <1>7, <1>8, <1>9, <1>10, <1>11, <1>12, StepParts

LEMMA InitInvariant == Init => IInv
<1> SUFFICES ASSUME Init PROVE IInv OBVIOUS
<1> USE PipeAssumption, GrantAssumption, AgentAssumption
<1>1. /\ pipe = <<>> /\ buf = <<>> /\ queue = <<>> /\ rd = At("ended") /\ transport \in Transports
      /\ att = Idle /\ notified = FALSE /\ answers = [e \in Attempts |-> 0]
      /\ box = [up |-> FALSE, epoch |-> 0]
      /\ agent = [FreshAgent EXCEPT !.pc = "settled", !.left = 0]
      /\ grant = 0 /\ cache = 0 /\ used = {} /\ disturbances = 0 /\ torn = Intact
  BY DEF Init
<1>2. /\ status = "none" /\ snap = 0 /\ mount = FALSE
      /\ round = [state |-> "none", epoch |-> 0, mine |-> FALSE]
      /\ provider = [active |-> TRUE, version |-> 1]
      /\ rotating = [c \in Callers |-> 0] /\ overwritten = FALSE /\ server = "on"
      /\ link = "none"
  BY DEF Init, GrantInit
<1>3. rd.stage = "ended" /\ rd \in Reader BY <1>1, EndedTyped
<1>4. att.stage = "idle" /\ att.epoch = 0 /\ att.exposes = FALSE /\ att.pending = FALSE
  BY <1>1 DEF Idle
<1>5. agent.pc = "settled" /\ agent.answer = "none" /\ agent \in AgentRow
  <2>1. agent = [pc |-> "settled", left |-> 0, answer |-> "none"] BY <1>1 DEF FreshAgent
  <2>2. 0 \in 0 .. MaxFrames OBVIOUS
  <2> QED BY <2>1, <2>2 DEF AgentRow
<1>6. Stream = <<>> /\ Len(Stream) = 0 /\ DOMAIN Stream = {} BY <1>1 DEF Stream
<1>7. ~ InQueue /\ ~ Persisting /\ ~ Ending BY <1>1, <1>3, <1>4 DEF InQueue, Persisting, Ending
<1>8. TypeOK
  <2>1. PipeTypeOK BY <1>1, <1>3 DEF PipeTypeOK, Intact
  <2>2. GrantTypeOK
    <3>1. 0 \in 0 .. MaxVersion /\ 0 \in 0 .. MaxAttempts /\ 1 \in 1 .. MaxVersion OBVIOUS
    <3>2. round \in RoundRow BY <1>2, <3>1 DEF RoundRow
    <3>3. provider \in [active : BOOLEAN, version : 1 .. MaxVersion] BY <1>2, <3>1
    <3>4. rotating \in [Callers -> 0 .. MaxVersion] BY <1>2, <3>1
    <3> QED BY <1>2, <3>1, <3>2, <3>3, <3>4 DEF GrantTypeOK, RoundRow, Statuses, Links
  <2>3. att \in [stage : Phases, epoch : 0 .. MaxAttempts, exposes : BOOLEAN, pending : BOOLEAN]
    BY <1>1 DEF Idle, Phases
  <2>4. 0 \in 0 .. 2 /\ 0 \in 0 .. MaxVersion /\ 0 \in Nat
        /\ 0 \in 0 .. MaxAttempts
    OBVIOUS
  <2>5. answers \in [Attempts -> 0 .. 2] BY <1>1, <2>4
  <2>6. box \in [up : BOOLEAN, epoch : 0 .. MaxAttempts] BY <1>1, <2>4
  <2>7. /\ notified \in BOOLEAN /\ grant \in 0 .. MaxVersion /\ cache \in 0 .. MaxVersion
        /\ used \subseteq 1 .. MaxVersion /\ disturbances \in Nat
    BY <1>1, <2>4
  <2> QED BY <2>1, <2>2, <2>3, <2>5, <2>6, <2>7, <1>5 DEF TypeOK, AgentRow
<1>9. Books BY <1>1, <1>2, <1>4 DEF Books
<1>10. Mounted BY <1>2, <1>4 DEF Mounted
<1>11. ~ Reads /\ ~ Serving /\ ~ Attached BY <1>1, <1>3, <1>4 DEF Reads, Serving, Attached
<1>12. Said BY <1>2, <1>3, <1>5, <1>6, <1>7 DEF Said, Coming, Answering
<1>13. Once BY <1>1, <1>2, <1>4, <1>6, <1>7, <1>11 DEF Once, Answering, Fenced
<1>14. Unbroken BY <1>1, <1>6 DEF Unbroken, Begins, Intact
<1> QED BY <1>2, <1>3, <1>8, <1>9, <1>10, <1>11, <1>12, <1>13, <1>14
        DEF IInv, ReaderSound, DropSound, EndAhead, AnswerAhead, AnswerKept

LEMMA NextInvariant == IInv /\ [Next]_vars => IInv'
<1> SUFFICES ASSUME IInv, [Next]_vars PROVE IInv' OBVIOUS
<1>1. CASE Next
  <2>1. Step BY <1>1 DEF Next
  <2> QED BY <1>1, <2>1, TypeKept, BooksKept, MountedKept, ReaderKept, NextPipe, UnbrokenKept,
             SaidKept, EndAheadKept, AnswerAheadKept, OnceKept, AnswerKeptKept DEF IInv
<1>2. CASE UNCHANGED vars
  <2>1. /\ TypeOK' /\ Books' /\ Mounted' /\ ReaderSound' /\ DropSound' /\ AnswerKept'
    BY <1>2 DEF vars, pipeVars, taskVars, grantVars, procVars, boxVars, proxyVars, IInv, TypeOK,
       PipeTypeOK, GrantTypeOK, Books, Mounted, ReaderSound, Reads, Serving, DropSound, AnswerKept
  <2>2. /\ UNCHANGED <<transport, round, answers, agent, box, att, rd, notified, queue>>
        /\ Stream' = Stream
    BY <1>2 DEF vars, pipeVars, taskVars, procVars, boxVars, Stream
  <2>3. /\ Ending' = Ending /\ Persisting' = Persisting /\ Attached' = Attached
        /\ Serving' = Serving /\ Fenced' = Fenced /\ Reads' = Reads
    BY <2>2 DEF Ending, InQueue, Persisting, Attached, Serving, Fenced, Reads
  <2>5. Unbroken'
    <3>1. torn' = torn BY <1>2 DEF vars, pipeVars
    <3> QED BY <2>2, <3>1 DEF IInv, Unbroken, Begins
  <2>4. Said' /\ EndAhead' /\ AnswerAhead' /\ Once'
    BY <2>2, <2>3 DEF IInv, Said, Coming, Answering, EndAhead, AnswerAhead, AnswerSafe, Ahead, Once,
       Unanswered
  <2> QED BY <2>1, <2>4, <2>5 DEF IInv
<1> QED BY <1>1, <1>2

--------------------------------------------------------------------------------
(* The key of the task *)

LEMMA GrantEnds == GrantMove /\ status' = "ready" /\ TypeOK /\ Books => status = "ready"
BY GrantEffects DEF GrantEffect

LEMMA VersionsKept ==
  ASSUME TypeOK, Books, Versions, [Next]_vars
  PROVE  Versions'
<1> USE GrantAssumption
<1>1. /\ snap \in Nat /\ provider.version \in Nat /\ provider.version > 0
      /\ cache \in Nat /\ grant \in Nat /\ used \subseteq Nat
  BY DEF TypeOK, GrantTypeOK
<1>2. ASSUME UNCHANGED <<snap, provider, overwritten, cache, grant, used>>,
             status' = "ready" => status = "ready"
      PROVE  Versions'
  BY <1>2 DEF Versions, Lent
<1>3. CASE UNCHANGED vars
  BY <1>2, <1>3 DEF vars, taskVars, grantVars, proxyVars
<1>4. CASE Inside
  BY <1>2, <1>4, InsideFacts DEF taskVars, grantVars, proxyVars
<1>5. CASE Claim
  <2>1. status' = "running" BY <1>5 DEF Claim
  <2> QED BY <1>2, <1>5, <2>1 DEF Claim, grantVars, proxyVars
<1>6. CASE Recheck \/ LinkStop
  BY <1>2, <1>6 DEF Recheck, LinkStop, taskVars, grantVars, proxyVars
<1>7. CASE Settle
  <2>1. UNCHANGED <<snap, provider, overwritten, cache, grant, used>>
    BY <1>7 DEF Settle, SettleWith, grantVars, proxyVars
  <2>2. status' = "ready" => status = "ready" \/ snap = provider.version
    BY <1>7 DEF Settle, SettleWith, KeyReplaced
  <2> QED BY <2>1, <2>2 DEF Versions, Lent
<1>8. CASE Crash
  <2>1. grant' = 0 /\ UNCHANGED <<status, snap, provider, overwritten, cache, used>>
    BY <1>8 DEF Crash
  <2> QED BY <2>1 DEF Versions, Lent
<1>9. CASE ProxyCall
  <2>1. UNCHANGED <<status, snap, provider, overwritten>>
    BY <1>9, ProxyFacts DEF taskVars, grantVars
  <2>2. CASE CallWithCached
    <3>1. used' = used \cup {cache} /\ UNCHANGED <<cache, grant>> BY <2>2 DEF CallWithCached
    <3> QED BY <2>1, <3>1 DEF Versions, Lent
  <2>3. CASE GrantCheck
    <3>1. grant' = provider.version /\ UNCHANGED <<cache, used>> BY <2>3 DEF GrantCheck
    <3> QED BY <1>1, <2>1, <3>1 DEF Versions, Lent
  <2>4. CASE GrantIssue
    <3>1. used' = used \cup {grant} /\ cache' = grant /\ grant' = 0 BY <2>4 DEF GrantIssue
    <3> QED BY <2>1, <3>1 DEF Versions, Lent
  <2>5. CASE GrantRefused
    <3>1. grant' = 0 /\ UNCHANGED <<cache, used>> BY <2>5 DEF GrantRefused
    <3> QED BY <2>1, <3>1 DEF Versions, Lent
  <2> QED BY <1>9, <2>2, <2>3, <2>4, <2>5 DEF ProxyCall
<1>10. CASE GrantMove
  <2>1. UNCHANGED <<cache, grant, used>> BY <1>10, GrantMoveTyped DEF proxyVars
  <2>2. status' = "ready" => status = "ready" BY <1>10, GrantEnds
  <2>3. CASE ReadSources
    <3>1. /\ status = "none" /\ snap' = provider.version
          /\ UNCHANGED <<status, provider, overwritten>>
      BY <2>3 DEF ReadSources, grantVars
    <3>2. used = {} /\ cache = 0 /\ grant = 0 BY <3>1 DEF Books
    <3> QED BY <1>1, <2>1, <3>1, <3>2 DEF Versions, Lent
  <2>4. CASE \E c \in Callers : ReadForRotation(c)
    BY <1>2, <2>1, <2>2, <2>4 DEF ReadForRotation, taskVars
  <2>5. CASE \E c \in Callers : Rotate(c)
    <3>1. PICK c \in Callers : Rotate(c) BY <2>5
    <3>2. snap' = snap /\ status' # "ready" BY <3>1 DEF Rotate, FailUnstarted, Unstarted
    <3>3. SUFFICES ASSUME ~ overwritten' PROVE Versions'
      BY DEF Versions
    <3>4. ~ overwritten /\ rotating[c] = provider.version BY <3>1, <3>3 DEF Rotate
    <3>5. provider'.version = provider.version + 1
      <4>1. provider \in [active : BOOLEAN, version : 1 .. MaxVersion] BY DEF TypeOK, GrantTypeOK
      <4> QED BY <3>1, <3>4, <4>1 DEF Rotate
    <3>6. ASSUME NEW k \in Nat, Lent(k) PROVE Lent(k)' BY <1>1, <3>2, <3>5, <3>6 DEF Lent
    <3> QED BY <1>1, <2>1, <3>2, <3>4, <3>5, <3>6 DEF Versions
  <2>6. CASE Revoke
    <3>1. provider \in [active : BOOLEAN, version : 1 .. MaxVersion] BY DEF TypeOK, GrantTypeOK
    <3>2. provider'.version = provider.version /\ UNCHANGED <<snap, overwritten>>
      BY <2>6, <3>1 DEF Revoke, FailUnstarted
    <3> QED BY <2>1, <2>2, <3>2 DEF Versions, Lent
  <2>7. CASE \/ InsertTask \/ CommitInput \/ Expire \/ SwitchOff \/ SwitchOn \/ Scan(Executing)
             \/ WriteEnd \/ LinkFails
    BY <1>2, <2>1, <2>2, <2>7 DEF InsertTask, CommitInput, Expire, SwitchOff, SwitchOn, Scan,
       WriteEnd, LinkFails, taskVars, grantVars
  <2> QED BY <1>10, <2>3, <2>4, <2>5, <2>6, <2>7 DEF GrantMove, Create, LoseLease, ChangeKey,
          WriteKey, Switch, Return, LinkScan, LinkWrite
<1>11. CASE Next
  <2>1. Step BY <1>11 DEF Next
  <2> QED BY <1>4, <1>5, <1>6, <1>7, <1>8, <1>9, <1>10, <2>1, StepParts
<1> QED BY <1>3, <1>11

--------------------------------------------------------------------------------
(* The theorems *)

\* IInv is inductive, and the other theorems follow from it.
THEOREM Invariance == Spec => []IInv
BY InitInvariant, NextInvariant, PTL DEF Spec

\* Every variable has its type; among the bounds, an attempt stores its answer at most twice
\* (the write of _persist_fact whose commit was in doubt, and the make-up in settle).
THEOREM TypeCorrect == Spec => []TypeOK
<1>1. IInv => TypeOK BY DEF IInv
<1> QED BY <1>1, Invariance, PTL

\* Over the Docker API, when everything the agent wrote has been read and it has settled, the
\* round has agent_settled in its queue, whatever lines were too long before it, unless the
\* rest of a line cut at twice the limit has ended the reader; nothing else ends that of a
\* container that goes on (_LineAssembler.readline, _drop_oversize_line, on_frame).
THEOREM EndIsSeen == Spec => []SettledIsSeenOverApi
<1>1. ASSUME IInv PROVE SettledIsSeenOverApi
  <2>5. transport = "api" => (torn.fatal => torn.cut) BY <1>1 DEF IInv, Unbroken
  <2>1. SUFFICES ASSUME transport = "api", Attached, att.stage = "pumping",
                        agent.pc = "settled", Drained
                 PROVE  InQueue
    BY <2>5 DEF SettledIsSeenOverApi, SettledIsSeen, InQueue
  <2>2. Ending \/ \E i, j \in DOMAIN Stream : Whole(Stream, "settled", i, j)
    BY <1>1, <2>1 DEF IInv, EndAhead
  <2>3. Ending => InQueue BY <2>1 DEF Ending, Drained
  <2>4. ASSUME NEW i \in DOMAIN Stream, NEW j \in DOMAIN Stream, Whole(Stream, "settled", i, j)
        PROVE  FALSE
    <3>1. buf \in Seq(Units) /\ pipe = <<>> BY <1>1, <2>1 DEF IInv, TypeOK, PipeTypeOK, Drained
    <3>2. Stream = buf BY <3>1 DEF Stream
    <3> QED BY <2>1, <2>4, <3>2 DEF Whole, Drained, HasLine
  <2> QED BY <2>2, <2>3, <2>4
<1> QED BY <1>1, Invariance, PTL

\* Over the Docker API, a round that is settled has the answer its agent gave: its write is
\* ahead of the end of the round, or settle makes it up (_persist_fact, settle).
THEOREM AnswerIsKept == Spec => []AnswerKept
<1>1. IInv => AnswerKept BY DEF IInv
<1> QED BY <1>1, Invariance, PTL

\* When the linkage of a switched-off server has ended, no round in the books runs with its
\* tools (_resolve_mcp_entries, _terminate_candidates, _terminate_one).
THEOREM SwitchIsFinal == Spec => []SwitchedOffLeaves
<1>1. IInv => SwitchedOffLeaves BY DEF IInv, Books, Mounted, SwitchedOffLeaves, Live
<1> QED BY <1>1, Invariance, PTL

\* Until a rotation of the key has written over another, a task that comes out of its round as
\* ready was served by the key it was created with and no other, whatever requests to rotate
\* it are under way (_provider_revoked, fail_unstarted_tasks, update_provider).
THEOREM KeyIsTheTasks == Spec => []KeyOfTheTask
<1>1. Init => Versions
  <2> SUFFICES ASSUME Init PROVE Versions OBVIOUS
  <2>1. /\ snap = 0 /\ provider = [active |-> TRUE, version |-> 1] /\ status = "none"
        /\ cache = 0 /\ grant = 0 /\ used = {}
    BY DEF Init, GrantInit
  <2> QED BY <2>1 DEF Versions, Lent
<1>2. IInv /\ Versions /\ [Next]_vars => Versions'
  BY VersionsKept DEF IInv
<1>3. IInv /\ Versions => KeyOfTheTask
  <2> SUFFICES ASSUME IInv, Versions, status = "ready", ~ overwritten, NEW k \in used
               PROVE  k = snap
    BY DEF KeyOfTheTask
  <2>1. k \in 1 .. MaxVersion /\ snap \in Nat /\ provider.version \in Nat
    BY DEF IInv, TypeOK, GrantTypeOK
  <2> QED BY <2>1 DEF Versions, Lent
<1> QED BY <1>1, <1>2, <1>3, Invariance, PTL DEF Spec
================================================================================
