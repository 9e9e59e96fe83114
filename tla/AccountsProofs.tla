---------------------------- MODULE AccountsProofs ----------------------------
(***************************************************************************)
(* Proofs about Accounts for any number of sessions, handlers, links and   *)
(* challenges.  That an erased account has no tasks rests on two places:   *)
(* the erasure rolls back while a task pins a key (SweepAccount), and      *)
(* without a key no task is created (CreateTask).                          *)
(***************************************************************************)
EXTENDS Accounts, TLAPS

SessionRow   == [proved : BOOLEAN]
ChallengeRow == [attempts : 0 .. MaxAttempts - 1, proved : BOOLEAN]

SessionsOK   == sessions \in [Sessions -> {None} \cup SessionRow]
LinksOK      == links \in [Purposes -> 0 .. MaxLinks]
ChallengesOK == challenges \in [Challenges -> {None} \cup ChallengeRow]
RequestsOK   == requests \in [Requests -> Request]

FlagsOK ==
    /\ invitation \in {"none", "open", "expired", "revoked", "consumed"}
    /\ status \in {"none", "pending", "active", "suspended", "deleting", "deleted"}
    /\ grace \in {"none", "running", "over"}
    /\ tasks \in BOOLEAN /\ cascade \in BOOLEAN /\ sweeping \in BOOLEAN

LEMMA TypeParts == TypeOK <=> FlagsOK /\ SessionsOK /\ LinksOK /\ ChallengesOK /\ RequestsOK
BY DEF TypeOK, FlagsOK, SessionsOK, LinksOK, ChallengesOK, RequestsOK, SessionRow, ChallengeRow

IInv == TypeOK /\ ErasedHasNoTasks

--------------------------------------------------------------------------------
(* The parts of transactions *)

LEMMA OpenTyped ==
  ASSUME SessionsOK, NEW proved \in BOOLEAN, OpenSession(proved)
  PROVE  SessionsOK'
<1>1. PICK s, row : /\ sessions' = [sessions EXCEPT ![s] = row]
                    /\ row = [proved |-> proved]
  BY DEF OpenSession
<1>2. row \in SessionRow BY <1>1 DEF SessionRow
<1> QED BY <1>1, <1>2 DEF SessionsOK

LEMMA RevokedTyped ==
  ASSUME SessionsOK, RevokeAll
  PROVE  SessionsOK'
BY DEF SessionsOK, RevokeAll, Revoked

LEMMA NewLinkTyped ==
  ASSUME LinksOK, NEW p \in Purposes, NewLink(p)
  PROVE  LinksOK'
<1>1. links["email_verify"] \in 0 .. MaxLinks /\ links["password_reset"] \in 0 .. MaxLinks
      /\ links["deletion_cancel"] \in 0 .. MaxLinks
  BY DEF LinksOK, Purposes
<1>2. links[p] + 1 \in 0 .. MaxLinks BY <1>1, BoundsAssumption DEF NewLink, Purposes
<1>3. links' = [links EXCEPT ![p] = links[p] + 1] BY DEF NewLink
<1> QED BY <1>2, <1>3 DEF LinksOK

LEMMA SpendTyped ==
  ASSUME LinksOK, NEW p \in Purposes, Spend(p)
  PROVE  LinksOK'
<1>1. links[p] - 1 \in 0 .. MaxLinks BY BoundsAssumption DEF LinksOK, Spend
<1>2. links' = [links EXCEPT ![p] = links[p] - 1] BY DEF Spend
<1> QED BY <1>1, <1>2 DEF LinksOK

LEMMA NoLinksTyped ==
  ASSUME LinksOK, NEW p \in Purposes, links' = [links EXCEPT ![p] = 0]
  PROVE  LinksOK'
BY BoundsAssumption DEF LinksOK

LEMMA BecomesTyped ==
  ASSUME RequestsOK, NEW r \in Requests, NEW record \in Request, Becomes(r, record)
  PROVE  RequestsOK'
BY DEF RequestsOK, Becomes

LEMMA DoneTyped ==
  ASSUME RequestsOK, NEW r \in Requests, Done(r)
  PROVE  RequestsOK'
<1>1. Idle \in Request BY DEF Idle, Request
<1> QED BY <1>1, BecomesTyped DEF Done

LEMMA PasswordTyped ==
  ASSUME SessionsOK, RequestsOK, ChallengesOK, NEW setters, NEW done, PasswordChanges(setters, done)
  PROVE  SessionsOK' /\ RequestsOK' /\ ChallengesOK'
<1>1. ASSUME NEW q \in Request, q.op \in {"open", "guess", "cancel"}
      PROVE  [q EXCEPT !.proved = FALSE] \in Request
  <2>1. PICK n : n = [q EXCEPT !.proved = FALSE] OBVIOUS
  <2>2. CASE q \in [op : {"open", "cancel"}, proved : BOOLEAN]
    <3>1. n \in [op : {"open", "cancel"}, proved : BOOLEAN] BY <2>1, <2>2
    <3> QED BY <2>1, <3>1 DEF Request
  <2>3. CASE q \in [op : {"guess"}, of : Challenges, proved : BOOLEAN]
    <3>1. n \in [op : {"guess"}, of : Challenges, proved : BOOLEAN] BY <2>1, <2>3
    <3> QED BY <2>1, <3>1 DEF Request
  <2> QED BY <1>1, <2>2, <2>3 DEF Request
<1>2. Idle \in Request BY DEF Idle, Request
<1>3. RequestsOK'
  <2> DEFINE n(r) == IF r \in done THEN Idle
                     ELSE IF requests[r].op \in {"open", "guess", "cancel"}
                          THEN [requests[r] EXCEPT !.proved = FALSE] ELSE requests[r]
  <2>1. requests' = [r \in Requests |-> n(r)] BY DEF PasswordChanges
  <2>2. \A r \in Requests : n(r) \in Request BY <1>1, <1>2 DEF RequestsOK
  <2> HIDE DEF n
  <2> QED BY <2>1, <2>2 DEF RequestsOK
<1>4. ASSUME NEW q \in ChallengeRow PROVE [q EXCEPT !.proved = FALSE] \in ChallengeRow
  BY DEF ChallengeRow
<1>5. ChallengesOK'
  <2> DEFINE n(c) == IF challenges[c] = None THEN None ELSE [challenges[c] EXCEPT !.proved = FALSE]
  <2>1. challenges' = [c \in Challenges |-> n(c)] BY DEF PasswordChanges
  <2>2. \A c \in Challenges : n(c) \in {None} \cup ChallengeRow BY <1>4 DEF ChallengesOK
  <2> HIDE DEF n
  <2> QED BY <2>1, <2>2 DEF ChallengesOK
<1>6. SessionsOK'
  <2>1. \A s \in Sessions : Outdated(setters)[s] \in {None} \cup SessionRow
    <3> SUFFICES ASSUME NEW s \in Sessions, sessions[s] # None, s \notin setters
                 PROVE  [sessions[s] EXCEPT !.proved = FALSE] \in SessionRow
      BY DEF Outdated, SessionsOK
    <3> QED BY DEF SessionsOK, SessionRow
  <2>2. PICK old : old = Outdated(setters) OBVIOUS
  <2> QED BY <2>1, <2>2 DEF PasswordChanges, Revoked, SessionsOK
<1> QED BY <1>3, <1>5, <1>6

LEMMA RecordedTyped ==
  ASSUME NEW ch \in {None} \cup ChallengeRow
  PROVE  Recorded(ch) \in {None} \cup ChallengeRow
<1>1. CASE ch = None \/ ch.attempts + 1 >= MaxAttempts BY <1>1 DEF Recorded
<1>2. CASE ~ (ch = None \/ ch.attempts + 1 >= MaxAttempts)
  <2>1. ch \in ChallengeRow /\ ch.attempts + 1 \in 0 .. MaxAttempts - 1
    BY <1>2, BoundsAssumption DEF ChallengeRow
  <2>2. PICK n : n = [ch EXCEPT !.attempts = ch.attempts + 1] OBVIOUS
  <2>3. n \in ChallengeRow BY <2>1, <2>2 DEF ChallengeRow
  <2> QED BY <1>2, <2>2, <2>3 DEF Recorded
<1> QED BY <1>1, <1>2

--------------------------------------------------------------------------------
(* The steps *)

LEMMA InitInvariant ==
  ASSUME Init
  PROVE  IInv
<1>1. Idle \in Request BY DEF Idle, Request
<1>2. TypeOK
  <2>1. 0 \in 0 .. MaxLinks BY BoundsAssumption
  <2>2. LinksOK BY <2>1 DEF Init, LinksOK
  <2>3. FlagsOK /\ SessionsOK /\ ChallengesOK BY DEF Init, FlagsOK, SessionsOK, ChallengesOK
  <2>4. RequestsOK BY <1>1 DEF Init, RequestsOK
  <2> QED BY <2>2, <2>3, <2>4, TypeParts
<1>3. ErasedHasNoTasks BY DEF Init, ErasedHasNoTasks
<1> QED BY <1>2, <1>3 DEF IInv

LEMMA FlagsNext ==
  ASSUME FlagsOK, [Next]_vars
  PROVE  FlagsOK'
BY ZenonT(60) DEF FlagsOK, Next, vars, rows, memory, CreateInvitation, InvitationExpires, RevokeInvitation,
   AcceptInvitation, ConfirmEmail, ConfirmReset, LinkExpires, ChallengeExpires, EndSession, Resend,
   InsertLink, ReadForCancel, Login, VerifyCode, FindChallenge, StartSession, CancelDeletion,
   AskChange, ChangePassword, AskTask, CreateTask, AskDeletion, RequestDeletion, GraceEnds, SweepCandidates,
   SweepAccount, Suspend, Cascade, CascadeFails, Unsuspend, Restart

LEMMA SessionsNext ==
  ASSUME SessionsOK, RequestsOK, ChallengesOK, [Next]_vars
  PROVE  SessionsOK'
<1>1. CASE UNCHANGED sessions BY <1>1 DEF SessionsOK
<1>2. CASE AcceptInvitation BY <1>2, OpenTyped DEF AcceptInvitation
<1>3. CASE ConfirmReset BY <1>3, PasswordTyped DEF ConfirmReset
<1>4. ASSUME NEW s \in Sessions, EndSession(s) PROVE SessionsOK'
  BY <1>4 DEF EndSession, SessionsOK
<1>5. ASSUME NEW r \in Requests, StartSession(r) PROVE SessionsOK'
  <2>1. requests[r].proved \in BOOLEAN BY <1>5 DEF StartSession, RequestsOK, Request
  <2> QED BY <1>5, <2>1, OpenTyped DEF StartSession
<1>6. ASSUME NEW r \in Requests, CancelDeletion(r) PROVE SessionsOK'
  <2>1. requests[r].proved \in BOOLEAN BY <1>6 DEF CancelDeletion, RequestsOK, Request
  <2> QED BY <1>1, <1>6, <2>1, OpenTyped DEF CancelDeletion
<1>7. ASSUME NEW r \in Requests, ChangePassword(r) PROVE SessionsOK'
  BY <1>7, PasswordTyped DEF ChangePassword
<1>8. ASSUME NEW r \in Requests, RequestDeletion(r) PROVE SessionsOK'
  BY <1>1, <1>8, RevokedTyped DEF RequestDeletion
<1>9. CASE SweepAccount BY <1>1, <1>9, PasswordTyped DEF SweepAccount
<1>10. CASE Cascade BY <1>10, RevokedTyped DEF Cascade
<1> QED BY <1>1, <1>2, <1>3, <1>4, <1>5, <1>6, <1>7, <1>8, <1>9, <1>10
        DEF Next, vars, rows, CreateInvitation, InvitationExpires, RevokeInvitation, ConfirmEmail,
            LinkExpires, ChallengeExpires, Resend, InsertLink, ReadForCancel, Login, VerifyCode,
            FindChallenge, AskChange, AskTask, CreateTask, AskDeletion, GraceEnds,
            SweepCandidates, Suspend, CascadeFails, Unsuspend, Restart

\* Late tasks: none is created without a key, and the erasure waits for there to be none.
LEMMA TasksNext ==
  ASSUME FlagsOK, ErasedHasNoTasks, [Next]_vars
  PROVE  ErasedHasNoTasks'
<1> USE DEF ErasedHasNoTasks
<1>1. CASE UNCHANGED <<status, tasks>> BY <1>1
<1>2. CASE AcceptInvitation BY <1>2 DEF AcceptInvitation
<1>3. CASE ConfirmEmail BY <1>3 DEF ConfirmEmail
<1>4. ASSUME NEW r \in Requests, CreateTask(r) PROVE ErasedHasNoTasks' BY <1>4 DEF CreateTask
<1>5. ASSUME NEW r \in Requests, RequestDeletion(r) PROVE ErasedHasNoTasks'
  BY <1>1, <1>5 DEF RequestDeletion
<1>6. ASSUME NEW r \in Requests, CancelDeletion(r) PROVE ErasedHasNoTasks'
  BY <1>1, <1>6 DEF CancelDeletion
<1>7. CASE SweepAccount BY <1>1, <1>7 DEF SweepAccount
<1>8. CASE Suspend BY <1>8 DEF Suspend
<1>9. CASE Unsuspend BY <1>9 DEF Unsuspend
<1> QED BY <1>1, <1>2, <1>3, <1>4, <1>5, <1>6, <1>7, <1>8, <1>9
        DEF Next, vars, rows, memory, CreateInvitation, InvitationExpires, RevokeInvitation,
            ConfirmReset, LinkExpires, ChallengeExpires, EndSession, Resend, InsertLink,
            ReadForCancel, Login, VerifyCode, FindChallenge, StartSession, AskChange,
            ChangePassword, AskTask, AskDeletion, GraceEnds, SweepCandidates, Cascade,
            CascadeFails, Restart

LEMMA LinksNext ==
  ASSUME LinksOK, RequestsOK, [Next]_vars
  PROVE  LinksOK'
<1> /\ "email_verify" \in Purposes /\ "password_reset" \in Purposes
    /\ "deletion_cancel" \in Purposes
  BY DEF Purposes
<1>1. CASE UNCHANGED links BY <1>1 DEF LinksOK
<1>2. CASE AcceptInvitation BY <1>2, NewLinkTyped DEF AcceptInvitation
<1>3. CASE ConfirmEmail BY <1>3, SpendTyped DEF ConfirmEmail
<1>4. CASE ConfirmReset BY <1>4, SpendTyped DEF ConfirmReset
<1>5. ASSUME NEW p \in Purposes, LinkExpires(p) PROVE LinksOK' BY <1>5, SpendTyped DEF LinkExpires
<1>6. ASSUME NEW r \in Requests, NEW p \in Purposes, Resend(r, p) PROVE LinksOK'
  BY <1>6, NoLinksTyped DEF Resend
<1>7. ASSUME NEW r \in Requests, InsertLink(r) PROVE LinksOK'
  <2>1. requests[r].purpose \in Purposes BY <1>7 DEF InsertLink, RequestsOK, Request
  <2> QED BY <1>7, <2>1, NewLinkTyped DEF InsertLink
<1>8. ASSUME NEW r \in Requests, RequestDeletion(r) PROVE LinksOK'
  BY <1>1, <1>8, NewLinkTyped DEF RequestDeletion
<1>9. ASSUME NEW r \in Requests, CancelDeletion(r) PROVE LinksOK'
  BY <1>1, <1>9, SpendTyped DEF CancelDeletion
<1>10. CASE Cascade BY <1>10, NoLinksTyped DEF Cascade
<1> QED BY <1>1, <1>2, <1>3, <1>4, <1>5, <1>6, <1>7, <1>8, <1>9, <1>10
        DEF Next, vars, rows, CreateInvitation, InvitationExpires, RevokeInvitation,
            ChallengeExpires, EndSession, ReadForCancel, Login, VerifyCode, FindChallenge,
            StartSession, AskChange, ChangePassword, AskTask, CreateTask, AskDeletion, GraceEnds, SweepCandidates,
            SweepAccount, Suspend, CascadeFails, Unsuspend, Restart

LEMMA RequestsNext ==
  ASSUME SessionsOK, RequestsOK, ChallengesOK, [Next]_vars
  PROVE  RequestsOK' /\ ChallengesOK'
<1> DEFINE Goal == RequestsOK' /\ ChallengesOK'
<1>1. CASE UNCHANGED <<requests, challenges>> BY <1>1 DEF RequestsOK, ChallengesOK
<1>2. ASSUME NEW setters, NEW done, PasswordChanges(setters, done) PROVE Goal
  BY <1>2, PasswordTyped
<1>3. ASSUME NEW r \in Requests, NEW record \in Request, Becomes(r, record), UNCHANGED challenges
      PROVE  Goal
  BY <1>3, BecomesTyped DEF ChallengesOK
<1>4. Idle \in Request BY DEF Idle, Request
<1>5. ASSUME NEW c, NEW ch \in {None} \cup ChallengeRow,
             challenges' = [challenges EXCEPT ![c] = ch]
      PROVE  ChallengesOK'
  BY <1>5 DEF ChallengesOK
<1>6. ASSUME NEW c \in Challenges, ChallengeExpires(c) PROVE Goal
  BY <1>5, <1>6 DEF ChallengeExpires, RequestsOK
<1>7. ASSUME NEW r \in Requests, NEW p \in Purposes, Resend(r, p) PROVE Goal
  <2>1. [op |-> "insert", purpose |-> p] \in Request BY DEF Request
  <2> QED BY <1>3, <1>7, <2>1 DEF Resend, Start
<1>8. ASSUME NEW r \in Requests, ReadForCancel(r) PROVE Goal
  <2>1. [op |-> "cancel", proved |-> TRUE] \in Request BY DEF Request
  <2> QED BY <1>3, <1>8, <2>1 DEF ReadForCancel, Start, rows
<1>9. ASSUME NEW r \in Requests, Login(r) PROVE Goal
  <2>1. [op |-> "open", proved |-> TRUE] \in Request BY DEF Request
  <2>2. [attempts |-> 0, proved |-> TRUE] \in ChallengeRow
    BY BoundsAssumption DEF ChallengeRow
  <2>3. CASE \E c \in Challenges : NewChallenge(c) /\ UNCHANGED requests
    BY <1>5, <2>2, <2>3 DEF NewChallenge, RequestsOK
  <2> QED BY <1>3, <1>9, <2>1, <2>3 DEF Login
<1>10. ASSUME NEW r \in Requests, VerifyCode(r) PROVE Goal
  <2>1. PICK c \in Challenges, proved \in BOOLEAN :
          c = requests[r].of /\ proved = requests[r].proved
    BY <1>10 DEF VerifyCode, RequestsOK, Request
  <2>2. Recorded(challenges[c]) \in {None} \cup ChallengeRow BY RecordedTyped DEF ChallengesOK
  <2>3. \/ UNCHANGED challenges
        \/ challenges' = [challenges EXCEPT ![c] = Recorded(challenges[c])]
        \/ challenges' = [challenges EXCEPT ![c] = None]
    BY <1>10, <2>1 DEF VerifyCode
  <2>4. ChallengesOK' BY <1>5, <2>2, <2>3 DEF ChallengesOK
  <2>5. [op |-> "open", proved |-> proved] \in Request BY DEF Request
  <2>6. Done(r) \/ Becomes(r, [op |-> "open", proved |-> proved]) BY <1>10, <2>1 DEF VerifyCode
  <2> QED BY <2>4, <2>5, <2>6, DoneTyped, BecomesTyped
<1>11. ASSUME NEW r \in Requests, NEW c \in Challenges, FindChallenge(r, c) PROVE Goal
  <2>1. challenges[c].proved \in BOOLEAN
    BY <1>11 DEF FindChallenge, ChallengesOK, ChallengeRow
  <2>2. [op |-> "guess", of |-> c, proved |-> challenges[c].proved] \in Request
    BY <2>1 DEF Request
  <2> QED BY <1>3, <1>11, <2>2 DEF FindChallenge, Start
<1>12. ASSUME NEW r \in Requests, NEW s \in Sessions, AskChange(r, s) PROVE Goal
  <2>1. [op |-> "change", by |-> s] \in Request BY DEF Request
  <2> QED BY <1>3, <1>12, <2>1 DEF AskChange, Start
<1>13. ASSUME NEW r \in Requests, AskDeletion(r) PROVE Goal
  <2>1. [op |-> "delete"] \in Request BY DEF Request
  <2> QED BY <1>3, <1>13, <2>1 DEF AskDeletion, Start
<1>19. ASSUME NEW r \in Requests, AskTask(r) PROVE Goal
  <2>1. [op |-> "task"] \in Request BY DEF Request
  <2> QED BY <1>3, <1>19, <2>1 DEF AskTask, Start
<1>14. ASSUME NEW r \in Requests,
              InsertLink(r) \/ CreateTask(r) \/ StartSession(r) \/ CancelDeletion(r) \/ RequestDeletion(r)
       PROVE  Goal
  BY <1>3, <1>4, <1>14 DEF InsertLink, CreateTask, StartSession, CancelDeletion, RequestDeletion, Done
<1>15. ASSUME NEW r \in Requests, ChangePassword(r) PROVE Goal BY <1>2, <1>15 DEF ChangePassword
<1>16. CASE ConfirmReset BY <1>2, <1>16 DEF ConfirmReset
<1>17. CASE SweepAccount BY <1>1, <1>2, <1>17 DEF SweepAccount
<1>18. CASE Restart BY <1>4, <1>18 DEF Restart, RequestsOK, ChallengesOK
<1> HIDE DEF Goal
<1> QED BY <1>1, <1>6, <1>7, <1>8, <1>9, <1>10, <1>11, <1>12, <1>13, <1>14, <1>15, <1>16, <1>17, <1>18, <1>19
        DEF Goal, Next, vars, memory, CreateInvitation, InvitationExpires, RevokeInvitation,
            AcceptInvitation, ConfirmEmail, LinkExpires, EndSession, GraceEnds, SweepCandidates,
            Suspend, Cascade, CascadeFails, Unsuspend

LEMMA NextInvariant ==
  ASSUME IInv, [Next]_vars
  PROVE  IInv'
<1>1. FlagsOK /\ SessionsOK /\ LinksOK /\ ChallengesOK /\ RequestsOK /\ ErasedHasNoTasks
  BY TypeParts DEF IInv
<1>2. FlagsOK' /\ SessionsOK' /\ LinksOK' /\ ChallengesOK' /\ RequestsOK' /\ ErasedHasNoTasks'
  BY <1>1, FlagsNext, SessionsNext, LinksNext, RequestsNext, TasksNext
<1> QED BY <1>2 DEF IInv, TypeOK, FlagsOK, SessionsOK, LinksOK, ChallengesOK, RequestsOK,
           SessionRow, ChallengeRow

--------------------------------------------------------------------------------
(* Theorems *)

\* Rows, links, challenges and what the handlers hold keep their types: a challenge that has
\* its last failed attempt is gone, and no link is spent that is not there.
THEOREM TypeCorrect == Spec => []TypeOK
<1>1. IInv => TypeOK BY DEF IInv
<1> QED BY InitInvariant, NextInvariant, <1>1, PTL DEF Spec

\* No task is left of an erased account, however late create_task and the sweep commit.
THEOREM ErasedHasNoTasksCorrect == Spec => []ErasedHasNoTasks
<1>1. IInv => ErasedHasNoTasks BY DEF IInv
<1> QED BY InitInvariant, NextInvariant, <1>1, PTL DEF Spec

\* A step of the account services is a move of users.status that AccountLifecycle allows, or
\* leaves status and deadline alone.
LEMMA LifecycleStep ==
  ASSUME [Next]_vars
  PROVE  [Lifecycle!Next]_(Lifecycle!vars)
<1> USE DEF Lifecycle!Next, Lifecycle!vars, Lifecycle!Move
<1>1. CASE UNCHANGED <<status, grace>> BY <1>1
<1>2. CASE AcceptInvitation BY <1>2 DEF AcceptInvitation, Lifecycle!Open
<1>3. CASE ConfirmEmail BY <1>3 DEF ConfirmEmail, Lifecycle!Verify
<1>4. ASSUME NEW r \in Requests, CancelDeletion(r) PROVE [Lifecycle!Next]_(Lifecycle!vars)
  BY <1>4 DEF CancelDeletion, Lifecycle!Withdraw
<1>5. ASSUME NEW r \in Requests, RequestDeletion(r) PROVE [Lifecycle!Next]_(Lifecycle!vars)
  BY <1>5 DEF RequestDeletion, Lifecycle!AskEnd
<1>6. CASE GraceEnds BY <1>6 DEF GraceEnds, Lifecycle!GraceIsOver
<1>7. CASE SweepAccount BY <1>7 DEF SweepAccount, Lifecycle!Erase
<1>8. CASE Suspend BY <1>8 DEF Suspend, Lifecycle!Bar
<1>9. CASE Unsuspend BY <1>9 DEF Unsuspend, Lifecycle!LetIn
<1> QED BY <1>1, <1>2, <1>3, <1>4, <1>5, <1>6, <1>7, <1>8, <1>9
        DEF Next, vars, rows, memory, CreateInvitation, InvitationExpires, RevokeInvitation,
            ConfirmReset, LinkExpires, ChallengeExpires, EndSession, Resend, InsertLink,
            ReadForCancel, Login, VerifyCode, FindChallenge, StartSession, AskChange,
            ChangePassword, AskTask, CreateTask, AskDeletion, SweepCandidates, Cascade, CascadeFails, Restart

\* Accounts implements AccountLifecycle: whichever handler, sweep or administrator was late, an
\* account is erased only while a deletion stands, and a barred one is let in by an unban alone.
THEOREM Refinement == Spec => ImplementsLifecycle
<1>1. Init => Lifecycle!Init BY DEF Init, Lifecycle!Init
<1> QED BY <1>1, LifecycleStep, PTL DEF Spec, ImplementsLifecycle, Lifecycle!Spec

================================================================================
