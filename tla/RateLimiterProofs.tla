--------------------------- MODULE RateLimiterProofs ---------------------------
(***************************************************************************)
(* Proof of OverrunBounded for any requests, subjects, limit and window.   *)
(* The invariant behind it counts, per subject, what was admitted within   *)
(* the window together with what is counted but not yet committed: the     *)
(* first part was seen by the last count, the second has a lock key each.  *)
(***************************************************************************)
EXTENDS RateLimiter, TLAPS, FiniteSetTheorems

Margin == Window - MaxWait

\* Times: a transaction that waits or holds its lock is younger than MaxWait, and one
\* that was admitted had been when it was.
Timely ==
    \A r \in Requests :
       /\ began[r] <= now
       /\ stage[r] \in Open => now <= began[r] + MaxWait
       /\ stage[r] = "admitted" => decidedAt[r] <= now /\ decidedAt[r] <= began[r] + MaxWait

\* The advisory lock admits one holder per key.
OneHolderPerKey ==
    \A q, r \in Requests :
       stage[q] = "counted" /\ stage[r] = "counted" /\ SubjectsOf[q] = SubjectsOf[r] => q = r

\* Nothing that still counts has been swept.
StillRecorded ==
    \A r \in Requests : stage[r] = "admitted" /\ decidedAt[r] + Margin > now => r \in rows

InHand(s) == {r \in Requests : stage[r] = "counted" /\ s \in SubjectsOf[r]}

\* Admitted or about to be.
Granted(s) == AdmittedIn(s, now, Margin) \cup InHand(s)

Bound(s) == Limit - 1 + Cardinality(Keys(s))

GrantsBounded == \A s \in Subjects : Keys(s) # {} => Cardinality(Granted(s)) <= Bound(s)

IInv ==
    /\ TypeOK /\ Timely /\ OneHolderPerKey /\ StillRecorded
    /\ GrantsBounded /\ OverrunBounded

--------------------------------------------------------------------------------
(* Counting *)

\* Sets of requests are finite, and a part is no larger than the whole.
LEMMA Parts ==
  ASSUME NEW S \in SUBSET Requests, NEW T \in SUBSET S
  PROVE  /\ IsFiniteSet(S) /\ Cardinality(S) \in Nat /\ Cardinality(T) \in Nat
         /\ Cardinality(T) <= Cardinality(S)
<1>1. IsFiniteSet(S) BY LimiterAssumption, FS_Subset
<1>2. IsFiniteSet(T) /\ Cardinality(T) <= Cardinality(S) BY <1>1, FS_Subset
<1> QED BY <1>1, <1>2, FS_CardinalityType

\* A subject has finitely many lock keys.
LEMMA KeysFinite ==
  ASSUME NEW s \in Subjects
  PROVE  IsFiniteSet(Keys(s)) /\ Cardinality(Keys(s)) \in Nat
<1> DEFINE Q == {q \in Requests : s \in SubjectsOf[q]}
           f == [q \in Q |-> SubjectsOf[q]]
<1>1. IsFiniteSet(Q) BY Parts
<1>2. f \in Surjection(Q, Keys(s)) BY DEF Surjection, Keys
<1>3. IsFiniteSet(Keys(s)) BY <1>1, <1>2, FS_Surjection
<1> QED BY <1>3, FS_CardinalityType

\* Requests on s with different keys are no more than its keys.
LEMMA KeysBound ==
  ASSUME NEW s \in Subjects, NEW H \in SUBSET {q \in Requests : s \in SubjectsOf[q]},
         \A q, r \in H : SubjectsOf[q] = SubjectsOf[r] => q = r
  PROVE  Cardinality(H) <= Cardinality(Keys(s))
<1> DEFINE f == [q \in H |-> SubjectsOf[q]]
<1>1. f \in [H -> Keys(s)] BY DEF Keys
<1>2. f \in Injection(H, Keys(s)) BY <1>1 DEF Injection, IsInjective
<1> QED BY <1>2, KeysFinite, FS_Injection

LEMMA Together ==
  ASSUME NEW S \in SUBSET Requests, NEW T \in SUBSET Requests
  PROVE  /\ Cardinality(S \cup T) \in Nat /\ Cardinality(S) \in Nat /\ Cardinality(T) \in Nat
         /\ Cardinality(S \cup T) <= Cardinality(S) + Cardinality(T)
<1>1. IsFiniteSet(S) /\ IsFiniteSet(T) BY Parts
<1>2. Cardinality(S \cap T) \in Nat /\ Cardinality(S) \in Nat /\ Cardinality(T) \in Nat BY Parts
<1>3. Cardinality(S \cup T) = Cardinality(S) + Cardinality(T) - Cardinality(S \cap T)
  BY <1>1, FS_Union
<1>4. Cardinality(S \cup T) \in Nat
  <2>1. S \cup T \in SUBSET Requests OBVIOUS
  <2> QED BY <2>1, Parts
<1> QED BY <1>2, <1>3, <1>4

--------------------------------------------------------------------------------
(* The steps *)

\* A step after which no more is granted keeps the bound.
LEMMA NoMoreGranted ==
  ASSUME GrantsBounded, \A s \in Subjects : Granted(s)' \subseteq Granted(s)
  PROVE  GrantsBounded'
<1> SUFFICES ASSUME NEW s \in Subjects, Keys(s) # {}
             PROVE  Cardinality(Granted(s)') <= Bound(s)
  BY DEF GrantsBounded, Bound, Keys
<1>1. Cardinality(Granted(s)) <= Bound(s) BY DEF GrantsBounded
<1>2. Granted(s) \in SUBSET Requests BY DEF Granted, AdmittedIn, InHand
<1>3. /\ Cardinality(Granted(s)') <= Cardinality(Granted(s))
      /\ Cardinality(Granted(s)) \in Nat /\ Cardinality(Granted(s)') \in Nat
  BY <1>2, Parts
<1>4. Bound(s) \in Int BY KeysFinite, LimiterAssumption DEF Bound
<1> QED BY <1>1, <1>3, <1>4

\* A step that admits nobody keeps every window.
LEMMA NoMoreAdmitted ==
  ASSUME OverrunBounded,
         \A s \in Subjects, t \in 0 .. MaxTime :
            AdmittedIn(s, t, Margin)' = AdmittedIn(s, t, Margin)
  PROVE  OverrunBounded'
BY DEF OverrunBounded, Margin, Keys

LEMMA Initially == Init => IInv
<1> SUFFICES ASSUME Init PROVE IInv OBVIOUS
<1>1. TypeOK /\ Timely /\ OneHolderPerKey /\ StillRecorded
  BY LimiterAssumption DEF Init, TypeOK, Timely, OneHolderPerKey, StillRecorded, Open, Decided
<1>2. \A s \in Subjects, t \in 0 .. MaxTime : AdmittedIn(s, t, Margin) = {}
  BY DEF Init, AdmittedIn
<1>3. \A s \in Subjects : Granted(s) = {}
  BY DEF Init, Granted, AdmittedIn, InHand
<1>4. \A s \in Subjects : Cardinality({}) <= Bound(s)
  BY KeysFinite, LimiterAssumption, FS_EmptySet DEF Bound
<1> QED BY <1>1, <1>2, <1>3, <1>4 DEF IInv, GrantsBounded, OverrunBounded, Bound, Margin
LEMMA BeginStep ==
  ASSUME IInv, NEW r \in Requests, Begin(r)
  PROVE  IInv'
<1> USE LimiterAssumption DEF IInv, TypeOK, Open, Decided
<1>1. TypeOK' /\ Timely' /\ OneHolderPerKey' /\ StillRecorded'
  BY DEF Begin, Timely, OneHolderPerKey, StillRecorded
<1>2. \A s \in Subjects, t \in 0 .. MaxTime : AdmittedIn(s, t, Margin)' = AdmittedIn(s, t, Margin)
  BY DEF Begin, AdmittedIn, Margin
<1>3. \A s \in Subjects : Granted(s)' \subseteq Granted(s)
  BY <1>2 DEF Begin, Granted, InHand
<1> QED BY <1>1, <1>2, <1>3, NoMoreAdmitted, NoMoreGranted

\* A request that is refused or lost, whether it had counted or not.
LEMMA DropStep ==
  ASSUME IInv, NEW r \in Requests, Refuse(r) \/ Fail(r)
  PROVE  IInv'
<1> USE LimiterAssumption DEF IInv, TypeOK, Open, Decided
<1>1. TypeOK' /\ Timely' /\ OneHolderPerKey' /\ StillRecorded'
  BY DEF Refuse, Fail, Timely, OneHolderPerKey, StillRecorded
<1>2. \A s \in Subjects, t \in 0 .. MaxTime : AdmittedIn(s, t, Margin)' = AdmittedIn(s, t, Margin)
  BY DEF Refuse, Fail, AdmittedIn, Margin
<1>3. \A s \in Subjects : Granted(s)' \subseteq Granted(s)
  BY <1>2 DEF Refuse, Fail, Granted, InHand
<1> QED BY <1>1, <1>2, <1>3, NoMoreAdmitted, NoMoreGranted

\* What was admitted within the window is in the count of a request that begins now.
LEMMA CountSeesWindow ==
  ASSUME IInv, NEW r \in Requests, NEW s \in Subjects
  PROVE  AdmittedIn(s, now, Margin) \subseteq Counted(s, began[r])
<1> SUFFICES ASSUME NEW q \in AdmittedIn(s, now, Margin) PROVE q \in Counted(s, began[r])
  OBVIOUS
<1>1. /\ q \in Requests /\ stage[q] = "admitted" /\ s \in SubjectsOf[q]
      /\ decidedAt[q] + Margin > now
  BY DEF AdmittedIn
<1>2. q \in rows BY <1>1 DEF IInv, StillRecorded
<1>3. began[q] + Window > began[r]
  BY <1>1, LimiterAssumption DEF IInv, TypeOK, Timely, Margin
<1> QED BY <1>1, <1>2, <1>3 DEF Counted

LEMMA PassStep ==
  ASSUME IInv, NEW r \in Requests, Pass(r)
  PROVE  IInv'
<1> USE LimiterAssumption DEF IInv, TypeOK, Open, Decided
<1>1. TypeOK' /\ Timely' /\ OneHolderPerKey' /\ StillRecorded'
  BY DEF Pass, LockFree, Timely, OneHolderPerKey, StillRecorded
<1>2. \A s \in Subjects, t \in 0 .. MaxTime : AdmittedIn(s, t, Margin)' = AdmittedIn(s, t, Margin)
  BY DEF Pass, AdmittedIn, Margin
<1>3. ASSUME NEW s \in Subjects, Keys(s) # {}
      PROVE  Cardinality(Granted(s)') <= Bound(s)
  <2>1. CASE s \in SubjectsOf[r]
    <3> DEFINE A == AdmittedIn(s, now, Margin)
               B == InHand(s)'
               C == Counted(s, began[r])
    <3>1. A \in SUBSET C /\ C \in SUBSET Requests /\ B \in SUBSET Requests
      BY CountSeesWindow DEF Counted, InHand
    <3>2. Cardinality(C) < Limit
      <4>1. ~ (Cardinality(C) >= Limit) BY <2>1 DEF Pass, AtLimit
      <4> QED BY <4>1, <3>1, Parts
    <3>3. Cardinality(A) <= Limit - 1 BY <3>1, <3>2, Parts
    <3>4. Cardinality(B) <= Cardinality(Keys(s))
      <4>1. B \in SUBSET {q \in Requests : s \in SubjectsOf[q]} BY DEF InHand
      <4>2. \A p, q \in B : SubjectsOf[p] = SubjectsOf[q] => p = q
        BY <1>1 DEF InHand, OneHolderPerKey
      <4> HIDE DEF B
      <4> QED BY <4>1, <4>2, KeysBound
    <3>5. Granted(s)' = A \cup B BY <1>2 DEF Granted, Pass
    <3>6. A \in SUBSET Requests BY <3>1
    <3> HIDE DEF A, B
    <3>7. Cardinality(A \cup B) \in Nat /\ Cardinality(A \cup B) <= Cardinality(A) + Cardinality(B)
          /\ Cardinality(A) \in Nat /\ Cardinality(B) \in Nat
      BY <3>1, <3>6, Together
    <3>8. Cardinality(A \cup B) <= Limit - 1 + Cardinality(Keys(s))
      BY <3>3, <3>4, <3>7, KeysFinite
    <3> QED BY <3>5, <3>8 DEF Bound
  <2>2. CASE s \notin SubjectsOf[r]
    <3>1. Granted(s)' = Granted(s) BY <1>2, <2>2 DEF Pass, Granted, InHand
    <3> QED BY <3>1, <1>3 DEF GrantsBounded
  <2> QED BY <2>1, <2>2
<1>4. GrantsBounded' BY <1>3 DEF GrantsBounded, Bound, Keys
<1> QED BY <1>1, <1>2, <1>4, NoMoreAdmitted

LEMMA AdmitStep ==
  ASSUME IInv, NEW r \in Requests, Admit(r)
  PROVE  IInv'
<1> USE LimiterAssumption DEF IInv, TypeOK, Open, Decided
<1>1. TypeOK' /\ Timely' /\ OneHolderPerKey'
  BY DEF Admit, Swept, Timely, OneHolderPerKey
<1>2. StillRecorded'
  BY DEF Admit, Swept, Timely, StillRecorded, Margin
<1>3. ASSUME NEW s \in Subjects PROVE Granted(s)' \subseteq Granted(s)
  BY DEF Admit, Granted, AdmittedIn, InHand, Margin
<1>4. GrantsBounded' BY <1>3, NoMoreGranted
<1>5. ASSUME NEW s \in Subjects, NEW t \in 0 .. MaxTime, Keys(s) # {}
      PROVE  Cardinality(AdmittedIn(s, t, Margin)') <= Bound(s)
  <2>1. CASE t < now
    <3>1. AdmittedIn(s, t, Margin)' = AdmittedIn(s, t, Margin)
      BY <2>1 DEF Admit, AdmittedIn, Margin
    <3> QED BY <3>1, <1>5 DEF OverrunBounded, Margin, Bound
  <2>2. CASE t >= now
    <3> DEFINE A == AdmittedIn(s, t, Margin)'
               G == Granted(s)'
    <3>1. A \in SUBSET G /\ G \in SUBSET Requests
      <4>1. now' = now BY DEF Admit
      <4>2. G \in SUBSET Requests BY DEF Granted, AdmittedIn, InHand
      <4>3. ASSUME NEW q \in A PROVE q \in AdmittedIn(s, now, Margin)'
        BY <2>2, <1>1, <4>1 DEF AdmittedIn, Timely, Margin
      <4> QED BY <4>2, <4>3 DEF Granted
    <3>2. Cardinality(G) <= Bound(s) BY <1>4, <1>5 DEF GrantsBounded, Bound, Keys
    <3>3. Bound(s) \in Int BY KeysFinite DEF Bound
    <3> HIDE DEF A, G
    <3>4. Cardinality(A) <= Bound(s) BY <3>1, <3>2, <3>3, Parts
    <3> QED BY <3>4 DEF A
  <2> QED BY <2>1, <2>2
<1>6. OverrunBounded' BY <1>5 DEF OverrunBounded, Bound, Keys, Margin
<1> QED BY <1>1, <1>2, <1>4, <1>6

LEMMA TickStep ==
  ASSUME IInv, Tick
  PROVE  IInv'
<1> USE LimiterAssumption DEF IInv, TypeOK, Open, Decided
<1>1. TypeOK' /\ Timely' /\ OneHolderPerKey' /\ StillRecorded'
  BY DEF Tick, Timely, OneHolderPerKey, StillRecorded, Margin
<1>2. \A s \in Subjects, t \in 0 .. MaxTime : AdmittedIn(s, t, Margin)' = AdmittedIn(s, t, Margin)
  BY DEF Tick, AdmittedIn, Margin
<1>3. \A s \in Subjects : Granted(s)' \subseteq Granted(s)
  BY DEF Tick, Granted, InHand, AdmittedIn, Timely, Margin
<1> QED BY <1>1, <1>2, <1>3, NoMoreAdmitted, NoMoreGranted

LEMMA Inductive == IInv /\ [Next]_vars => IInv'
<1> SUFFICES ASSUME IInv, [Next]_vars PROVE IInv' OBVIOUS
<1>1. CASE Tick BY <1>1, TickStep
<1>2. CASE \E r \in Requests : Begin(r) BY <1>2, BeginStep
<1>3. CASE \E r \in Requests : Pass(r) BY <1>3, PassStep
<1>4. CASE \E r \in Requests : Refuse(r) \/ Fail(r) BY <1>4, DropStep
<1>5. CASE \E r \in Requests : Admit(r) BY <1>5, AdmitStep
<1>6. CASE UNCHANGED vars
  BY <1>6 DEF vars, IInv, TypeOK, Timely, OneHolderPerKey, StillRecorded, GrantsBounded,
              OverrunBounded, Granted, AdmittedIn, InHand, Bound, Keys
<1> QED BY <1>1, <1>2, <1>3, <1>4, <1>5, <1>6 DEF Next

\* A refusal writes no event, and an event is an admitted request's.
THEOREM LimiterTypeCorrect == Spec => []TypeOK
<1>1. IInv => TypeOK BY DEF IInv
<1> QED BY Initially, Inductive, <1>1, PTL DEF Spec

\* enforce: each lock key that shares a subject slips at most one request past its limit.
THEOREM OverrunIsBounded == Spec => []OverrunBounded
<1>1. IInv => OverrunBounded BY DEF IInv
<1> QED BY Initially, Inductive, <1>1, PTL DEF Spec

================================================================================
