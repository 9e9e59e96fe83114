--------------------------- MODULE PublishingProofs ---------------------------
(***************************************************************************)
(* Proofs about Publishing for any number of revisions, handlers and       *)
(* reports.  Every property is a consequence of two facts: the history of  *)
(* a revision only moves forward (History), and what a handler has read is *)
(* true in the sense it relies on until it is done (CallSound).  A handler *)
(* that holds the row of the entity finds it as it left it (LocksKept);    *)
(* what it read of other rows can have changed, but only forward.          *)
(***************************************************************************)
EXTENDS Publishing, TLAPS

Gone(e) == entities[e].status = "deleted"
Approved(e, n) == Status(e, n) \in {"published", "archived"} \/ Gone(e)

\* Nothing is left of a deleted entity, and nothing is there of one not yet created.
NoRows ==
    \A e \in Entities : entities[e].status \in {"absent", "deleted"} =>
                          revisions[e] = <<>> /\ entities[e].pointer = 0

\* The row of an entity is locked by one handler.
Exclusive ==
    \A q, r \in Requests :
       /\ {calls[q].op, calls[r].op} \subseteq {"publish", "delete"}
       /\ calls[q].entity = calls[r].entity
       => q = r

\* A reference is to a revision that was there when the content was checked.
Found(ref) == ref # 0 => Exists(Skill, ref) \/ Gone(Skill)

RefsFound ==
    \A e \in Entities : \A n \in DOMAIN revisions[e] : Found(revisions[e][n].content.ref)

\* What a handler has read and goes by.  An author: references that were found.  A reviewer:
\* the content of the revision, for as long as there is one; under the lock of the entity the
\* revision is still under review, and what it refers to has been approved.  A user: a
\* revision that had been approved.
CallSound(r) ==
    LET call == calls[r]  e == call.entity  n == call.revision IN
      /\ call.op = "save" => Found(call.content.ref)
      /\ call.op \in {"review", "publish"} =>
           IF Exists(e, n)
           THEN Status(e, n) # "draft" /\ revisions[e][n].content = call.content
           ELSE Gone(e)
      /\ call.op = "publish" =>
           /\ Status(e, n) = "pending_review"
           /\ call.content.ref # 0 => Approved(Skill, call.content.ref)
      /\ call.op = "task" => e = Expert /\ Approved(e, n)

RowsTyped ==
    /\ entities \in [Entities -> [status : {"absent", "draft", "published", "deleted"},
                                  pointer : Nat]]
    /\ revisions \in [Entities -> Seq(Revision)]
    /\ \A e \in Entities : /\ Len(revisions[e]) <= MaxRevs(e)
                           /\ entities[e].pointer <= Len(revisions[e])

Rows    == RowsTyped /\ NoRows /\ PointerMatches
Reading == RefsFound /\ \A r \in Requests : CallSound(r)
IInv == /\ TypeOK /\ NoRows /\ Exclusive /\ Reading
        /\ PointerMatches /\ PublicRefsReviewed /\ TasksRunReviewed

--------------------------------------------------------------------------------
(* What the writes do to the revisions *)

RevStatus == {"draft", "pending_review", "rejected", "published", "archived"}

LEMMA StatusSet ==
  ASSUME NEW q \in Revision, NEW s \in RevStatus
  PROVE  LET r == [q EXCEPT !.status = s]
         IN  r \in Revision /\ r.status = s /\ r.content = q.content
BY DEF Revision, RevStatus

LEMMA ContentSet ==
  ASSUME NEW q \in Revision, NEW c \in [ref : Nat]
  PROVE  LET r == [q EXCEPT !.content = c]
         IN  r \in Revision /\ r.status = q.status /\ r.content = c
BY DEF Revision

LEMMA RowReplaced ==
  ASSUME NEW revs \in Seq(Revision), NEW n \in DOMAIN revs, NEW q \in Revision
  PROVE  LET new == [revs EXCEPT ![n] = q]
         IN  /\ new \in Seq(Revision) /\ Len(new) = Len(revs) /\ DOMAIN new = DOMAIN revs
             /\ \A m \in DOMAIN revs : new[m] = IF m = n THEN q ELSE revs[m]
OBVIOUS

\* The status of one revision, and nothing else of any, is another one.
OnlyStatus(R, e, n, s) ==
    /\ R \in [Entities -> Seq(Revision)]
    /\ \A f \in Entities : /\ Len(R[f]) = Len(revisions[f])
                           /\ DOMAIN R[f] = DOMAIN revisions[f]
                           /\ f # e => R[f] = revisions[f]
    /\ \A f \in Entities : \A m \in DOMAIN revisions[f] :
         /\ R[f][m].content = revisions[f][m].content
         /\ R[f][m].status = IF f = e /\ m = n THEN s ELSE revisions[f][m].status

LEMMA SetStatusFacts ==
  ASSUME TypeOK, NEW e \in Entities, NEW n \in DOMAIN revisions[e], NEW s \in RevStatus
  PROVE  OnlyStatus(SetStatus(e, n, s), e, n, s)
<1>1. revisions \in [Entities -> Seq(Revision)] BY DEF TypeOK
<1>2. PICK q : q = [revisions[e][n] EXCEPT !.status = s] OBVIOUS
<1>3. revisions[e][n] \in Revision BY <1>1
<1>4. q \in Revision /\ q.status = s /\ q.content = revisions[e][n].content
  BY <1>2, <1>3, StatusSet
<1>5. PICK new : new = [revisions[e] EXCEPT ![n] = q] OBVIOUS
<1>6. /\ new \in Seq(Revision) /\ Len(new) = Len(revisions[e]) /\ DOMAIN new = DOMAIN revisions[e]
      /\ \A m \in DOMAIN revisions[e] : new[m] = IF m = n THEN q ELSE revisions[e][m]
  BY <1>1, <1>4, <1>5, RowReplaced
<1>7. SetStatus(e, n, s) = [revisions EXCEPT ![e] = new] BY <1>2, <1>5 DEF SetStatus
<1>8. PICK R : R = [revisions EXCEPT ![e] = new] OBVIOUS
<1>9. R \in [Entities -> Seq(Revision)] BY <1>1, <1>6, <1>8
<1>10. \A f \in Entities : R[f] = IF f = e THEN new ELSE revisions[f] BY <1>1, <1>8
<1> QED BY <1>4, <1>6, <1>7, <1>8, <1>9, <1>10 DEF OnlyStatus

--------------------------------------------------------------------------------
(* The history of a revision *)

\* The row of an entity is locked for the step of another handler.
LocksKept ==
    \A r \in Requests : calls[r].op \in {"publish", "delete"} /\ calls'[r] = calls[r] =>
        LET e == calls[r].entity IN entities'[e] = entities[e] /\ revisions'[e] = revisions[e]

Publishes(e, n) == \E r \in Requests : /\ calls[r].op = "publish"
                                       /\ calls[r].entity = e /\ calls[r].revision = n

\* The status only moves forward, and is published by the handler of an approval alone.
Forward(e, n) ==
    \/ Status(e, n)' = Status(e, n)
    \/ Status(e, n) = "absent" /\ Status(e, n)' = "draft" /\ ~ Gone(e)
    \/ Status(e, n) = "draft" /\ Status(e, n)' = "pending_review"
    \/ Status(e, n) = "pending_review" /\ Status(e, n)' = "rejected"
    \/ Status(e, n) = "pending_review" /\ Status(e, n)' = "published" /\ Publishes(e, n)
    \/ Status(e, n) = "published" /\ Status(e, n)' = "archived"
    \/ Status(e, n)' = "absent" /\ Gone(e)'

\* The content is what it was, or what the author saved over a draft.
ContentStands(e, n) ==
    \/ Exists(e, n) /\ revisions'[e][n].content = revisions[e][n].content
    \/ /\ Status(e, n) \in {"absent", "draft"}
       /\ \E r \in Requests : /\ calls[r].op = "save"
                              /\ revisions'[e][n].content = calls[r].content

\* A deleted entity stays so, and an expert with tasks is not deleted; what is shown to the
\* public is changed by an approval alone.
History ==
    \A e \in Entities :
       /\ Gone(e) => Gone(e)'
       /\ Gone(e)' => Gone(e) \/ e # Expert \/ tasks = {}
       /\ entities'[e].pointer \in {0, entities[e].pointer} \/ Publishes(e, entities'[e].pointer)
       /\ \A n \in Nat : Forward(e, n) /\ (Exists(e, n)' => ContentStands(e, n))

RowStep == Rows' /\ History /\ LocksKept

LEMMA Unchanged ==
  ASSUME Rows, UNCHANGED <<entities, revisions>>
  PROVE  RowStep
BY DEF RowStep, Rows, RowsTyped, NoRows, PointerMatches, History, LocksKept, Gone, Exists,
       Forward, ContentStands, Status

LEMMA OnlyStatusFacts ==
  ASSUME NEW e \in Entities, NEW n \in DOMAIN revisions[e], NEW s,
         OnlyStatus(revisions', e, n, s)
  PROVE  \A f \in Entities, m \in Nat :
           /\ Exists(f, m)' <=> Exists(f, m)
           /\ Status(f, m)' = IF f = e /\ m = n THEN s ELSE Status(f, m)
           /\ Exists(f, m) => revisions'[f][m].content = revisions[f][m].content
BY DEF OnlyStatus, Exists, Status

LEMMA SubmitRows ==
  ASSUME IInv, NEW e \in Entities, NEW n \in 1 .. MaxRevs(e), Submit(e, n)
  PROVE  RowStep
<1>1. TypeOK /\ Rows BY DEF IInv, TypeOK, Rows, RowsTyped
<1>2. n \in DOMAIN revisions[e] /\ revisions[e][n].status = "draft"
  BY DEF Submit, Status, Exists
<1>3. OnlyStatus(revisions', e, n, "pending_review")
  BY <1>1, <1>2, SetStatusFacts DEF Submit, RevStatus
<1>4. \A f \in Entities, m \in Nat :
        /\ Exists(f, m)' <=> Exists(f, m)
        /\ Status(f, m)' = IF f = e /\ m = n THEN "pending_review" ELSE Status(f, m)
        /\ Exists(f, m) => revisions'[f][m].content = revisions[f][m].content
  BY <1>2, <1>3, OnlyStatusFacts
<1>5. entities' = entities /\ ~ Locked(e) /\ calls' = calls BY DEF Submit
<1>6. RowsTyped' BY <1>1, <1>3, <1>5 DEF Rows, RowsTyped, OnlyStatus
<1>7. NoRows' BY <1>1, <1>2, <1>3, <1>5 DEF Rows, NoRows, OnlyStatus
<1>8. PointerMatches'
  <2>1. \A f \in Entities : \A m \in 1 .. MaxRevs(f) : m \in Nat OBVIOUS
  <2> QED BY <1>1, <1>2, <1>4, <1>5, <2>1 DEF Rows, PointerMatches, Status, Exists
<1>9. History BY <1>2, <1>4, <1>5 DEF History, Forward, ContentStands, Gone, Exists, Status
<1>10. LocksKept BY <1>1, <1>3, <1>5 DEF LocksKept, OnlyStatus, Locked, Of, TypeOK, Call, Idle
<1> QED BY <1>6, <1>7, <1>8, <1>9, <1>10 DEF RowStep, Rows

LEMMA RejectRows ==
  ASSUME IInv, NEW r \in Requests, Reject(r)
  PROVE  RowStep
<1> DEFINE e == calls[r].entity
           n == calls[r].revision
<1>1. TypeOK /\ Rows BY DEF IInv, TypeOK, Rows, RowsTyped
<1>2. e \in Entities /\ n \in Nat BY <1>1 DEF Reject, TypeOK, Call
<1>3. entities' = entities /\ ~ Locked(e) BY DEF Reject
<1>4. CASE Status(e, n) # "pending_review"
  BY <1>1, <1>4, Unchanged DEF Reject
<1>5. CASE Status(e, n) = "pending_review"
  <2> HIDE DEF e, n
  <2>1. n \in DOMAIN revisions[e] BY <1>5 DEF Status, Exists
  <2>2. revisions' = SetStatus(e, n, "rejected") BY <1>5 DEF Reject, e, n
  <2>3. OnlyStatus(revisions', e, n, "rejected")
    BY <1>1, <1>2, <2>1, <2>2, SetStatusFacts DEF RevStatus
  <2>4. \A f \in Entities, m \in Nat :
          /\ Exists(f, m)' <=> Exists(f, m)
          /\ Status(f, m)' = IF f = e /\ m = n THEN "rejected" ELSE Status(f, m)
          /\ Exists(f, m) => revisions'[f][m].content = revisions[f][m].content
    BY <1>2, <2>1, <2>3, OnlyStatusFacts
  <2>5. RowsTyped' BY <1>1, <1>3, <2>3 DEF Rows, RowsTyped, OnlyStatus
  <2>6. NoRows' BY <1>1, <1>3, <2>1, <2>3 DEF Rows, NoRows, OnlyStatus
  <2>7. PointerMatches'
    <3>1. \A f \in Entities : \A m \in 1 .. MaxRevs(f) : m \in Nat OBVIOUS
    <3> QED BY <1>1, <1>3, <1>5, <2>4, <3>1 DEF Rows, PointerMatches
  <2>8. History
    BY <1>3, <1>5, <2>4 DEF History, Forward, ContentStands, Gone, Exists, Status
  <2>9. LocksKept BY <1>1, <1>3, <2>3 DEF LocksKept, OnlyStatus, Locked, Of, TypeOK, Call, Idle
  <2> QED BY <2>5, <2>6, <2>7, <2>8, <2>9 DEF RowStep, Rows
<1> QED BY <1>4, <1>5

LEMMA TakeDownRows ==
  ASSUME IInv, NEW k \in Reports, TakeDown(k)
  PROVE  RowStep
<1> DEFINE e == reports[k].entity
           n == entities[e].pointer
<1>1. TypeOK /\ Rows BY DEF IInv, TypeOK, Rows, RowsTyped
<1>2. e \in Entities BY <1>1 DEF TakeDown, Resolves, TypeOK, Report
<1>3. ~ Locked(e) /\ n # 0 /\ calls' = calls BY DEF TakeDown
<1>4. revisions' = SetStatus(e, n, "archived") BY DEF TakeDown
<1>5. entities' = [entities EXCEPT ![e] = [status |-> "draft", pointer |-> 0]]
  BY DEF TakeDown
<1>6. n \in DOMAIN revisions[e] /\ Status(e, n) = "published" /\ ~ Gone(e)
  <2>1. n \in 1 .. Len(revisions[e]) /\ revisions[e] \in Seq(Revision)
    BY <1>1, <1>2, <1>3 DEF TypeOK
  <2>2. Len(revisions[e]) \in Nat /\ Len(revisions[e]) <= MaxRevs(e) BY <1>1, <1>2, <2>1 DEF TypeOK
  <2>3. n \in 1 .. MaxRevs(e)
    <3>1. MaxRevs(e) \in Nat BY PublishingAssumption DEF MaxRevs
    <3> QED BY <2>1, <2>2, <3>1
  <2>4. Status(e, n) = "published" BY <1>1, <1>2, <2>3 DEF Rows, PointerMatches
  <2>5. ~ Gone(e) BY <1>1, <1>2, <1>3 DEF Rows, NoRows, Gone
  <2> QED BY <2>1, <2>4, <2>5
<1> HIDE DEF e, n
<1>7. OnlyStatus(revisions', e, n, "archived")
  BY <1>1, <1>2, <1>4, <1>6, SetStatusFacts DEF RevStatus
<1>8. \A f \in Entities, m \in Nat :
        /\ Exists(f, m)' <=> Exists(f, m)
        /\ Status(f, m)' = IF f = e /\ m = n THEN "archived" ELSE Status(f, m)
        /\ Exists(f, m) => revisions'[f][m].content = revisions[f][m].content
  BY <1>2, <1>6, <1>7, OnlyStatusFacts
<1>9. RowsTyped'
  <2>1. entities' \in [Entities -> [status : {"absent", "draft", "published", "deleted"},
                                    pointer : Nat]]
    BY <1>1, <1>2, <1>5 DEF TypeOK
  <2>2. \A f \in Entities : entities'[f].pointer <= Len(revisions'[f])
    <3>1. \A f \in Entities : Len(revisions'[f]) \in Nat BY <1>7 DEF OnlyStatus
    <3>2. \A f \in Entities : entities'[f] =
            IF f = e THEN [status |-> "draft", pointer |-> 0] ELSE entities[f]
      BY <1>1, <1>5 DEF TypeOK
    <3> SUFFICES ASSUME NEW f \in Entities PROVE entities'[f].pointer <= Len(revisions'[f])
      OBVIOUS
    <3>3. CASE f = e BY <3>1, <3>2, <3>3
    <3>4. CASE f # e
      <4>1. entities'[f] = entities[f] BY <3>2, <3>4
      <4>2. Len(revisions'[f]) = Len(revisions[f]) BY <1>7 DEF OnlyStatus
      <4> QED BY <1>1, <4>1, <4>2 DEF TypeOK
    <3> QED BY <3>3, <3>4
  <2> QED BY <1>1, <1>7, <2>1, <2>2 DEF TypeOK, RowsTyped, OnlyStatus
<1>10. NoRows' BY <1>1, <1>2, <1>5, <1>7 DEF Rows, RowsTyped, NoRows, OnlyStatus
<1>11. PointerMatches'
  <2>1. \A f \in Entities : \A m \in 1 .. MaxRevs(f) : m \in Nat /\ m # 0 OBVIOUS
  <2>2. n = entities[e].pointer BY DEF n
  <2>3. \A f \in Entities : \A m \in 1 .. MaxRevs(f) :
          Status(f, m) = "published" <=> entities[f].pointer = m
    BY <1>1 DEF Rows, PointerMatches
  <2>4. \A f \in Entities : entities'[f] =
          IF f = e THEN [status |-> "draft", pointer |-> 0] ELSE entities[f]
    BY <1>1, <1>5 DEF TypeOK
  <2> QED BY <1>1, <1>2, <1>8, <2>1, <2>2, <2>3, <2>4 DEF Rows, PointerMatches
<1>12. History
  BY <1>1, <1>2, <1>5, <1>6, <1>8 DEF TypeOK, History, Forward, ContentStands, Gone, Exists, Status
<1>13. LocksKept
  BY <1>1, <1>3, <1>5, <1>7 DEF LocksKept, OnlyStatus, Locked, Of, TypeOK, Call, Idle
<1> QED BY <1>9, <1>10, <1>11, <1>12, <1>13 DEF RowStep, Rows

LEMMA OfflineRows ==
  ASSUME IInv, NEW e \in Entities, Offline(e)
  PROVE  RowStep
<1>1. TypeOK /\ Rows BY DEF IInv, TypeOK, Rows, RowsTyped
<1>2. PICK q : q = [entities[e] EXCEPT !.status = "draft"] OBVIOUS
<1>3. /\ entities' = [entities EXCEPT ![e] = q] /\ entities[e].status = "published"
      /\ ~ Locked(e) /\ UNCHANGED <<revisions, calls>>
  BY <1>2 DEF Offline
<1>4. /\ q \in [status : {"absent", "draft", "published", "deleted"}, pointer : Nat]
      /\ q.status = "draft" /\ q.pointer = entities[e].pointer
  BY <1>1, <1>2 DEF TypeOK
<1>5. \A f \in Entities : entities'[f] = IF f = e THEN q ELSE entities[f]
  BY <1>1, <1>3 DEF TypeOK
<1>6. RowsTyped' BY <1>1, <1>3, <1>4, <1>5 DEF Rows, RowsTyped
<1>7. NoRows' BY <1>1, <1>3, <1>4, <1>5 DEF Rows, NoRows
<1>8. PointerMatches' BY <1>1, <1>3, <1>4, <1>5 DEF Rows, PointerMatches, Status, Exists
<1>9. History
  BY <1>3, <1>4, <1>5 DEF History, Forward, ContentStands, Gone, Exists, Status
<1>10. LocksKept BY <1>1, <1>3, <1>5 DEF LocksKept, Locked, Of, TypeOK, Call, Idle
<1> QED BY <1>6, <1>7, <1>8, <1>9, <1>10 DEF RowStep, Rows

LEMMA DeleteRows ==
  ASSUME IInv, NEW r \in Requests, Delete(r)
  PROVE  RowStep
<1> DEFINE gone == [status |-> "deleted", pointer |-> 0]
<1>1. TypeOK /\ Rows BY DEF IInv, TypeOK, Rows, RowsTyped
<1>2. PICK e \in Entities : e = calls[r].entity BY <1>1 DEF Delete, TypeOK, Call
<1>3. CASE e = Expert /\ tasks # {}
  BY <1>1, <1>2, <1>3, Unchanged DEF Delete
<1>4. CASE ~ (e = Expert /\ tasks # {})
  <2>1. /\ revisions' = [revisions EXCEPT ![e] = <<>>]
        /\ entities' = [entities EXCEPT ![e] = gone]
        /\ calls' = [calls EXCEPT ![r] = Idle] /\ calls[r].op = "delete"
    BY <1>2, <1>4 DEF Delete, Becomes
  <2>2. \A f \in Entities : /\ entities'[f] = IF f = e THEN gone ELSE entities[f]
                            /\ revisions'[f] = IF f = e THEN <<>> ELSE revisions[f]
    BY <1>1, <2>1 DEF TypeOK
  <2>3. gone.status = "deleted" /\ gone.pointer = 0
        /\ gone \in [status : {"absent", "draft", "published", "deleted"}, pointer : Nat]
    OBVIOUS
  <2>4. calls'[r] # calls[r]
    BY <1>1, <2>1 DEF TypeOK, Idle
  <2> HIDE DEF gone
  <2>5. LocksKept
    <3> SUFFICES ASSUME NEW q \in Requests, calls[q].op \in {"publish", "delete"},
                        calls'[q] = calls[q]
                 PROVE  calls[q].entity # e /\ calls[q].entity \in Entities
      BY <2>2 DEF LocksKept
    <3>1. q # r BY <2>4
    <3> QED BY <1>1, <1>2, <2>1, <3>1 DEF IInv, Exclusive, TypeOK, Call
  <2>6. RowsTyped'
    <3>1. <<>> \in Seq(Revision) /\ Len(<<>>) = 0 OBVIOUS
    <3>2. MaxRevs(e) \in Nat BY PublishingAssumption DEF MaxRevs
    <3>3. entities' \in [Entities -> [status : {"absent", "draft", "published", "deleted"},
                                      pointer : Nat]]
      BY <1>1, <1>2, <2>1, <2>3 DEF TypeOK
    <3>4. revisions' \in [Entities -> Seq(Revision)] BY <1>1, <1>2, <2>1, <3>1 DEF TypeOK
    <3>5. \A f \in Entities : /\ Len(revisions'[f]) <= MaxRevs(f)
                              /\ entities'[f].pointer <= Len(revisions'[f])
      BY <1>1, <2>2, <2>3, <3>1, <3>2 DEF TypeOK
    <3> QED BY <3>3, <3>4, <3>5 DEF RowsTyped
  <2>7. NoRows' BY <1>1, <2>2, <2>3 DEF Rows, NoRows
  <2>8. \A n \in Nat : Status(e, n)' = "absent" /\ ~ Exists(e, n)'
    BY <1>2, <2>2 DEF Status, Exists
  <2>9. \A f \in Entities : f # e =>
          \A n \in Nat : Status(f, n)' = Status(f, n) /\ (Exists(f, n)' <=> Exists(f, n))
    BY <2>2 DEF Status, Exists
  <2>10. PointerMatches'
    <3>1. \A f \in Entities : \A m \in 1 .. MaxRevs(f) : m \in Nat /\ m # 0 OBVIOUS
    <3> QED BY <1>1, <2>2, <2>3, <2>8, <2>9, <3>1 DEF Rows, PointerMatches
  <2>11. History
    BY <1>4, <2>2, <2>3, <2>8, <2>9 DEF History, Forward, ContentStands, Gone
  <2> QED BY <2>5, <2>6, <2>7, <2>10, <2>11 DEF RowStep, Rows
<1> QED BY <1>3, <1>4

LEMMA PublishRows ==
  ASSUME IInv, NEW r \in Requests, Publish(r)
  PROVE  RowStep
<1>1. TypeOK /\ Rows BY DEF IInv, TypeOK, Rows, RowsTyped
<1>2. PICK e \in Entities : e = calls[r].entity BY <1>1 DEF Publish, TypeOK, Call
<1>3. PICK n \in Nat : n = calls[r].revision BY <1>1 DEF Publish, TypeOK, Call
<1>4. PICK was \in Nat : was = entities[e].pointer BY <1>1 DEF TypeOK
<1>5. calls[r].op = "publish" /\ calls'[r] # calls[r] /\ calls' = [calls EXCEPT ![r] = Idle]
  BY <1>1 DEF Publish, Becomes, TypeOK, Idle
<1>6. Status(e, n) = "pending_review" /\ Exists(e, n) /\ n \in DOMAIN revisions[e]
  BY <1>2, <1>3, <1>5 DEF IInv, Reading, CallSound, Status, Exists
<1>7. \A m \in Nat : Exists(e, m) => (Status(e, m) = "published" <=> m = was)
  <2> SUFFICES ASSUME NEW m \in Nat, Exists(e, m)
               PROVE  Status(e, m) = "published" <=> m = was
    OBVIOUS
  <2>1. Len(revisions[e]) \in Nat /\ MaxRevs(e) \in Nat /\ Len(revisions[e]) <= MaxRevs(e)
    BY <1>1, PublishingAssumption DEF TypeOK, MaxRevs
  <2>2. m \in 1 .. Len(revisions[e]) BY <1>1 DEF Exists, TypeOK
  <2>3. m \in 1 .. MaxRevs(e) BY <2>1, <2>2
  <2> QED BY <1>1, <1>4, <2>3 DEF Rows, PointerMatches
<1>8. n # was BY <1>6, <1>7
<1> DEFINE st(m) == IF m = n THEN "published" ELSE IF m = was THEN "archived"
                    ELSE revisions[e][m].status
           row == [status |-> "published", pointer |-> n]
<1>9. PICK new : new = [m \in DOMAIN revisions[e] |-> [revisions[e][m] EXCEPT !.status = st(m)]]
  OBVIOUS
<1>10. revisions' = [revisions EXCEPT ![e] = new] /\ entities' = [entities EXCEPT ![e] = row]
  BY <1>2, <1>3, <1>4, <1>9 DEF Publish
<1>11. ASSUME NEW m \in DOMAIN revisions[e]
       PROVE  /\ new[m] \in Revision /\ new[m].status = st(m)
              /\ new[m].content = revisions[e][m].content
  <2>1. revisions[e][m] \in Revision BY <1>1 DEF TypeOK
  <2>2. st(m) \in RevStatus BY <2>1 DEF Revision, RevStatus
  <2> HIDE DEF st
  <2>3. new[m] = [revisions[e][m] EXCEPT !.status = st(m)] BY <1>9
  <2> QED BY <2>1, <2>2, <2>3, StatusSet
<1>12. new \in Seq(Revision) /\ Len(new) = Len(revisions[e]) /\ DOMAIN new = DOMAIN revisions[e]
  <2>1. revisions[e] \in Seq(Revision) BY <1>1 DEF TypeOK
  <2>2. DOMAIN revisions[e] = 1 .. Len(revisions[e]) /\ Len(revisions[e]) \in Nat BY <2>1
  <2>3. DOMAIN new = DOMAIN revisions[e] BY <1>9
  <2>4. new \in [1 .. Len(revisions[e]) -> Revision]
    <3> HIDE DEF st
    <3> QED BY <1>9, <1>11, <2>2
  <2> QED BY <2>2, <2>3, <2>4
<1>13. \A f \in Entities : /\ revisions'[f] = IF f = e THEN new ELSE revisions[f]
                           /\ entities'[f] = IF f = e THEN row ELSE entities[f]
  BY <1>1, <1>10 DEF TypeOK
<1>14. row.status = "published" /\ row.pointer = n
       /\ row \in [status : {"absent", "draft", "published", "deleted"}, pointer : Nat]
  OBVIOUS
<1> HIDE DEF row
<1>15. \A f \in Entities, m \in Nat :
         /\ Exists(f, m)' <=> Exists(f, m)
         /\ Status(f, m)' = IF f = e /\ Exists(f, m) THEN st(m) ELSE Status(f, m)
         /\ Exists(f, m) => revisions'[f][m].content = revisions[f][m].content
  <2> HIDE DEF st
  <2> QED BY <1>11, <1>12, <1>13 DEF Exists, Status
<1>16. RowsTyped'
  <2>1. revisions' \in [Entities -> Seq(Revision)] BY <1>1, <1>10, <1>12 DEF TypeOK
  <2>2. entities' \in [Entities -> [status : {"absent", "draft", "published", "deleted"},
                                    pointer : Nat]]
    BY <1>1, <1>10, <1>14 DEF TypeOK
  <2>3. n <= Len(revisions[e]) BY <1>1, <1>6 DEF TypeOK
  <2> QED BY <1>1, <1>12, <1>13, <1>14, <2>1, <2>2, <2>3 DEF RowsTyped, TypeOK
<1>17. NoRows' BY <1>1, <1>13, <1>14 DEF Rows, NoRows
<1>18. PointerMatches'
  <2>1. \A f \in Entities : \A m \in 1 .. MaxRevs(f) : m \in Nat /\ m # 0 OBVIOUS
  <2>2. n # 0 BY <1>1, <1>6 DEF TypeOK
  <2>3. \A m \in Nat : Exists(e, m) => (st(m) = "published" <=> m = n)
    BY <1>7 DEF Status
  <2>4. \A m \in Nat : Status(e, m)' = "published" <=> m = n
    <3> HIDE DEF st
    <3> QED BY <1>6, <1>15, <2>3 DEF Status
  <2>5. \A f \in Entities : f # e => \A m \in Nat : Status(f, m)' = Status(f, m)
    BY <1>15
  <2> QED BY <1>1, <1>13, <1>14, <2>1, <2>2, <2>4, <2>5 DEF Rows, PointerMatches
<1>19. History
  <2>1. Publishes(e, n) BY <1>2, <1>3, <1>5 DEF Publishes
  <2>2. \A m \in Nat : Exists(e, m) =>
          IF m = n THEN Status(e, m)' = "published"
          ELSE IF m = was THEN Status(e, m)' = "archived"
          ELSE Status(e, m)' = Status(e, m)
    BY <1>15 DEF Status
  <2>3. \A f \in Entities, m \in Nat :
          f # e \/ ~ Exists(f, m) => Status(f, m)' = Status(f, m)
    BY <1>15
  <2>4. ASSUME NEW f \in Entities, NEW m \in Nat PROVE Forward(f, m)
    BY <1>6, <1>7, <2>1, <2>2, <2>3 DEF Forward
  <2>5. ~ Gone(e) BY <1>1, <1>6 DEF Rows, NoRows, Gone
  <2> QED BY <1>13, <1>14, <1>15, <2>1, <2>4, <2>5 DEF History, ContentStands, Gone
<1>20. LocksKept
  <2> SUFFICES ASSUME NEW q \in Requests, calls[q].op \in {"publish", "delete"},
                      calls'[q] = calls[q]
               PROVE  calls[q].entity # e /\ calls[q].entity \in Entities
    BY <1>13 DEF LocksKept
  <2>1. q # r BY <1>5
  <2> QED BY <1>1, <1>2, <1>5, <2>1 DEF IInv, Exclusive, TypeOK, Call
<1> QED BY <1>16, <1>17, <1>18, <1>19, <1>20 DEF RowStep, Rows

LEMMA SaveRows ==
  ASSUME IInv, NEW r \in Requests, Save(r)
  PROVE  RowStep
<1>1. TypeOK /\ Rows BY DEF IInv, TypeOK, Rows, RowsTyped
<1>2. PICK e \in Entities : e = calls[r].entity BY <1>1 DEF Save, TypeOK, Call
<1>3. PICK c \in [ref : Nat] : c = calls[r].content BY <1>1 DEF Save, TypeOK, Call
<1>4. calls[r].op = "save" /\ ~ Locked(e) /\ calls' = [calls EXCEPT ![r] = Idle]
  BY <1>2 DEF Save, Becomes
<1>5. CASE entities[e].status = "deleted"
  BY <1>1, <1>2, <1>5, Unchanged DEF Save
<1>6. revisions[e] \in Seq(Revision) /\ Len(revisions[e]) \in Nat
      /\ DOMAIN revisions[e] = 1 .. Len(revisions[e])
  BY <1>1 DEF TypeOK
<1>7. CASE entities[e].status # "deleted" /\ Overwritable(revisions[e])
  <2> DEFINE k == Len(revisions[e])
  <2>1. k \in DOMAIN revisions[e] /\ revisions[e][k].status = "draft"
        /\ entities[e].status # "absent"
    BY <1>1, <1>6, <1>7 DEF Rows, NoRows, Overwritable, Last
  <2>2. PICK q : q = [revisions[e][k] EXCEPT !.content = c] OBVIOUS
  <2>3. q \in Revision /\ q.status = "draft" /\ q.content = c
    BY <1>6, <2>1, <2>2, ContentSet
  <2>4. PICK new : new = [revisions[e] EXCEPT ![k] = q] OBVIOUS
  <2>5. /\ new \in Seq(Revision) /\ Len(new) = k /\ DOMAIN new = DOMAIN revisions[e]
        /\ \A m \in DOMAIN revisions[e] : new[m] = IF m = k THEN q ELSE revisions[e][m]
    BY <1>6, <2>1, <2>3, <2>4, RowReplaced
  <2>6. revisions' = [revisions EXCEPT ![e] = new] /\ entities' = entities
    BY <1>2, <1>3, <1>7, <2>1, <2>2, <2>4 DEF Save
  <2>7. \A f \in Entities : revisions'[f] = IF f = e THEN new ELSE revisions[f]
    BY <1>1, <2>6 DEF TypeOK
  <2>8. \A f \in Entities, m \in Nat :
          /\ Exists(f, m)' <=> Exists(f, m)
          /\ Status(f, m)' = Status(f, m)
          /\ Exists(f, m) => \/ revisions'[f][m].content = revisions[f][m].content
                             \/ /\ Status(f, m) = "draft"
                                /\ revisions'[f][m].content = c
    BY <2>1, <2>3, <2>5, <2>7 DEF Exists, Status
  <2>9. RowsTyped' BY <1>1, <2>5, <2>6, <2>7 DEF RowsTyped, TypeOK
  <2>10. NoRows' BY <1>1, <1>7, <2>1, <2>6, <2>7 DEF Rows, NoRows
  <2>11. PointerMatches'
    <3>1. \A f \in Entities : \A m \in 1 .. MaxRevs(f) : m \in Nat OBVIOUS
    <3> QED BY <1>1, <2>6, <2>8, <3>1 DEF Rows, PointerMatches
  <2>12. History
    BY <1>3, <1>4, <2>6, <2>8 DEF History, Forward, ContentStands, Gone
  <2>13. LocksKept
    BY <1>1, <1>4, <2>6, <2>7 DEF LocksKept, Locked, Of, TypeOK, Call, Idle
  <2> QED BY <2>9, <2>10, <2>11, <2>12, <2>13 DEF RowStep, Rows
<1>8. CASE entities[e].status # "deleted" /\ ~ Overwritable(revisions[e])
  <2> DEFINE k == Len(revisions[e]) + 1
             q == [status |-> "draft", content |-> c]
  <2>1. q \in Revision /\ q.status = "draft" /\ q.content = c BY DEF Revision
  <2>2. PICK new : new = Append(revisions[e], q) OBVIOUS
  <2>3. revisions' = [revisions EXCEPT ![e] = new] /\ k <= MaxRevs(e)
    <3>1. MaxRevs(e) \in Nat BY PublishingAssumption DEF MaxRevs
    <3> QED BY <1>2, <1>3, <1>6, <1>8, <2>2, <3>1 DEF Save
  <2> HIDE DEF q
  <2>4. /\ new \in Seq(Revision) /\ Len(new) = k /\ DOMAIN new = 1 .. k
        /\ new[k] = q /\ \A m \in DOMAIN revisions[e] : new[m] = revisions[e][m]
    BY <1>6, <2>1, <2>2
  <2>5. PICK was : was = [entities[e] EXCEPT !.status = "draft"] OBVIOUS
  <2>6. /\ was \in [status : {"absent", "draft", "published", "deleted"}, pointer : Nat]
        /\ was.status = "draft" /\ was.pointer = entities[e].pointer
    BY <1>1, <2>5 DEF TypeOK
  <2>7. /\ entities' \in [Entities -> [status : {"absent", "draft", "published", "deleted"},
                                       pointer : Nat]]
        /\ \A f \in Entities :
             /\ entities'[f].pointer = entities[f].pointer
             /\ f # e => entities'[f] = entities[f]
             /\ entities'[f].status =
                  IF f = e /\ entities[f].status = "absent" THEN "draft" ELSE entities[f].status
    <3>1. CASE entities[e].status = "absent"
      <4>1. entities' = [entities EXCEPT ![e] = was] BY <1>2, <1>8, <2>5, <3>1 DEF Save
      <4> QED BY <1>1, <2>6, <3>1, <4>1 DEF TypeOK
    <3>2. CASE entities[e].status # "absent"
      <4>1. entities' = entities BY <1>2, <1>8, <3>2 DEF Save
      <4> QED BY <1>1, <3>2, <4>1 DEF TypeOK
    <3> QED BY <3>1, <3>2
  <2>8. \A f \in Entities : revisions'[f] = IF f = e THEN new ELSE revisions[f]
    BY <1>1, <2>3 DEF TypeOK
  <2>9. \A f \in Entities, m \in Nat :
          /\ Exists(f, m)' <=> Exists(f, m) \/ (f = e /\ m = k)
          /\ ~ (f = e /\ m = k) => Status(f, m)' = Status(f, m)
          /\ Exists(f, m) => revisions'[f][m].content = revisions[f][m].content
    <3> HIDE DEF k
    <3>1. \A m \in Nat : m \in DOMAIN new <=> m \in DOMAIN revisions[e] \/ m = k
      BY <1>6, <2>4 DEF k
    <3>2. \A m \in DOMAIN revisions[e] : m # k BY <1>6 DEF k
    <3> QED BY <2>4, <2>8, <3>1, <3>2 DEF Exists, Status
  <2>10. PICK last \in Nat : last = k BY <1>6
  <2>11. /\ Status(e, last) = "absent" /\ Status(e, last)' = "draft"
         /\ ~ Exists(e, last) /\ revisions'[e][last].content = c
    BY <1>6, <2>1, <2>4, <2>8, <2>10 DEF Exists, Status
  <2>12. RowsTyped'
    <3>1. revisions' \in [Entities -> Seq(Revision)] BY <1>1, <2>3, <2>4 DEF TypeOK
    <3>2. \A f \in Entities : /\ Len(revisions'[f]) <= MaxRevs(f)
                              /\ entities'[f].pointer <= Len(revisions'[f])
      BY <1>1, <1>6, <2>3, <2>4, <2>7, <2>8 DEF TypeOK
    <3> QED BY <2>7, <3>1, <3>2 DEF RowsTyped
  <2>13. NoRows' BY <1>1, <1>8, <2>7, <2>8 DEF Rows, NoRows
  <2>14. PointerMatches'
    <3>1. \A f \in Entities : \A m \in 1 .. MaxRevs(f) : m \in Nat OBVIOUS
    <3>2. entities[e].pointer # last BY <1>1, <1>6, <2>10 DEF TypeOK
    <3>3. \A f \in Entities, m \in Nat :
            ~ (f = e /\ m = last) => Status(f, m)' = Status(f, m)
      BY <2>9, <2>10
    <3>4. ASSUME NEW f \in Entities, NEW m \in 1 .. MaxRevs(f)
          PROVE  (Status(f, m) = "published")' <=> entities'[f].pointer = m
      BY <1>1, <2>7, <2>11, <3>1, <3>2, <3>3, <3>4 DEF Rows, PointerMatches
    <3> QED BY <1>1, <2>7, <3>4 DEF Rows, PointerMatches
  <2>15. History
    <3>1. Gone(e) = FALSE BY <1>8 DEF Gone
    <3> HIDE DEF k
    <3> QED BY <1>3, <1>4, <2>7, <2>9, <2>10, <2>11, <3>1
            DEF History, Forward, ContentStands, Gone
  <2>16. LocksKept
    BY <1>1, <1>4, <2>7, <2>8 DEF LocksKept, Locked, Of, TypeOK, Call, Idle
  <2> QED BY <2>12, <2>13, <2>14, <2>15, <2>16 DEF RowStep, Rows
<1> QED BY <1>5, <1>7, <1>8

--------------------------------------------------------------------------------
(* What the history keeps *)

LEMMA StatusTyped ==
  ASSUME RowsTyped, NEW e \in Entities, NEW n
  PROVE  /\ Status(e, n) \in RevStatus \cup {"absent"}
         /\ Exists(e, n) <=> Status(e, n) # "absent"
<1>1. revisions[e] \in Seq(Revision) BY DEF RowsTyped
<1>2. n \in DOMAIN revisions[e] => revisions[e][n] \in Revision BY <1>1
<1>3. n \in DOMAIN revisions[e] => revisions[e][n].status \in RevStatus
  BY <1>2 DEF Revision, RevStatus
<1>4. "absent" \notin RevStatus BY DEF RevStatus
<1> QED BY <1>3, <1>4 DEF Status, Exists

LEMMA ExistsNext ==
  ASSUME RowStep, NEW e \in Entities, NEW n
  PROVE  Exists(e, n)' <=> Status(e, n)' # "absent"
<1>1. revisions'[e] \in Seq(Revision) BY DEF RowStep, Rows, RowsTyped
<1>2. n \in DOMAIN revisions'[e] => revisions'[e][n] \in Revision BY <1>1
<1>3. n \in DOMAIN revisions'[e] => revisions'[e][n].status # "absent" BY <1>2 DEF Revision
<1> QED BY <1>3 DEF Status, Exists

LEMMA FoundStays ==
  ASSUME Rows, RowStep, NEW ref \in Nat, Found(ref)
  PROVE  Found(ref)'
<1>1. Skill \in Entities BY DEF Entities
<1>2. Forward(Skill, ref) /\ (Gone(Skill) => Gone(Skill)') BY <1>1 DEF RowStep, History
<1>3. Exists(Skill, ref)' <=> Status(Skill, ref)' # "absent"
  BY <1>1, ExistsNext
<1> QED BY <1>1, <1>2, <1>3, StatusTyped DEF Found, Forward, Rows

LEMMA ApprovedStays ==
  ASSUME RowStep, NEW e \in Entities, NEW n \in Nat, Approved(e, n)
  PROVE  Approved(e, n)'
BY DEF RowStep, History, Forward, Approved

LEMMA CallKept ==
  ASSUME IInv, RowStep, NEW r \in Requests, calls'[r] = calls[r]
  PROVE  CallSound(r)'
<1>1. CallSound(r) /\ Rows /\ calls[r] \in Call BY DEF IInv, Reading, TypeOK, Rows, RowsTyped
<1>2. CASE calls[r].op = "save"
  <2>1. calls[r].content.ref \in Nat BY <1>1, <1>2 DEF Call
  <2>2. Found(calls[r].content.ref)' BY <1>1, <1>2, <2>1, FoundStays DEF CallSound
  <2> QED BY <1>2, <2>2 DEF CallSound
<1>3. CASE calls[r].op \in {"review", "publish"}
  <2>1. PICK e \in Entities, n \in Nat : e = calls[r].entity /\ n = calls[r].revision
    BY <1>1, <1>3 DEF Call
  <2>2. PICK ref \in Nat : ref = calls[r].content.ref BY <1>1, <1>3 DEF Call
  <2>3. Forward(e, n) /\ (Exists(e, n)' => ContentStands(e, n)) /\ (Gone(e) => Gone(e)')
    BY DEF RowStep, History
  <2>4. Exists(e, n)' <=> Status(e, n)' # "absent"
    BY ExistsNext
  <2>5. Exists(e, n) <=> Status(e, n) # "absent" BY <1>1, StatusTyped DEF Rows
  <2>6. Gone(e)' => ~ Exists(e, n)' BY DEF RowStep, Rows, NoRows, Gone, Exists
  <2>7. IF Exists(e, n)'
        THEN Status(e, n)' # "draft" /\ revisions'[e][n].content = calls[r].content
        ELSE Gone(e)'
    BY <1>1, <1>3, <2>1, <2>3, <2>4, <2>5, <2>6 DEF CallSound, Forward, ContentStands
  <2>8. calls[r].op = "publish" => Status(e, n)' = "pending_review"
    BY <1>1, <2>1 DEF RowStep, LocksKept, CallSound, Status, Exists
  <2>9. calls[r].op = "publish" /\ ref # 0 => Approved(Skill, ref)'
    BY <1>1, <2>1, <2>2, ApprovedStays DEF CallSound, Entities
  <2> QED BY <1>3, <2>1, <2>2, <2>7, <2>8, <2>9 DEF CallSound
<1>4. CASE calls[r].op = "task"
  <2>1. PICK e \in Entities, n \in Nat : e = calls[r].entity /\ n = calls[r].revision
    BY <1>1, <1>4 DEF Call
  <2>2. Approved(e, n)' BY <1>1, <1>4, <2>1, ApprovedStays DEF CallSound
  <2> QED BY <1>1, <1>4, <2>1, <2>2 DEF CallSound
<1>5. CASE calls[r].op \notin {"save", "review", "publish", "task"}
  BY <1>5 DEF CallSound
<1> QED BY <1>2, <1>3, <1>4, <1>5

LEMMA RefsStay ==
  ASSUME IInv, RowStep
  PROVE  RefsFound'
<1>1. Rows /\ RefsFound BY DEF IInv, Reading, TypeOK, Rows, RowsTyped
<1> SUFFICES ASSUME NEW e \in Entities, NEW n \in DOMAIN revisions'[e]
             PROVE  \A ref : ref = revisions'[e][n].content.ref => Found(ref)'
  BY DEF RefsFound
<1>2. revisions'[e] \in Seq(Revision) BY DEF RowStep, Rows, RowsTyped
<1>3. n \in Nat /\ revisions'[e][n] \in Revision BY <1>2
<1>4. PICK ref \in Nat : ref = revisions'[e][n].content.ref BY <1>3 DEF Revision
<1>5. ContentStands(e, n) BY <1>3 DEF RowStep, History, Exists
<1>6. Found(ref)
  <2>1. ASSUME NEW r \in Requests, calls[r].op = "save" PROVE Found(calls[r].content.ref)
    BY <2>1 DEF IInv, Reading, CallSound
  <2> QED BY <1>1, <1>4, <1>5, <2>1 DEF ContentStands, RefsFound, Exists
<1>7. Found(ref)' BY <1>1, <1>6, FoundStays
<1> QED BY <1>4, <1>7

LEMMA PublicStay ==
  ASSUME IInv, RowStep
  PROVE  PublicRefsReviewed'
<1>1. Rows /\ PublicRefsReviewed /\ RefsFound BY DEF IInv, Reading, TypeOK, Rows, RowsTyped
<1>2. Expert \in Entities /\ Skill \in Entities BY DEF Entities
<1> SUFFICES ASSUME NEW n \in DOMAIN revisions'[Expert], NEW ref,
                    ref = revisions'[Expert][n].content.ref, ref # 0,
                    Status(Expert, n)' \in {"published", "archived"}
             PROVE  Approved(Skill, ref)'
  BY DEF PublicRefsReviewed, Approved, Gone
<1>3. revisions'[Expert] \in Seq(Revision) BY <1>2 DEF RowStep, Rows, RowsTyped
<1>4. n \in Nat /\ revisions'[Expert][n] \in Revision BY <1>3
<1>5. ref \in Nat BY <1>4 DEF Revision
<1>6. ContentStands(Expert, n) /\ Forward(Expert, n) BY <1>2, <1>4 DEF RowStep, History, Exists
<1>7. Exists(Expert, n) /\ revisions[Expert][n].content.ref = ref
  BY <1>5, <1>6 DEF ContentStands, Forward
<1>8. Approved(Skill, ref)
  <2>1. CASE Status(Expert, n) \in {"published", "archived"}
    BY <1>1, <1>2, <1>5, <1>7, <2>1 DEF PublicRefsReviewed, Approved, Gone, Exists
  <2>2. CASE Publishes(Expert, n)
    <3>1. PICK r \in Requests : /\ calls[r].op = "publish"
                                /\ calls[r].entity = Expert /\ calls[r].revision = n
      BY <2>2 DEF Publishes
    <3> QED BY <1>5, <1>7, <3>1 DEF IInv, Reading, CallSound
  <2> QED BY <1>6, <2>1, <2>2 DEF Forward
<1> QED BY <1>2, <1>5, <1>8, ApprovedStays

--------------------------------------------------------------------------------
(* The steps *)

LEMMA NextRows ==
  ASSUME IInv, [Next]_vars
  PROVE  RowStep
<1>1. Rows BY DEF IInv, TypeOK, Rows, RowsTyped
<1>2. CASE UNCHANGED <<entities, revisions>> BY <1>1, <1>2, Unchanged
<1>3. ASSUME NEW r \in Requests, Save(r) PROVE RowStep BY <1>3, SaveRows
<1>4. ASSUME NEW r \in Requests, Delete(r) PROVE RowStep BY <1>4, DeleteRows
<1>5. ASSUME NEW r \in Requests, Publish(r) PROVE RowStep BY <1>5, PublishRows
<1>6. ASSUME NEW r \in Requests, Reject(r) PROVE RowStep BY <1>6, RejectRows
<1>7. ASSUME NEW e \in Entities, Offline(e) PROVE RowStep BY <1>7, OfflineRows
<1>8. ASSUME NEW e \in Entities, NEW n \in 1 .. MaxRevs(e), Submit(e, n) PROVE RowStep
  BY <1>8, SubmitRows
<1>9. ASSUME NEW k \in Reports, TakeDown(k) PROVE RowStep BY <1>9, TakeDownRows
<1> QED BY <1>2, <1>3, <1>4, <1>5, <1>6, <1>7, <1>8, <1>9
        DEF Next, vars, CheckContent, LockForDeletion, ReadPublished, OpenReview, LockForApproval,
            InsertTask, InsertReport, Dismiss, BanAuthor, ChangeEntitlement

\* One handler is at work in a step, and what it goes by is sound.
CallStep(r) ==
    /\ calls' \in [Requests -> Call]
    /\ \A q \in Requests : q # r => calls'[q] = calls[q]
    /\ CallSound(r)'
    /\ calls'[r].op \in {"publish", "delete"} => ~ Locked(calls'[r].entity)

LEMMA IdleStep ==
  ASSUME TypeOK, NEW r \in Requests, Becomes(r, Idle)
  PROVE  CallStep(r)
<1>1. Idle \in Call /\ Idle.op = "idle" BY DEF Idle, Call
<1>2. calls' \in [Requests -> Call] /\ calls'[r] = Idle
      /\ \A q \in Requests : q # r => calls'[q] = calls[q]
  BY <1>1 DEF Becomes, TypeOK
<1> QED BY <1>1, <1>2 DEF CallStep, CallSound

LEMMA BeginStep ==
  ASSUME IInv, RowStep, UNCHANGED <<entities, revisions>>, NEW r \in Requests, NEW e \in Entities,
         \/ CheckContent(r, e) \/ LockForDeletion(r, e)
         \/ ReadPublished(r, e, "report") \/ ReadPublished(r, Expert, "task")
         \/ \E n \in 1 .. MaxRevs(e) : OpenReview(r, e, n)
  PROVE  CallStep(r)
<1>1. TypeOK /\ calls \in [Requests -> Call] BY DEF IInv, TypeOK
<1>2. \A f \in Entities : \A n :
        /\ Exists(f, n)' <=> Exists(f, n)
        /\ Status(f, n)' = Status(f, n) /\ Gone(f)' = Gone(f)
        /\ Approved(f, n)' = Approved(f, n)
  BY DEF Exists, Status, Gone, Approved
<1>3. CASE CheckContent(r, e)
  <2>1. PICK c \in Contents(e) : /\ c.ref # 0 => Exists(Skill, c.ref)
                                /\ Becomes(r, [op |-> "save", entity |-> e, content |-> c])
    BY <1>3 DEF CheckContent
  <2>2. c \in [ref : Nat]
    BY PublishingAssumption DEF Contents
  <2>3. PICK call : call = [op |-> "save", entity |-> e, content |-> c] OBVIOUS
  <2>4. call \in Call /\ call.op = "save" /\ call.content = c BY <2>2, <2>3 DEF Call
  <2>5. calls' \in [Requests -> Call] /\ calls'[r] = call
        /\ \A q \in Requests : q # r => calls'[q] = calls[q]
    BY <1>1, <2>1, <2>3, <2>4 DEF Becomes
  <2>6. c.ref # 0 => Exists(Skill, c.ref)' BY <1>2, <2>1 DEF Entities
  <2> QED BY <2>4, <2>5, <2>6 DEF CallStep, CallSound, Found
<1>4. CASE LockForDeletion(r, e)
  <2>1. PICK call : call = [op |-> "delete", entity |-> e] OBVIOUS
  <2>2. call \in Call /\ call.op = "delete" /\ call.entity = e BY <2>1 DEF Call
  <2>3. calls' \in [Requests -> Call] /\ calls'[r] = call /\ ~ Locked(e)
        /\ \A q \in Requests : q # r => calls'[q] = calls[q]
    BY <1>1, <1>4, <2>1, <2>2 DEF LockForDeletion, Becomes
  <2> QED BY <2>2, <2>3 DEF CallStep, CallSound
<1>5. ASSUME NEW op \in {"report", "task"}, NEW f \in Entities, op = "task" => f = Expert,
             ReadPublished(r, f, op)
      PROVE  CallStep(r)
  <2>1. PICK n \in DOMAIN revisions[f] :
          Status(f, n) = "published" /\ Becomes(r, [op |-> op, entity |-> f, revision |-> n])
    BY <1>5 DEF ReadPublished
  <2>2. n \in Nat BY <1>1 DEF TypeOK
  <2>3. PICK call : call = [op |-> op, entity |-> f, revision |-> n] OBVIOUS
  <2>4. call \in Call /\ call.op = op /\ call.entity = f /\ call.revision = n
    BY <2>2, <2>3 DEF Call
  <2>5. calls' \in [Requests -> Call] /\ calls'[r] = call
        /\ \A q \in Requests : q # r => calls'[q] = calls[q]
    BY <1>1, <2>1, <2>3, <2>4 DEF Becomes
  <2>6. Approved(f, n)' BY <1>2, <2>1 DEF Approved
  <2> QED BY <1>5, <2>4, <2>5, <2>6 DEF CallStep, CallSound
<1>6. ASSUME NEW n \in 1 .. MaxRevs(e), OpenReview(r, e, n) PROVE CallStep(r)
  <2>1. n \in DOMAIN revisions[e] /\ Status(e, n) = "pending_review" /\ n \in Nat
    BY <1>6 DEF OpenReview, Status, Exists
  <2>2. revisions[e][n].content \in [ref : Nat]
    <3>1. revisions[e][n] \in Revision BY <1>1, <2>1 DEF TypeOK
    <3> QED BY <3>1 DEF Revision
  <2>3. PICK call : call = [op |-> "review", entity |-> e, revision |-> n,
                            content |-> revisions[e][n].content]
    OBVIOUS
  <2>4. call \in Call /\ call.op = "review" /\ call.entity = e /\ call.revision = n
        /\ call.content = revisions[e][n].content
    BY <2>1, <2>2, <2>3 DEF Call
  <2>5. calls' \in [Requests -> Call] /\ calls'[r] = call
        /\ \A q \in Requests : q # r => calls'[q] = calls[q]
    BY <1>1, <1>6, <2>3, <2>4 DEF OpenReview, Becomes
  <2>6. Exists(e, n)' /\ Status(e, n)' # "draft" BY <1>2, <2>1 DEF Exists
  <2> QED BY <2>4, <2>5, <2>6 DEF CallStep, CallSound
<1> QED BY <1>3, <1>4, <1>5, <1>6 DEF Entities

LEMMA LockStep ==
  ASSUME IInv, RowStep, NEW r \in Requests, LockForApproval(r)
  PROVE  CallStep(r)
<1>1. TypeOK /\ calls \in [Requests -> Call] /\ CallSound(r) BY DEF IInv, TypeOK, Reading
<1>2. /\ calls[r] \in [op : {"review", "publish"}, entity : Entities, revision : Nat,
                        content : [ref : Nat]]
      /\ calls[r].op = "review" /\ ~ Locked(calls[r].entity)
  BY <1>1 DEF LockForApproval, Call
<1>3. PICK e \in Entities, n \in Nat, c \in [ref : Nat] :
        e = calls[r].entity /\ n = calls[r].revision /\ c = calls[r].content
  BY <1>2
<1>4. CASE ~ Approvable(e, n)
  BY <1>1, <1>3, <1>4, IdleStep DEF LockForApproval
<1>5. CASE Approvable(e, n)
  <2>1. PICK call : call = [calls[r] EXCEPT !.op = "publish"] OBVIOUS
  <2>2. call \in Call /\ call.op = "publish" /\ call.entity = e /\ call.revision = n
        /\ call.content = c
    BY <1>2, <1>3, <2>1 DEF Call
  <2>3. calls' \in [Requests -> Call] /\ calls'[r] = call
        /\ \A q \in Requests : q # r => calls'[q] = calls[q]
    BY <1>1, <1>3, <1>5, <2>1, <2>2 DEF LockForApproval, Becomes
  <2>4. /\ Status(e, n) = "pending_review" /\ revisions[e][n].content = c /\ Exists(e, n)
        /\ c.ref # 0 => Approved(Skill, c.ref)
    BY <1>1, <1>2, <1>3, <1>5 DEF Approvable, RefsPublished, Status, Exists, CallSound, Approved
  <2>5. UNCHANGED <<entities, revisions>> BY DEF LockForApproval
  <2>6. /\ (Status(e, n) = "pending_review")' /\ Exists(e, n)'
        /\ revisions'[e][n].content = c /\ (c.ref # 0 => Approved(Skill, c.ref)')
    BY <2>4, <2>5 DEF Status, Exists, Approved, Gone
  <2> QED BY <1>2, <1>3, <2>2, <2>3, <2>6 DEF CallStep, CallSound
<1> QED BY <1>4, <1>5

LEMMA NextCalls ==
  ASSUME IInv, RowStep, [Next]_vars
  PROVE  UNCHANGED calls \/ \E r \in Requests : CallStep(r)
<1>1. TypeOK BY DEF IInv
<1>2. Expert \in Entities BY DEF Entities
<1>3. ASSUME NEW r \in Requests, NEW e \in Entities,
             \/ CheckContent(r, e) \/ LockForDeletion(r, e)
             \/ ReadPublished(r, e, "report") \/ ReadPublished(r, Expert, "task")
             \/ \E n \in 1 .. MaxRevs(e) : OpenReview(r, e, n)
      PROVE  CallStep(r)
  <2>1. UNCHANGED <<entities, revisions>>
    BY <1>3 DEF CheckContent, LockForDeletion, ReadPublished, OpenReview
  <2> QED BY <1>3, <2>1, BeginStep
<1>4. ASSUME NEW r \in Requests,
             \/ Save(r) \/ Delete(r) \/ Publish(r) \/ Reject(r) \/ InsertTask(r) \/ InsertReport(r)
      PROVE  CallStep(r)
  <2>1. Becomes(r, Idle)
    BY <1>4 DEF Save, Delete, Publish, Reject, InsertTask, InsertReport
  <2> QED BY <1>1, <2>1, IdleStep
<1>5. ASSUME NEW r \in Requests, LockForApproval(r) PROVE CallStep(r) BY <1>5, LockStep
<1>6. CASE UNCHANGED calls BY <1>6
<1> QED BY <1>2, <1>3, <1>4, <1>5, <1>6
        DEF Next, vars, Offline, Submit, Dismiss, TakeDown, BanAuthor, ChangeEntitlement

LEMMA CallsNext ==
  ASSUME IInv, RowStep, [Next]_vars
  PROVE  calls' \in [Requests -> Call] /\ Exclusive' /\ Reading'
<1>1. TypeOK /\ calls \in [Requests -> Call] /\ Exclusive BY DEF IInv, TypeOK
<1>2. RefsFound' BY RefsStay
<1>3. CASE UNCHANGED calls
  <2>1. \A r \in Requests : CallSound(r)' BY <1>3, CallKept
  <2> QED BY <1>1, <1>2, <1>3, <2>1 DEF Exclusive, Reading
<1>4. ASSUME NEW r \in Requests, CallStep(r)
      PROVE  calls' \in [Requests -> Call] /\ Exclusive' /\ Reading'
  <2>1. \A q \in Requests : CallSound(q)'
    <3> SUFFICES ASSUME NEW q \in Requests PROVE CallSound(q)' OBVIOUS
    <3>1. CASE q = r BY <1>4, <3>1 DEF CallStep
    <3>2. CASE q # r
      <4>1. calls'[q] = calls[q] BY <1>4, <3>2 DEF CallStep
      <4> QED BY <4>1, CallKept
    <3> QED BY <3>1, <3>2
  <2>2. ASSUME NEW q \in Requests, q # r, calls'[q].op \in {"publish", "delete"},
               calls'[r].op \in {"publish", "delete"}
        PROVE  calls'[q].entity # calls'[r].entity
    <3>1. calls'[q] = calls[q] /\ ~ Locked(calls'[r].entity) BY <1>4, <2>2 DEF CallStep
    <3>2. calls[q] # Idle BY <2>2, <3>1 DEF Idle
    <3> QED BY <2>2, <3>1, <3>2 DEF Locked, Of
  <2>3. ASSUME NEW p \in Requests, NEW q \in Requests, p # r, q # r
        PROVE  calls'[p] = calls[p] /\ calls'[q] = calls[q]
    BY <1>4, <2>3 DEF CallStep
  <2>4. Exclusive'
    BY <1>1, <2>2, <2>3 DEF Exclusive
  <2> QED BY <1>2, <1>4, <2>1, <2>4 DEF CallStep, Reading
<1> QED BY <1>3, <1>4, NextCalls

LEMMA TasksNext ==
  ASSUME IInv, RowStep, [Next]_vars
  PROVE  tasks' \subseteq Nat /\ TasksRunReviewed'
<1>1. TypeOK /\ Rows /\ TasksRunReviewed /\ Expert \in Entities
  BY DEF IInv, TypeOK, Rows, RowsTyped, Entities
<1>2. ASSUME NEW n \in tasks PROVE (Status(Expert, n) \in {"published", "archived"})'
  <2>1. n \in Nat BY <1>1 DEF TypeOK
  <2>2. Approved(Expert, n)' BY <1>1, <2>1, ApprovedStays DEF TasksRunReviewed, Approved
  <2>3. ~ Gone(Expert)
    BY <1>1 DEF TasksRunReviewed, Rows, NoRows, Gone, Status, Exists
  <2>4. ~ Gone(Expert)' BY <1>1, <2>3 DEF RowStep, History
  <2> QED BY <2>2, <2>4 DEF Approved
<1>3. ASSUME NEW r \in Requests, InsertTask(r)
      PROVE  tasks' \subseteq Nat /\ TasksRunReviewed'
  <2>1. calls[r] \in Call /\ calls[r].op = "task" BY <1>1, <1>3 DEF InsertTask, TypeOK
  <2>2. PICK n \in Nat : n = calls[r].revision BY <2>1 DEF Call
  <2>3. Exists(Expert, n) => (Status(Expert, n) \in {"published", "archived"})'
    <3>1. Approved(Expert, n) BY <2>1, <2>2 DEF IInv, Reading, CallSound
    <3>2. Gone(Expert) => ~ Exists(Expert, n) BY <1>1 DEF Rows, NoRows, Gone, Exists
    <3>3. Status(Expert, n)' = Status(Expert, n) BY <1>3 DEF InsertTask, Status, Exists
    <3> QED BY <3>1, <3>2, <3>3 DEF Approved
  <2>4. tasks' = IF Exists(Expert, n) THEN tasks \cup {n} ELSE tasks
    BY <1>3, <2>2 DEF InsertTask
  <2> QED BY <1>1, <1>2, <2>3, <2>4 DEF TasksRunReviewed, TypeOK
<1>4. CASE UNCHANGED tasks BY <1>1, <1>2, <1>4 DEF TasksRunReviewed, TypeOK
<1> QED BY <1>3, <1>4
        DEF Next, vars, CheckContent, LockForDeletion, ReadPublished, OpenReview, LockForApproval,
            Save, Delete, Publish, Reject, InsertReport, Offline, Submit, Dismiss, TakeDown,
            BanAuthor, ChangeEntitlement

LEMMA ReportsNext ==
  ASSUME TypeOK, [Next]_vars
  PROVE  reports' \in [Reports -> Report] /\ author' \in BOOLEAN
<1>1. ASSUME NEW k \in Reports, NEW how \in {"dismissed", "taken_down", "banned"}, Resolves(k, how)
      PROVE  reports' \in [Reports -> Report]
  <2>1. PICK q : q = [reports[k] EXCEPT !.status = how] OBVIOUS
  <2>2. reports[k] \in Report /\ reports[k].status = "open" BY <1>1 DEF TypeOK, Resolves
  <2>3. q \in Report BY <2>1, <2>2 DEF Report
  <2>4. reports' = [reports EXCEPT ![k] = q] BY <1>1, <2>1 DEF Resolves
  <2> QED BY <2>3, <2>4 DEF TypeOK
<1>2. ASSUME NEW r \in Requests, InsertReport(r) PROVE reports' \in [Reports -> Report]
  <2>1. calls[r] \in Call /\ calls[r].op = "report" BY <1>2 DEF InsertReport, TypeOK
  <2>2. PICK q : q = [status |-> "open", entity |-> calls[r].entity,
                      revision |-> calls[r].revision]
    OBVIOUS
  <2>3. q \in Report BY <2>1, <2>2 DEF Call, Report
  <2>4. PICK k \in Reports : reports' = [reports EXCEPT ![k] = q]
    BY <1>2, <2>2 DEF InsertReport
  <2> QED BY <2>3, <2>4 DEF TypeOK
<1>3. reports' \in [Reports -> Report]
  BY <1>1, <1>2 DEF TypeOK, Next, vars, CheckContent, LockForDeletion, ReadPublished, OpenReview,
       LockForApproval, Save, Delete, Publish, Reject, InsertTask, Offline, Submit, Dismiss,
       TakeDown, BanAuthor, ChangeEntitlement
<1>4. author' \in BOOLEAN
  BY ZenonT(60) DEF TypeOK, Next, vars, CheckContent, LockForDeletion, ReadPublished, OpenReview,
       LockForApproval, Save, Delete, Publish, Reject, InsertTask, InsertReport, Offline, Submit,
       Dismiss, TakeDown, BanAuthor, ChangeEntitlement
<1> QED BY <1>3, <1>4

LEMMA InitInvariant ==
  ASSUME Init
  PROVE  IInv
<1>1. TypeOK
  <2>1. \A e \in Entities : MaxRevs(e) \in Nat BY PublishingAssumption DEF MaxRevs
  <2>2. Len(<<>>) = 0 /\ <<>> \in Seq(Revision) OBVIOUS
  <2>3. Idle \in Call BY DEF Idle, Call
  <2>4. [status |-> "absent"] \in Report BY DEF Report
  <2> QED BY <2>1, <2>2, <2>3, <2>4 DEF Init, TypeOK
<1>2. \A r \in Requests : calls[r].op = "idle" BY DEF Init, Idle
<1>3. NoRows /\ RefsFound /\ PublicRefsReviewed /\ TasksRunReviewed
  BY DEF Init, NoRows, RefsFound, PublicRefsReviewed, TasksRunReviewed, Entities
<1>4. PointerMatches
  <2>1. \A e \in Entities : \A n \in 1 .. MaxRevs(e) : n # 0 OBVIOUS
  <2> QED BY <2>1 DEF Init, PointerMatches, Status, Exists
<1> QED BY <1>1, <1>2, <1>3, <1>4 DEF IInv, Exclusive, Reading, CallSound

LEMMA NextInvariant ==
  ASSUME IInv, [Next]_vars
  PROVE  IInv'
<1>1. RowStep BY NextRows
<1>2. calls' \in [Requests -> Call] /\ Exclusive' /\ Reading' BY <1>1, CallsNext
<1>3. tasks' \subseteq Nat /\ TasksRunReviewed' BY <1>1, TasksNext
<1>4. reports' \in [Reports -> Report] /\ author' \in BOOLEAN BY ReportsNext DEF IInv
<1>5. PublicRefsReviewed' BY <1>1, PublicStay
<1>6. TypeOK' BY <1>1, <1>2, <1>3, <1>4 DEF RowStep, Rows, RowsTyped, TypeOK
<1> QED BY <1>1, <1>2, <1>3, <1>5, <1>6 DEF RowStep, Rows, IInv

--------------------------------------------------------------------------------
(* Theorems *)

\* Entities, revisions, reports and what the handlers hold keep their types, and the pointer of
\* an entity never points past its revisions, although a deletion removes them under it.
THEOREM TypeCorrect == Spec => []TypeOK
<1>1. IInv => TypeOK BY DEF IInv
<1> QED BY InitInvariant, NextInvariant, <1>1, PTL DEF Spec

\* What the discovery pages show and what create_task accepts agree for any number of handlers
\* and revisions, through approvals, takedowns, deletions and offline entities.
THEOREM PointerCorrect == Spec => []PointerMatches
<1>1. IInv => PointerMatches BY DEF IInv
<1> QED BY InitInvariant, NextInvariant, <1>1, PTL DEF Spec

\* An expert that is or was public refers to a skill revision that passed review, or to a skill
\* deleted since, although approve_revision reads the skills without locking them.
THEOREM PublicRefsCorrect == Spec => []PublicRefsReviewed
<1>1. IInv => PublicRefsReviewed BY DEF IInv
<1> QED BY InitInvariant, NextInvariant, <1>1, PTL DEF Spec

\* Every task runs a revision that passed review and is still there, although create_task
\* inserts the row some time after it read the status.
THEOREM TasksCorrect == Spec => []TasksRunReviewed
<1>1. IInv => TasksRunReviewed BY DEF IInv
<1> QED BY InitInvariant, NextInvariant, <1>1, PTL DEF Spec

\* What becomes public is what the reviewer who approved it had read.
LEMMA PublishedAsReadStep ==
  ASSUME IInv, [Next]_vars
  PROVE  \A e \in Entities :
           entities'[e].pointer \notin {0, entities[e].pointer} =>
             \E r \in Requests : /\ calls[r].op = "publish" /\ calls[r].entity = e
                                 /\ calls[r].content = revisions'[e][entities'[e].pointer].content
<1> SUFFICES ASSUME NEW e \in Entities, entities'[e].pointer \notin {0, entities[e].pointer}
             PROVE  \E r \in Requests :
                      /\ calls[r].op = "publish" /\ calls[r].entity = e
                      /\ calls[r].content = revisions'[e][entities'[e].pointer].content
  OBVIOUS
<1>1. RowStep BY NextRows
<1>2. PICK n \in Nat : n = entities'[e].pointer BY <1>1 DEF RowStep, Rows, RowsTyped
<1>3. PICK r \in Requests : /\ calls[r].op = "publish"
                            /\ calls[r].entity = e /\ calls[r].revision = n
  BY <1>1, <1>2 DEF RowStep, History, Publishes
<1>4. /\ Status(e, n) = "pending_review" /\ Exists(e, n)
      /\ revisions[e][n].content = calls[r].content
  BY <1>3 DEF IInv, Reading, CallSound, Status
<1>5. Exists(e, n)'
  <2>1. revisions'[e] \in Seq(Revision) /\ n <= Len(revisions'[e]) /\ n # 0
    BY <1>1, <1>2 DEF RowStep, Rows, RowsTyped
  <2> QED BY <2>1 DEF Exists
<1>6. ContentStands(e, n) BY <1>1, <1>5 DEF RowStep, History
<1>7. revisions'[e][n].content = revisions[e][n].content BY <1>4, <1>6 DEF ContentStands
<1> QED BY <1>2, <1>3, <1>4, <1>7

\* approve_revision publishes, word for word, what its reviewer had read, whatever the author
\* saves and other reviewers decide in between.
THEOREM PublishedAsReadCorrect == Spec => PublishedAsRead
BY InitInvariant, NextInvariant, PublishedAsReadStep, PTL DEF Spec, PublishedAsRead

\* A decision stands: no revision that was rejected, replaced or taken down is public again, one
\* that is public is only replaced, taken down or deleted with its entity, and the content that
\* was decided on stays.
THEOREM DecisionsCorrect == Spec => DecisionsStand
<1>1. ASSUME IInv, [Next]_vars
      PROVE  \A e \in Entities : \A n \in 1 .. MaxRevs(e) :
               Status(e, n) \in {"rejected", "published", "archived"} =>
                 /\ \/ Status(e, n)' = Status(e, n)
                    \/ Status(e, n) = "published" /\ Status(e, n)' = "archived"
                    \/ ~Exists(e, n)' /\ entities'[e].status = "deleted"
                 /\ Exists(e, n)' => revisions'[e][n].content = revisions[e][n].content
  <2> SUFFICES ASSUME NEW e \in Entities, NEW n \in 1 .. MaxRevs(e),
                      Status(e, n) \in {"rejected", "published", "archived"}
               PROVE  /\ \/ Status(e, n)' = Status(e, n)
                         \/ Status(e, n) = "published" /\ Status(e, n)' = "archived"
                         \/ ~Exists(e, n)' /\ entities'[e].status = "deleted"
                      /\ Exists(e, n)' => revisions'[e][n].content = revisions[e][n].content
    OBVIOUS
  <2>1. RowStep /\ n \in Nat BY <1>1, NextRows
  <2>2. Forward(e, n) /\ (Exists(e, n)' => ContentStands(e, n))
    BY <2>1 DEF RowStep, History
  <2>3. Gone(e)' => ~Exists(e, n)' BY <2>1 DEF RowStep, Rows, NoRows, Gone, Exists
  <2> QED BY <2>2, <2>3 DEF Forward, ContentStands, Gone
<1> QED BY InitInvariant, NextInvariant, <1>1, PTL DEF Spec, DecisionsStand

================================================================================
