------------------------------ MODULE Publishing ------------------------------
(***************************************************************************)
(* Authoring, review and moderation: an author edits and submits revisions *)
(* of a skill and of an expert that may refer to it, reviewers approve or  *)
(* reject what they have read, users create tasks from what is published   *)
(* and report it, administrators take it down or ban its author.           *)
(*                                                                         *)
(* A handler that relies on what it read before it held the row of the     *)
(* entity, or on rows other than that one, is a call of several steps; one *)
(* that reads and writes under the lock of the entity is one step.         *)
(***************************************************************************)
EXTENDS Naturals, Sequences, SequencesExt, FiniteSets

CONSTANTS
    Expert, Skill,   \* the two entities: an expert, and a skill of the same author
    MaxExpertRevs,   \* bound: revisions of the expert
    MaxSkillRevs,    \* bound: revisions of the skill
    MaxRequests,     \* bound: handlers at work at once
    MaxReports       \* bound: reports

Entities == {Expert, Skill}
Requests == 1 .. MaxRequests
Reports == 1 .. MaxReports

ASSUME PublishingAssumption ==
    /\ Expert # Skill
    /\ {MaxExpertRevs, MaxSkillRevs, MaxRequests, MaxReports} \subseteq Nat

MaxRevs(e) == IF e = Expert THEN MaxExpertRevs ELSE MaxSkillRevs

\* content_json, told apart by its skill_refs, which pin a revision of the skill or nothing.
Contents(e) == [ref : IF e = Expert THEN 0 .. MaxSkillRevs ELSE {0}]

VARIABLES
    entities,    \* experts and skills: status and published_revision_id (0 is NULL)
    revisions,   \* expert_revisions and skill_revisions by revision_no
    tasks,       \* revisions of the expert that rows of tasks refer to
    reports,     \* reports
    author,      \* is the author's account active, and entitled to write?
    calls        \* handlers at work

vars == <<entities, revisions, tasks, reports, author, calls>>

Idle == [op |-> "idle"]
FirstIdle(r) == calls[r] = Idle /\ \A q \in Requests : q < r => calls[q] # Idle
Becomes(r, call) == calls' = [calls EXCEPT ![r] = call]

Exists(e, n) == n \in DOMAIN revisions[e]
Status(e, n) == IF Exists(e, n) THEN revisions[e][n].status ELSE "absent"
Live(e) == entities[e].status \in {"draft", "published"}

Of(r, e) == calls[r] # Idle /\ calls[r].entity = e

\* SELECT ... FOR UPDATE of the entity, held between two steps.
Locked(e) == \E r \in Requests : calls[r].op \in {"publish", "delete"} /\ Of(r, e)

SetStatus(e, n, status) == [revisions EXCEPT ![e][n].status = status]

--------------------------------------------------------------------------------
(* The author: author_service *)

\* The entitlement, and every skill revision referred to, is read before the entity is locked.
CheckContent(r, e) ==
    /\ FirstIdle(r) /\ author
    /\ entities[e].status # "deleted"
    /\ entities[e].status = "absent" => ~\E q \in Requests : Of(q, e)
    /\ \E c \in Contents(e) : /\ c.ref # 0 => Exists(Skill, c.ref)
                              /\ Becomes(r, [op |-> "save", entity |-> e, content |-> c])
    /\ UNCHANGED <<entities, revisions, tasks, reports, author>>

\* Mutant of Overwritable: what is under review is overwritten too.
BugOverwritesPending(revs) == revs # <<>> /\ Last(revs).status \in {"draft", "pending_review"}

\* guard_owner_content_writes refuses to change the content of anything else.
Overwritable(revs) == revs # <<>> /\ Last(revs).status = "draft"

\* create_entity, and edit_entity: the latest draft is overwritten, or a new one is added.
Save(r) ==
    /\ calls[r].op = "save"
    /\ LET e == calls[r].entity
           revs == revisions[e]
           draft == [status |-> "draft", content |-> calls[r].content] IN
         /\ ~Locked(e) /\ (Overwritable(revs) \/ Len(revs) < MaxRevs(e))
         /\ IF entities[e].status = "deleted"
            THEN UNCHANGED <<entities, revisions>>
            ELSE /\ revisions' = [revisions EXCEPT ![e] =
                      IF Overwritable(revs)
                      THEN [revs EXCEPT ![Len(revs)].content = calls[r].content]
                      ELSE Append(revs, draft)]
                 /\ entities' = IF entities[e].status = "absent"
                                THEN [entities EXCEPT ![e].status = "draft"] ELSE entities
    /\ Becomes(r, Idle)
    /\ UNCHANGED <<tasks, reports, author>>

\* submit_revision; the automatic check and the tools may refuse, which changes nothing.
Submit(e, n) ==
    /\ author /\ ~Locked(e) /\ Status(e, n) = "draft"
    /\ revisions' = SetStatus(e, n, "pending_review")
    /\ UNCHANGED <<entities, tasks, reports, author, calls>>

\* offline_entity: the pointer and the status of the revision are kept.
Offline(e) ==
    /\ author /\ ~Locked(e) /\ entities[e].status = "published"
    /\ entities' = [entities EXCEPT ![e].status = "draft"]
    /\ UNCHANGED <<revisions, tasks, reports, author, calls>>

\* _count_references, read by another session.
Referred(e) ==
    IF e = Expert THEN tasks # {}
    ELSE \E n \in DOMAIN revisions[Expert] : revisions[Expert][n].content.ref # 0

LockForDeletion(r, e) ==
    /\ FirstIdle(r) /\ author /\ Live(e) /\ ~Locked(e) /\ ~Referred(e)
    /\ Becomes(r, [op |-> "delete", entity |-> e])
    /\ UNCHANGED <<entities, revisions, tasks, reports, author>>

\* Mutant of Delete: tasks.expert_revision_id cascades.
BugCountsOnly(r) ==
    /\ calls[r].op = "delete"
    /\ LET e == calls[r].entity IN
         /\ revisions' = [revisions EXCEPT ![e] = <<>>]
         /\ entities' = [entities EXCEPT ![e] = [status |-> "deleted", pointer |-> 0]]
    /\ Becomes(r, Idle)
    /\ UNCHANGED <<tasks, reports, author>>

\* delete_entity: the foreign key of tasks restricts; nothing restricts for references in
\* content_json.
Delete(r) ==
    /\ calls[r].op = "delete"
    /\ LET e == calls[r].entity IN
         IF e = Expert /\ tasks # {}
         THEN UNCHANGED <<entities, revisions>>
         ELSE /\ revisions' = [revisions EXCEPT ![e] = <<>>]
              /\ entities' = [entities EXCEPT ![e] = [status |-> "deleted", pointer |-> 0]]
    /\ Becomes(r, Idle)
    /\ UNCHANGED <<tasks, reports, author>>

--------------------------------------------------------------------------------
(* Review: review_service *)

\* A reviewer reads the queue (list_reviews) and decides on what it shows.
OpenReview(r, e, n) ==
    /\ FirstIdle(r) /\ Status(e, n) = "pending_review"
    /\ Becomes(r, [op |-> "review", entity |-> e, revision |-> n,
                   content |-> revisions[e][n].content])
    /\ UNCHANGED <<entities, revisions, tasks, reports, author>>

\* _assert_skill_refs_published: the rows of the skill are read, not locked.
RefsPublished(c) == c.ref # 0 => Status(Skill, c.ref) = "published"

\* Mutants of Approvable: the revision is not read again under the lock of the entity; the
\* skills referred to are not looked at.
BugNoReread(e, n) == Exists(e, n) /\ RefsPublished(revisions[e][n].content)
BugAnySkill(e, n) == Status(e, n) = "pending_review"

Approvable(e, n) == Status(e, n) = "pending_review" /\ RefsPublished(revisions[e][n].content)

\* approve_revision up to the update of the pointer; tools that are not enabled refuse too.
LockForApproval(r) ==
    /\ calls[r].op = "review" /\ ~Locked(calls[r].entity)
    /\ Becomes(r, IF Approvable(calls[r].entity, calls[r].revision)
                  THEN [calls[r] EXCEPT !.op = "publish"] ELSE Idle)
    /\ UNCHANGED <<entities, revisions, tasks, reports, author>>

\* Mutant of Publish: the revision that is replaced is not archived.
BugKeepsPrevious(r) ==
    /\ calls[r].op = "publish"
    /\ LET e == calls[r].entity  n == calls[r].revision IN
         /\ entities' = [entities EXCEPT ![e] = [status |-> "published", pointer |-> n]]
         /\ revisions' = SetStatus(e, n, "published")
    /\ Becomes(r, Idle)
    /\ UNCHANGED <<tasks, reports, author>>

\* The pointer cannot have changed while the entity was locked, so the CAS succeeds.
Publish(r) ==
    /\ calls[r].op = "publish"
    /\ LET e == calls[r].entity
           n == calls[r].revision
           previous == entities[e].pointer IN
         /\ entities' = [entities EXCEPT ![e] = [status |-> "published", pointer |-> n]]
         /\ revisions' = [revisions EXCEPT ![e] = [m \in DOMAIN revisions[e] |->
              [revisions[e][m] EXCEPT !.status =
                 IF m = n THEN "published" ELSE IF m = previous THEN "archived" ELSE @]]]
    /\ Becomes(r, Idle)
    /\ UNCHANGED <<tasks, reports, author>>

\* reject_revision
Reject(r) ==
    /\ calls[r].op = "review" /\ ~Locked(calls[r].entity)
    /\ LET e == calls[r].entity  n == calls[r].revision IN
         revisions' = IF Status(e, n) = "pending_review"
                      THEN SetStatus(e, n, "rejected") ELSE revisions
    /\ Becomes(r, Idle)
    /\ UNCHANGED <<entities, tasks, reports, author>>

--------------------------------------------------------------------------------
(* Users: create_task and create_report *)

\* The revision must be published; whose entity is offline is shown to its author alone.
ReadPublished(r, e, op) ==
    /\ FirstIdle(r)
    /\ \E n \in DOMAIN revisions[e] :
         /\ Status(e, n) = "published"
         /\ Becomes(r, [op |-> op, entity |-> e, revision |-> n])
    /\ UNCHANGED <<entities, revisions, tasks, reports, author>>

\* The foreign key wants the revision still there; it may be archived by now.
InsertTask(r) ==
    /\ calls[r].op = "task"
    /\ tasks' = IF Exists(Expert, calls[r].revision) THEN tasks \cup {calls[r].revision} ELSE tasks
    /\ Becomes(r, Idle)
    /\ UNCHANGED <<entities, revisions, reports, author>>

InsertReport(r) ==
    /\ calls[r].op = "report"
    /\ \E k \in Reports :
         /\ reports[k].status = "absent"
         /\ \A j \in Reports : j < k => reports[j].status # "absent"
         /\ reports' = [reports EXCEPT ![k] = [status |-> "open", entity |-> calls[r].entity,
                                               revision |-> calls[r].revision]]
    /\ Becomes(r, Idle)
    /\ UNCHANGED <<entities, revisions, tasks, author>>

--------------------------------------------------------------------------------
(* Moderation: resolve_report; the column says "actioned" for both of the last two *)

Resolves(k, how) == /\ reports[k].status = "open"
                    /\ reports' = [reports EXCEPT ![k].status = how]

Dismiss(k) ==
    /\ Resolves(k, "dismissed")
    /\ UNCHANGED <<entities, revisions, tasks, author, calls>>

\* Whatever revision is public now is taken down, not the one that was reported.
TakeDown(k) ==
    /\ Resolves(k, "taken_down")
    /\ LET e == reports[k].entity  current == entities[e].pointer IN
         /\ Exists(e, reports[k].revision) /\ ~Locked(e) /\ current # 0
         /\ revisions' = SetStatus(e, current, "archived")
         /\ entities' = [entities EXCEPT ![e] = [status |-> "draft", pointer |-> 0]]
    /\ UNCHANGED <<tasks, author, calls>>

\* suspend_user_atomic with revoke_entitlement refuses an account that is suspended already;
\* what is published stays.
BanAuthor(k) ==
    /\ Resolves(k, "banned")
    /\ Exists(reports[k].entity, reports[k].revision)
    /\ author' = FALSE
    /\ UNCHANGED <<entities, revisions, tasks, calls>>

\* grant_entitlement and revoke_entitlement, suspend_user and unsuspend_user.
ChangeEntitlement ==
    /\ author' = ~author
    /\ UNCHANGED <<entities, revisions, tasks, reports, calls>>

--------------------------------------------------------------------------------
Init ==
    /\ entities = [e \in Entities |-> [status |-> "absent", pointer |-> 0]]
    /\ revisions = [e \in Entities |-> <<>>]
    /\ tasks = {}
    /\ reports = [k \in Reports |-> [status |-> "absent"]]
    /\ author = TRUE
    /\ calls = [r \in Requests |-> Idle]

Next ==
    \/ \E r \in Requests :
         \/ \E e \in Entities :
              \/ CheckContent(r, e) \/ LockForDeletion(r, e) \/ ReadPublished(r, e, "report")
              \/ \E n \in 1 .. MaxRevs(e) : OpenReview(r, e, n)
         \/ ReadPublished(r, Expert, "task")
         \/ Save(r) \/ Delete(r) \/ LockForApproval(r) \/ Publish(r) \/ Reject(r)
         \/ InsertTask(r) \/ InsertReport(r)
    \/ \E e \in Entities : Offline(e) \/ \E n \in 1 .. MaxRevs(e) : Submit(e, n)
    \/ \E k \in Reports : Dismiss(k) \/ TakeDown(k) \/ BanAuthor(k)
    \/ ChangeEntitlement

Spec == Init /\ [][Next]_vars

--------------------------------------------------------------------------------
(* Properties *)

Revision == [status : {"draft", "pending_review", "rejected", "published", "archived"},
             content : [ref : Nat]]

Report == [status : {"absent"}] \cup
          [status : {"open", "dismissed", "taken_down", "banned"},
           entity : Entities, revision : Nat]

Call == [op : {"idle"}] \cup [op : {"delete"}, entity : Entities] \cup
        [op : {"save"}, entity : Entities, content : [ref : Nat]] \cup
        [op : {"review", "publish"}, entity : Entities, revision : Nat, content : [ref : Nat]] \cup
        [op : {"task", "report"}, entity : Entities, revision : Nat]

TypeOK ==
    /\ entities \in [Entities -> [status : {"absent", "draft", "published", "deleted"},
                                  pointer : Nat]]
    /\ revisions \in [Entities -> Seq(Revision)]
    /\ \A e \in Entities : /\ Len(revisions[e]) <= MaxRevs(e)
                           /\ entities[e].pointer <= Len(revisions[e])
    /\ tasks \subseteq Nat
    /\ reports \in [Reports -> Report]
    /\ author \in BOOLEAN
    /\ calls \in [Requests -> Call]

\* The discovery pages join the pointer, create_task and create_report look at the status of
\* the revision: through approvals, takedowns, deletions and offline entities the two agree.
PointerMatches ==
    \A e \in Entities :
      /\ \A n \in 1 .. MaxRevs(e) : Status(e, n) = "published" <=> entities[e].pointer = n
      /\ entities[e].status = "published" => entities[e].pointer # 0

\* approve_revision's hash and lock: what becomes public is, word for word, what the reviewer
\* who approved it had read, whatever the author saved in between.
PublishedAsRead ==
    [][\A e \in Entities :
         entities'[e].pointer \notin {0, entities[e].pointer} =>
           \E r \in Requests : /\ calls[r].op = "publish" /\ calls[r].entity = e
                               /\ calls[r].content =
                                    revisions'[e][entities'[e].pointer].content]_vars

\* "A rejected revision could be published": a decision of one reviewer, a newer version or a
\* takedown is final for the revision, whatever another reviewer still has open.  What is public
\* is only ever replaced, taken down or deleted with its entity, and what was decided on keeps
\* its content.
DecisionsStand ==
    [][\A e \in Entities : \A n \in 1 .. MaxRevs(e) :
         Status(e, n) \in {"rejected", "published", "archived"} =>
           /\ \/ Status(e, n)' = Status(e, n)
              \/ Status(e, n) = "published" /\ Status(e, n)' = "archived"
              \/ ~Exists(e, n)' /\ entities'[e].status = "deleted"
           /\ Exists(e, n)' => revisions'[e][n].content = revisions[e][n].content]_vars

\* _assert_skill_refs_published: an expert that is or was public refers to a revision of a skill
\* that passed review, unless the skill has since been deleted as a whole.  Nothing keeps the
\* skill public, or there, once the check has been made: a newer version, a takedown and the
\* author's own deletion all pass it by.
PublicRefsReviewed ==
    \A n \in DOMAIN revisions[Expert] :
      LET ref == revisions[Expert][n].content.ref IN
        Status(Expert, n) \in {"published", "archived"} /\ ref # 0 =>
          \/ Status(Skill, ref) \in {"published", "archived"}
          \/ entities[Skill].status = "deleted"

\* Every task has its revision, and runs content that passed review, even when the author
\* deletes the expert or a newer version replaces it while the task is being created.
TasksRunReviewed ==
    \A n \in tasks : Status(Expert, n) \in {"published", "archived"}

================================================================================
